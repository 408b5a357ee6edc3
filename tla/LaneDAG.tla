------------------------------- MODULE LaneDAG -------------------------------
(***************************************************************************)
(* The lane dependency graph of one swarm: what LaneDAG's transitions do   *)
(* to the states of its nodes.  `dag` maps a lane to its node's state,     *)
(* `deps` a lane to the lanes it depends on.                               *)
(***************************************************************************)
CONSTANT Lane

NodeStates == {"ready", "blocked", "running", "sealed", "failed"}

\* Mutant: one sealed dependency is enough.
recomputeBlocked_AnySealed(deps, dag) ==
  [l \in Lane |->
     IF dag[l] \notin {"ready", "blocked"} THEN dag[l]
     ELSE IF deps[l] # {} /\ \A d \in deps[l] : dag[d] # "sealed" THEN "blocked" ELSE "ready"]

\* recomputeBlocked: only ready and blocked nodes are looked at.
recomputeBlocked(deps, dag) ==
  [l \in Lane |->
     IF dag[l] \notin {"ready", "blocked"} THEN dag[l]
     ELSE IF \E d \in deps[l] : dag[d] # "sealed" THEN "blocked" ELSE "ready"]

InitialDag(deps) == recomputeBlocked(deps, [l \in Lane |-> "ready"])

\* The constructor's Map and getNode aside, three transitions are used while a
\* swarm runs.  markRunning throws unless the lane is ready.
CanMarkRunning(dag, l) == dag[l] = "ready"
markRunning(dag, l) == [dag EXCEPT ![l] = "running"]

\* Mutant: dependents are not looked at again when a lane is sealed.
markSealed_NoRecompute(deps, dag, S) == [l \in Lane |-> IF l \in S THEN "sealed" ELSE dag[l]]

\* markSealed of every lane in S, one after the other; nothing happens to one
\* that is sealed already.
markSealed(deps, dag, S) ==
  IF \A l \in S : dag[l] = "sealed" THEN dag
  ELSE recomputeBlocked(deps, [l \in Lane |-> IF l \in S THEN "sealed" ELSE dag[l]])

\* markFailed of every lane in S, one after the other.
markFailed(deps, dag, S) ==
  IF S = {} THEN dag
  ELSE recomputeBlocked(deps, [l \in Lane |-> IF l \in S THEN "failed" ELSE dag[l]])

\* The least superset of P that has all dependencies of its members.
Upstream(deps, P) ==
  {l \in Lane : \A S \in SUBSET Lane :
     P \subseteq S /\ (\A m \in S : deps[m] \subseteq S) => l \in S}

\* detectDeadlocks, for a snapshot without lock waits, timers and a full pool:
\* some lanes upstream of the pending ones wait for each other in a circle.
HasDeadlock(deps, dag, pending) ==
  \E S \in (SUBSET Upstream(deps, pending)) \ {{}} :
    \A l \in S : \E d \in deps[l] \cap S : dag[d] # "sealed"

=============================================================================

---------------------------- MODULE SwarmScheduler ----------------------------
(***************************************************************************)
(* One governed swarm: executeSwarmLanes starts the lanes of a dependency  *)
(* graph, runSubagent takes each of them through claims, attempts, retries *)
(* and release, and the parent stops, times out and closes the swarm.      *)
(*                                                                         *)
(* All of it runs on one thread.  An action is the code between two awaits *)
(* of one of these functions; while the scheduler's loop has the thread    *)
(* (scheduler = "turn") nothing else runs.                                 *)
(***************************************************************************)
EXTENDS Naturals, FiniteSets, LaneDAG

CONSTANTS
  Graphs,        \* the dependency maps a swarm may be given
  LockRequired,  \* lanes whose intent needs the governed lane lock
  Advisory,      \* lanes whose mode degrades on a timeout instead of failing
  Reused,        \* lanes whose result a resume plan carries over
  Capacity,      \* slots of the execution pool
  MaxInFlight,   \* computeMaxInFlightLanes
  MaxAttempts,   \* DEFAULT_SUBAGENT_MAX_ATTEMPTS
  CanStop,       \* whether the parent may cancel or run out of cost
  CanExpire,     \* whether the swarm's deadline may pass
  MaxRefusals,   \* bound on lock acquisitions refused
  MaxFaults      \* bound on lock releases that fail and admissions that throw

ASSUME GraphsAssumption == Graphs \subseteq [Lane -> SUBSET Lane]
ASSUME KindsAssumption ==
  LockRequired \subseteq Lane /\ Advisory \subseteq Lane /\ Reused \subseteq Lane
ASSUME LimitsAssumption ==
  /\ Capacity \in Nat \ {0} /\ MaxInFlight \in Nat \ {0} /\ MaxAttempts \in Nat \ {0}
  /\ CanStop \in BOOLEAN /\ CanExpire \in BOOLEAN
  /\ MaxRefusals \in Nat /\ MaxFaults \in Nat

VARIABLES
  deps,       \* dependsOn of each lane, fixed by the swarm's parameters
  dag,        \* state of each LaneDAG node
  pending,    \* lanes not started yet
  job,        \* [Lane -> where its runSubagent call stands]
  attempt,    \* [Lane -> attempts begun]
  reentry,    \* lanes whose acquireLane found them running (isRetryReentry)
  claim,      \* [Lane -> activeClaim: "none", "lockless" or "lock"]
  locks,      \* lanes whose lock the lock authority says this swarm holds
  runners,    \* lanes with a runner that has not settled
  deferred,   \* lanes whose claim waits for its runner to settle
  slots,      \* lanes holding a slot of the execution pool
  waiters,    \* lanes queued for one
  status,     \* [Lane -> status of its entry]
  result,     \* [Lane -> results[index]: "none", "completed" or "failed"]
  scheduler,  \* executeSwarmLanes: "turn", "wait", "woken" or "done"
  main,       \* the parent: "racing", "stopping", "closed" or "final"
  stop,       \* swarmStopReason is set, or the task is aborted
  expired,    \* swarmDeadline has passed
  refusals,
  faults

outcome == <<status, result>>
pool == <<slots, waiters>>
authority == <<locks, refusals, faults>>
parent == <<deps, main, expired>>
vars == <<deps, dag, pending, job, attempt, reentry, claim, locks, runners, deferred,
          slots, waiters, status, result, scheduler, main, stop, expired, refusals, faults>>

\* swarmFinalizationClosed.
closed == main \in {"closed", "final"}
Ended == {"none", "done"}
running == {l \in Lane : job[l] \notin Ended}

\* Anything but the scheduler's loop runs only while the loop awaits.
Yielded == scheduler # "turn"

-----------------------------------------------------------------------------
(* executeSwarmLanes *)

\* Pending lanes downstream of a failed lane, through pending lanes only.
Doomed(d, P) ==
  {l \in P : \A S \in SUBSET P :
     (\A m \in P : (\E u \in deps[m] : d[u] = "failed" \/ u \in S) => m \in S) => l \in S}

\* getReadyLanesByPriority, filtered to pending lanes.
Startable(d, P) == {l \in P : d[l] = "ready"}

\* How many more lanes may be in flight.
Room == IF Cardinality(running) < MaxInFlight THEN MaxInFlight - Cardinality(running) ELSE 0

\* The loop's head: every pending lane fails once the swarm is stopped.
Cancelled == IF stop THEN pending ELSE {}

\* One iteration of the loop.  Which ready lanes go first is a matter of their
\* schedule scores, left open here.  Where no lane is running, nothing is
\* awaited: the loop goes round again at once.
Iterate ==
  LET afterStop == markFailed(deps, dag, Cancelled)
      doomed == Doomed(afterStop, pending \ Cancelled)
      afterDoom == markFailed(deps, afterStop, doomed)
      left == pending \ (Cancelled \cup doomed)
      ready == Startable(afterDoom, left)
  IN  \E started \in SUBSET ready :
        /\ Cardinality(started) = IF Cardinality(ready) < Room THEN Cardinality(ready) ELSE Room
        /\ LET skipped == started \cap Reused
               idle == running \cup started = {}
               stuck == IF idle /\ HasDeadlock(deps, afterDoom, left) THEN left ELSE {}
               failing == Cancelled \cup doomed \cup stuck
               afterStart == markSealed(deps, afterDoom, skipped)
           IN  /\ dag' = markFailed(deps, afterStart, stuck)
               /\ pending' = left \ (started \cup stuck)
               /\ job' = [l \in Lane |-> IF l \in skipped THEN "skipping"
                                         ELSE IF l \in started THEN "setup" ELSE job[l]]
               /\ status' = [l \in Lane |-> IF l \in skipped THEN "completed"
                                            ELSE IF l \in failing THEN "failed" ELSE status[l]]
               /\ result' = [l \in Lane |-> IF l \in skipped THEN "completed"
                                            ELSE IF l \in failing THEN "failed" ELSE result[l]]
               /\ scheduler' = IF ~idle THEN "wait"
                               ELSE IF pending' = {} THEN "done" ELSE "turn"

\* The loop ends when the swarm is closed or nothing is left to do.
LoopEnds == closed \/ (pending = {} /\ running = {})

SchedulerTurn ==
  /\ scheduler \in {"turn", "woken"}
  /\ \/ LoopEnds /\ scheduler' = "done" /\ UNCHANGED <<dag, pending, job, outcome>>
     \/ ~LoopEnds /\ Iterate
  /\ UNCHANGED <<parent, stop, attempt, reentry, claim, authority, runners, deferred, pool>>

Woken == IF scheduler = "wait" THEN "woken" ELSE scheduler

-----------------------------------------------------------------------------
(* Pieces of runSubagent *)

\* Mutant: a released slot waits for the next acquire.
FreeSlot_NoHandOver(l) == slots' = slots \ {l} /\ UNCHANGED waiters

\* The execution pool hands a released slot to a waiter; every other effect
\* of its priorities is left open.
FreeSlot(l) ==
  \/ waiters = {} /\ slots' = slots \ {l} /\ UNCHANGED waiters
  \/ \E w \in waiters : slots' = (slots \ {l}) \cup {w} /\ waiters' = waiters \ {w}

\* The call is over and the scheduler is woken.
EndJob(l) ==
  /\ job' = [job EXCEPT ![l] = "done"]
  /\ scheduler' = Woken

Goes(l, phase) ==
  /\ job' = [job EXCEPT ![l] = phase]
  /\ UNCHANGED scheduler

\* Whether the lane is to be sealed is decided before its claim is released.
Releasing(s) == IF s = "completed" THEN "sealing" ELSE "failing"

\* The outer finally: a claim is released, or was left to the cleanup of a
\* runner that does not stop.
Finally(l, isDeferred) ==
  \/ claim[l] = "none" /\ EndJob(l) /\ UNCHANGED claim
  \/ claim[l] # "none" /\ isDeferred /\ EndJob(l) /\ claim' = [claim EXCEPT ![l] = "none"]
  \/ claim[l] # "none" /\ ~isDeferred /\ Goes(l, Releasing(status'[l])) /\ UNCHANGED claim

\* Mutant: an outcome is published although the swarm is closed.
Conclude_Late(l, s, isDeferred) ==
  /\ status' = [status EXCEPT ![l] = s]
  /\ result' = [result EXCEPT ![l] = s]
  /\ Finally(l, isDeferred)

\* The lane's outcome is published, unless the swarm is closed by now.
Conclude(l, s, isDeferred) ==
  /\ IF closed THEN UNCHANGED outcome
     ELSE /\ status' = [status EXCEPT ![l] = s]
          /\ result' = [result EXCEPT ![l] = s]
  /\ Finally(l, isDeferred)

\* The head of the attempt loop.
TryAttempt(l) ==
  IF closed \/ stop \/ expired
  THEN /\ Conclude(l, "failed", FALSE)
       /\ UNCHANGED <<attempt, pool>>
  ELSE /\ attempt' = [attempt EXCEPT ![l] = @ + 1]
       /\ IF Cardinality(slots) < Capacity
          THEN slots' = slots \cup {l} /\ UNCHANGED waiters
          ELSE waiters' = waiters \cup {l} /\ UNCHANGED slots
       /\ Goes(l, "slot")
       /\ UNCHANGED <<claim, outcome>>

\* Mutant: one attempt too many.
CanRetry_OneMore(l) == attempt[l] <= MaxAttempts /\ ~stop /\ ~closed

CanRetry(l) == attempt[l] < MaxAttempts /\ ~stop /\ ~closed

\* An attempt that did not complete is retried, or is the last one.  Which
\* errors and budgets allow another attempt is left open.
FailAttempt(l) ==
  \/ /\ CanRetry(l) /\ l \in LockRequired
     /\ Goes(l, "unlocking")
     /\ UNCHANGED <<claim, outcome, pool>>
  \/ /\ CanRetry(l) /\ l \notin LockRequired
     /\ Goes(l, "backoff") /\ FreeSlot(l)
     /\ UNCHANGED <<claim, outcome>>
  \/ Conclude(l, "failed", FALSE) /\ FreeSlot(l)

\* releaseLockClaims: with no lock there is nothing that can fail.
Released(l) == locks' = locks \ {l} /\ UNCHANGED faults

\* A release that throws or reports an error may still have freed the lock.
NotReleased(l) ==
  /\ l \in LockRequired /\ faults < MaxFaults
  /\ faults' = faults + 1
  /\ locks' \in {locks, locks \ {l}}

-----------------------------------------------------------------------------
(* acquireLane *)

\* runSubagent's first await is over.
Setup(l) ==
  /\ Yielded /\ job[l] = "setup"
  /\ TryAttempt(l)
  /\ UNCHANGED <<parent, stop, dag, pending, reentry, authority, runners, deferred>>

\* acquireLane throws or refuses: the slot is given back and the outer catch
\* fails the lane.  Its node keeps its state.
Refused(l) == Conclude(l, "failed", FALSE) /\ FreeSlot(l)

\* The abort signal rejects the waiters of the pool.
SlotCancelled(l) ==
  /\ Yielded /\ job[l] = "slot" /\ l \notin slots \cup waiters
  /\ Conclude(l, "failed", FALSE)
  /\ UNCHANGED <<parent, stop, dag, pending, attempt, reentry, authority, runners, deferred, pool>>

\* A slot is granted: acquireLane looks at the node, then awaits.
SlotGranted(l) ==
  /\ Yielded /\ job[l] = "slot" /\ l \in slots
  /\ \/ /\ stop \/ closed \/ dag[l] \in {"sealed", "blocked"}
        /\ Refused(l)
        /\ UNCHANGED reentry
     \/ /\ ~stop /\ ~closed /\ dag[l] \notin {"sealed", "blocked"}
        /\ reentry' = IF dag[l] = "running" THEN reentry \cup {l} ELSE reentry \ {l}
        /\ Goes(l, IF l \in LockRequired THEN "acquiring" ELSE "admitting")
        /\ UNCHANGED <<claim, outcome, pool>>
  /\ UNCHANGED <<parent, stop, dag, pending, attempt, authority, runners, deferred>>

LockGranted(l) ==
  /\ Yielded /\ job[l] = "acquiring" /\ l \notin locks
  /\ locks' = locks \cup {l}
  /\ Goes(l, "admitting")
  /\ UNCHANGED <<parent, stop, dag, pending, attempt, reentry, claim, refusals, faults,
                 runners, deferred, pool, outcome>>

\* Mutant: a claim that does not verify is dropped without a release.
LockRefused_NotReleased(l) ==
  /\ Yielded /\ l \in LockRequired /\ job[l] \in {"acquiring", "admitting"}
  /\ refusals < MaxRefusals
  /\ refusals' = refusals + 1
  /\ UNCHANGED <<locks, faults>>
  /\ Refused(l)
  /\ UNCHANGED <<parent, stop, dag, pending, attempt, reentry, runners, deferred>>

\* The lock authority refuses the lane, or its fresh claim does not verify and
\* is given back.
LockRefused(l) ==
  /\ Yielded /\ l \in LockRequired /\ job[l] \in {"acquiring", "admitting"}
  /\ refusals < MaxRefusals
  /\ refusals' = refusals + 1
  /\ Released(l) \/ NotReleased(l)
  /\ Refused(l)
  /\ UNCHANGED <<parent, stop, dag, pending, attempt, reentry, runners, deferred>>

\* verify or attachAgentRoadmapProjection rejects: acquireLane throws, and what it
\* has acquired is known to nobody any more.
AdmissionThrows(l) ==
  /\ Yielded /\ job[l] = "admitting"
  /\ faults < MaxFaults
  /\ faults' = faults + 1
  /\ Refused(l)
  /\ UNCHANGED <<parent, stop, dag, pending, attempt, reentry, locks, refusals, runners, deferred>>

\* The last await of acquireLane is over.  The node is marked running, which
\* throws if it is not ready any more, and the runner is started.
EnterLane(l) ==
  /\ Yielded /\ job[l] = "admitting"
  /\ \/ /\ l \notin reentry /\ ~CanMarkRunning(dag, l)
        /\ Refused(l)
        /\ UNCHANGED <<dag, runners>>
     \/ /\ l \in reentry \/ CanMarkRunning(dag, l)
        /\ dag' = IF l \in reentry THEN dag ELSE markRunning(dag, l)
        /\ claim' = [claim EXCEPT ![l] = IF l \in LockRequired THEN "lock" ELSE "lockless"]
        /\ IF closed
           THEN Goes(l, Releasing(status[l])) /\ FreeSlot(l) /\ UNCHANGED <<runners, outcome>>
           ELSE /\ runners' = runners \cup {l}
                /\ status' = [status EXCEPT ![l] = "running"]
                /\ Goes(l, "attempt")
                /\ UNCHANGED <<result, pool>>
  /\ UNCHANGED <<parent, stop, pending, attempt, reentry, authority, deferred>>

-----------------------------------------------------------------------------
(* An attempt *)

\* The runner settles while the lane waits for its result.
AttemptSettles(l) ==
  /\ Yielded /\ job[l] = "attempt" /\ l \in runners
  /\ runners' = runners \ {l}
  /\ \/ ~stop /\ Conclude(l, "completed", FALSE) /\ FreeSlot(l)
     \/ FailAttempt(l)
  /\ UNCHANGED <<parent, stop, dag, pending, attempt, reentry, authority, deferred>>

\* pTimeout gives up on the runner, which is aborted and gets a grace period.
AttemptTimesOut(l) ==
  /\ Yielded /\ job[l] = "attempt" /\ l \in runners
  /\ status' = IF l \in Advisory THEN [status EXCEPT ![l] = "completed"] ELSE status
  /\ Goes(l, "grace")
  /\ UNCHANGED <<parent, stop, dag, pending, attempt, reentry, claim, authority, runners,
                 deferred, pool, result>>

\* A runner settles that nobody waits for any more, or within its grace period.
RunnerSettles(l) ==
  /\ Yielded /\ l \in runners /\ job[l] # "attempt"
  /\ runners' = runners \ {l}
  /\ UNCHANGED <<parent, stop, dag, pending, job, attempt, reentry, claim, authority,
                 deferred, pool, outcome, scheduler>>

\* It stopped in time: an advisory lane is sealed with what it has, any other
\* has failed an attempt.
GraceSettled(l) ==
  /\ Yielded /\ job[l] = "grace" /\ l \notin runners
  /\ \/ /\ l \in Advisory
        /\ dag' = markSealed(deps, dag, {l})
        /\ Conclude(l, "completed", FALSE) /\ FreeSlot(l)
     \/ /\ l \notin Advisory
        /\ FailAttempt(l)
        /\ UNCHANGED dag
  /\ UNCHANGED <<parent, stop, pending, attempt, reentry, authority, runners, deferred>>

\* Mutant: the claim of a lane whose runner goes on is released like any other.
GraceExpired_NotDeferred(l) ==
  /\ Yielded /\ job[l] = "grace" /\ l \in runners
  /\ stop' = TRUE
  /\ dag' = markFailed(deps, dag, {l})
  /\ Conclude(l, "failed", FALSE)
  /\ slots' = slots \ {l} /\ waiters' = {}
  /\ UNCHANGED <<parent, pending, attempt, reentry, authority, runners, deferred>>

\* It did not: the swarm is stopped, and the claim is kept until the runner
\* settles after all.
GraceExpired(l) ==
  /\ Yielded /\ job[l] = "grace" /\ l \in runners
  /\ stop' = TRUE
  /\ deferred' = deferred \cup {l}
  /\ dag' = markFailed(deps, dag, {l})
  /\ status' = IF closed /\ l \notin Advisory THEN status ELSE [status EXCEPT ![l] = "failed"]
  /\ result' = IF closed THEN result ELSE [result EXCEPT ![l] = "failed"]
  /\ Finally(l, TRUE)
  /\ slots' = slots \ {l} /\ waiters' = {}
  /\ UNCHANGED <<parent, pending, attempt, reentry, authority, runners>>

BackoffEnds(l) ==
  /\ Yielded /\ job[l] = "backoff"
  /\ TryAttempt(l)
  /\ UNCHANGED <<parent, stop, dag, pending, reentry, authority, runners, deferred>>

-----------------------------------------------------------------------------
(* Releasing claims *)

\* releaseLaneLocks, before another attempt.
Unlock(l) ==
  /\ Yielded /\ job[l] = "unlocking"
  /\ \/ /\ Released(l)
        /\ claim' = [claim EXCEPT ![l] = "none"]
        /\ IF closed THEN EndJob(l) ELSE Goes(l, "backoff")
        /\ UNCHANGED outcome
     \/ NotReleased(l) /\ Conclude(l, "failed", FALSE)
  /\ FreeSlot(l)
  /\ UNCHANGED <<parent, stop, dag, pending, attempt, reentry, refusals, runners, deferred>>

\* Mutant: the result of a lane is not taken back when its release failed.
ReleaseLane_KeepsResult(l) ==
  /\ Yielded /\ job[l] \in {"sealing", "failing"}
  /\ \/ /\ Released(l)
        /\ dag' = IF job[l] = "sealing" THEN markSealed(deps, dag, {l})
                  ELSE markFailed(deps, dag, {l})
     \/ /\ NotReleased(l)
        /\ dag' = markFailed(deps, dag, {l})
  /\ claim' = [claim EXCEPT ![l] = "none"]
  /\ EndJob(l)
  /\ UNCHANGED <<parent, stop, pending, attempt, reentry, refusals, runners, deferred, pool, outcome>>

\* releaseLane, at the end of the call: a completed lane is sealed only if its
\* claim is confirmed released.
ReleaseLane(l) ==
  /\ Yielded /\ job[l] \in {"sealing", "failing"}
  /\ \/ /\ Released(l)
        /\ dag' = IF job[l] = "sealing" THEN markSealed(deps, dag, {l})
                  ELSE markFailed(deps, dag, {l})
        /\ UNCHANGED outcome
     \/ /\ NotReleased(l)
        /\ dag' = markFailed(deps, dag, {l})
        /\ IF closed THEN UNCHANGED outcome
           ELSE /\ status' = [status EXCEPT ![l] = "failed"]
                /\ result' = [result EXCEPT ![l] = "failed"]
  /\ claim' = [claim EXCEPT ![l] = "none"]
  /\ EndJob(l)
  /\ UNCHANGED <<parent, stop, pending, attempt, reentry, refusals, runners, deferred, pool>>

\* The cleanup of a runner that settled too late.
DeferredRelease(l) ==
  /\ Yielded /\ l \in deferred \ runners
  /\ deferred' = deferred \ {l}
  /\ dag' = markFailed(deps, dag, {l})
  /\ Released(l) \/ NotReleased(l)
  /\ UNCHANGED <<parent, stop, pending, job, attempt, reentry, claim, refusals, runners, pool,
                 outcome, scheduler>>

\* A lane carried over from an earlier swarm ends without any of this.
SkipEnds(l) ==
  /\ Yielded /\ job[l] = "skipping"
  /\ EndJob(l)
  /\ UNCHANGED <<parent, stop, dag, pending, attempt, reentry, claim, authority, runners,
                 deferred, pool, outcome>>

-----------------------------------------------------------------------------
(* The parent *)

\* requestSwarmStop: cancellation of the task or the cost budget.
RequestStop ==
  /\ CanStop /\ Yielded /\ ~closed /\ ~stop
  /\ stop' = TRUE
  /\ waiters' = {}
  /\ UNCHANGED <<parent, dag, pending, job, attempt, reentry, claim, authority, runners,
                 deferred, slots, outcome, scheduler>>

Deadline ==
  /\ CanExpire /\ ~expired
  /\ expired' = TRUE
  /\ UNCHANGED <<deps, main, stop, dag, pending, job, attempt, reentry, claim, authority, runners,
                 deferred, pool, outcome, scheduler>>

\* pTimeout of the whole swarm.
SwarmTimesOut ==
  /\ Yielded /\ main = "racing" /\ expired /\ scheduler # "done"
  /\ main' = "stopping"
  /\ stop' = TRUE
  /\ waiters' = {}
  /\ UNCHANGED <<deps, expired, dag, pending, job, attempt, reentry, claim, authority, runners,
                 deferred, slots, outcome, scheduler>>

\* The scheduler has returned, or its grace period is over.
Close ==
  /\ Yielded
  /\ main = "stopping" \/ (main = "racing" /\ scheduler = "done")
  /\ main' = "closed"
  /\ scheduler' = Woken
  /\ UNCHANGED <<deps, expired, stop, dag, pending, job, attempt, reentry, claim, authority, runners,
                 deferred, pool, outcome>>

\* The results become the entries the parent reports; a lane without one failed.
Finalize ==
  /\ Yielded /\ main = "closed"
  /\ main' = "final"
  /\ status' = [l \in Lane |-> IF result[l] = "completed" THEN "completed" ELSE "failed"]
  /\ UNCHANGED <<deps, expired, stop, dag, pending, job, attempt, reentry, claim, authority, runners,
                 deferred, pool, result, scheduler>>

-----------------------------------------------------------------------------

Init ==
  /\ deps \in Graphs
  /\ dag = InitialDag(deps)
  /\ pending = Lane
  /\ job = [l \in Lane |-> "none"]
  /\ attempt = [l \in Lane |-> 0]
  /\ reentry = {}
  /\ claim = [l \in Lane |-> "none"]
  /\ locks = {} /\ runners = {} /\ deferred = {}
  /\ slots = {} /\ waiters = {}
  /\ status = [l \in Lane |-> "pending"]
  /\ result = [l \in Lane |-> "none"]
  /\ scheduler = "turn" /\ main = "racing"
  /\ stop = FALSE /\ expired = FALSE
  /\ refusals = 0 /\ faults = 0

Acquire(l) ==
  Setup(l) \/ SlotCancelled(l) \/ SlotGranted(l) \/ LockGranted(l) \/ LockRefused(l)
  \/ AdmissionThrows(l) \/ EnterLane(l)

Attempt(l) ==
  AttemptTimesOut(l) \/ GraceSettled(l) \/ GraceExpired(l) \/ BackoffEnds(l)

Release(l) ==
  Unlock(l) \/ ReleaseLane(l) \/ DeferredRelease(l) \/ SkipEnds(l)

\* The steps of a lane that do not wait for its runner.
LaneStep(l) == Acquire(l) \/ Attempt(l) \/ Release(l)

Next ==
  \/ SchedulerTurn
  \/ \E l \in Lane : LaneStep(l) \/ AttemptSettles(l) \/ RunnerSettles(l)
  \/ RequestStop \/ Deadline \/ SwarmTimesOut \/ Close \/ Finalize

Spec == Init /\ [][Next]_vars

\* The event loop runs what is ready and its timers fire; runners may never
\* settle, and nobody has to stop the swarm.
FairSpec ==
  /\ Spec
  /\ WF_vars(SchedulerTurn) /\ WF_vars(Close) /\ WF_vars(Finalize)
  /\ \A l \in Lane : WF_vars(LaneStep(l))

-----------------------------------------------------------------------------
(* Properties *)

Jobs == Ended \cup {"skipping", "setup", "slot", "acquiring", "admitting", "attempt", "grace",
                    "unlocking", "backoff", "sealing", "failing"}

\* Every variable stays in its type, and no lane gets more attempts than allowed.
TypeOK ==
  /\ deps \in [Lane -> SUBSET Lane]
  /\ dag \in [Lane -> NodeStates]
  /\ pending \subseteq Lane
  /\ job \in [Lane -> Jobs]
  /\ attempt \in [Lane -> 0 .. MaxAttempts]
  /\ reentry \subseteq Lane
  /\ claim \in [Lane -> {"none", "lockless", "lock"}]
  /\ locks \subseteq Lane /\ runners \subseteq Lane /\ deferred \subseteq Lane
  /\ slots \subseteq Lane /\ waiters \subseteq Lane
  /\ status \in [Lane -> {"pending", "running", "completed", "failed"}]
  /\ result \in [Lane -> {"none", "completed", "failed"}]
  /\ scheduler \in {"turn", "wait", "woken", "done"}
  /\ main \in {"racing", "stopping", "closed", "final"}
  /\ stop \in BOOLEAN /\ expired \in BOOLEAN
  /\ refusals \in Nat /\ faults \in Nat

\* A lock is never given up while a runner may still be touching the
\* workspace under it, not even by timeouts, retries, stops and closing.
RunnerHoldsLock == runners \cap LockRequired \subseteq locks

\* Work is done in the order of the graph: when a lane begins, what it depends on
\* is sealed, and a sealed lane stays sealed, but for an advisory one, which was
\* sealed before its claim was released.
Work == INSTANCE OrderedWork WITH
  Item <- Lane, Provisional <- Advisory, needs <- deps,
  state <- [l \in Lane |-> IF dag[l] = "sealed" THEN "finished"
                           ELSE IF l \in runners THEN "working"
                           ELSE IF dag[l] = "running" THEN "begun" ELSE "waiting"]

RefinesOrderedWork == Work!Spec

\* Once the scheduler has come to its end by itself, each lane has a result,
\* and it is "completed" exactly if the lane is sealed.
ResultsMatchDag ==
  scheduler = "done" /\ main = "racing" =>
    \A l \in Lane : /\ result[l] # "none"
                    /\ result[l] = "completed" <=> dag[l] = "sealed"

\* A lane waits again whose dependency was sealed and then failed to be released.
Overtaken(l) == dag[l] = "blocked" /\ \E d \in deps[l] \cap Advisory : dag[d] = "failed"

\* Locks are given back.  A lane sealed under its lock is an advisory one, so
\* nothing else is built beside an orphaned lock; a lock is held under a node that
\* waits only if the lane was overtaken while it was admitted; and when all calls
\* and cleanups are over, the other locks left are those whose release failed or
\* whose admission threw.
LocksAreGivenBack ==
  /\ \A l \in locks : /\ dag[l] = "sealed" => l \in Advisory
                      /\ dag[l] = "blocked" => Overtaken(l)
  /\ scheduler = "done" /\ running = {} /\ deferred = {} =>
       Cardinality({l \in locks : ~Overtaken(l)}) <= faults

\* A slot is held by a lane on its way through an attempt, and no slot is idle
\* while a lane waits for one.
SlotsAreUsed ==
  /\ \A l \in slots : job[l] \in {"slot", "acquiring", "admitting", "attempt", "grace", "unlocking"}
  /\ Cardinality(slots) <= Capacity
  /\ waiters # {} => Cardinality(slots) = Capacity

\* After the swarm is closed, no result changes any more.
ResultsAreFrozen == [][closed => result' = result]_vars

\* A pending lane depends on one whose call is over and whose node is neither
\* sealed nor failed: a claim was refused, the admission threw, or the deadline
\* passed while a lane without its lock waited to try again.
Stranded ==
  \E l \in pending : \E d \in deps[l] : job[d] = "done" /\ dag[d] \notin {"sealed", "failed"}

\* The swarm comes to an end, unless a lane is stranded for good: the scheduler's
\* loop has no rule for it, and goes round for ever once nothing else runs.
SwarmEnds == <>(main = "final") \/ <>[]Stranded

=============================================================================

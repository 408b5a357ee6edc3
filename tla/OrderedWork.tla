----------------------------- MODULE OrderedWork -----------------------------
(***************************************************************************)
(* What a swarm's scheduler promises about its lanes: work on an item      *)
(* begins only when everything it needs is finished, may be interrupted    *)
(* and taken up again, and what is finished stays finished.  A provisional *)
(* item may be found unfinished after all; what has begun goes on.         *)
(***************************************************************************)
CONSTANTS Item, Provisional

VARIABLES
  needs,   \* [Item -> items that come first]
  state    \* [Item -> "waiting", "begun", "working" or "finished"]

vars == <<needs, state>>

Available(i) == \A n \in needs[i] : state[n] = "finished"

Init ==
  /\ needs \in [Item -> SUBSET Item]
  /\ state = [i \in Item |-> "waiting"]

Begin(i) ==
  /\ state[i] = "waiting" /\ Available(i)
  /\ state' \in {[state EXCEPT ![i] = s] : s \in {"begun", "working"}}
  /\ UNCHANGED needs

Resume(i) ==
  /\ state[i] = "begun"
  /\ state' = [state EXCEPT ![i] = "working"]
  /\ UNCHANGED needs

Interrupt(i) ==
  /\ state[i] = "working"
  /\ state' = [state EXCEPT ![i] = "begun"]
  /\ UNCHANGED needs

Abandon(i) ==
  /\ state[i] \in {"begun", "working"}
  /\ state' = [state EXCEPT ![i] = "waiting"]
  /\ UNCHANGED needs

\* Items may be found finished together, and without any work.
Finish(S) ==
  /\ \A i \in S : state[i] = "begun" \/ (state[i] = "waiting" /\ Available(i))
  /\ state' = [i \in Item |-> IF i \in S THEN "finished" ELSE state[i]]
  /\ UNCHANGED needs

Withdraw(i) ==
  /\ i \in Provisional /\ state[i] = "finished"
  /\ state' = [state EXCEPT ![i] = "waiting"]
  /\ UNCHANGED needs

Next ==
  \/ \E i \in Item : Begin(i) \/ Resume(i) \/ Interrupt(i) \/ Abandon(i) \/ Withdraw(i)
  \/ \E S \in SUBSET Item : Finish(S)

Spec == Init /\ [][Next]_vars

=============================================================================

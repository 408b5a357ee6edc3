---------------------------- MODULE MCTaskCompletion ----------------------------
(* Instances of TaskCompletion for TLC. *)
EXTENDS TaskCompletion, TLC

AttemptSymmetry == Permutations(Attempt)

\* Bound: a tool that can be counted and can write works where nothing fails in a
\* first generation, and where one attempt is written down at most if the task is
\* opened again.
Sparing ==
    /\ tool = "working" => tree < MaxTree /\ version[session] < MaxTree
    /\ tool # "none" \/ tree > 0 \/ version # [s \in Session |-> 0] =>
         /\ life.gen = 1 /\ faults = 0
         /\ session = 1 \/ Cardinality({a \in Attempt : row[a] # None}) < 2
================================================================================

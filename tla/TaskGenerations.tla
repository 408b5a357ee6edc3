---------------------------- MODULE TaskGenerations ----------------------------
(***************************************************************************)
(* What the task lifecycle promises, without funnels, tails, caches or     *)
(* tables: a tree of tasks, each living through numbered generations.  A   *)
(* generation that is asked to stop ends cancelled, unless a completion    *)
(* fact overtook the request or its parent ended first.  A generation that *)
(* ends completed, or is followed by another one, leaves no live child     *)
(* behind, and a child that outlives its parent can only end as it did.    *)
(***************************************************************************)
EXTENDS Naturals

CONSTANTS
    Task,       \* the tasks
    Parent,     \* the task each task is attached to, or None
    None

VARIABLE life   \* per task: generation, condition, generation of its parent

Outcome == {"completed", "cancelled", "failed", "timed_out"}
Live == {"open", "asked"}

Absent == [gen |-> 0, now |-> "absent", pgen |-> 0]

LifeOK == life \in [Task -> [gen : Nat, now : {"absent"} \cup Live \cup Outcome,
                             pgen : Nat]]

Init == life = [t \in Task |-> Absent]

Attached(t) == Parent[t] # None

\* The children that still live under generation g of t.
LiveUnder(t, g) ==
    {c \in Task : Parent[c] = t /\ life[c].pgen = g /\ life[c].now \in Live}

\* The condition of the generation t is attached to.
Above(t) == IF life[Parent[t]].gen = life[t].pgen THEN life[Parent[t]].now
            ELSE "gone"

Start(t) ==
    /\ life[t].now = "absent"
    /\ Attached(t) => life[Parent[t]].now = "open"
    /\ life' = [life EXCEPT ![t] =
                  [gen |-> 1, now |-> "open",
                   pgen |-> IF Attached(t) THEN life[Parent[t]].gen ELSE 0]]

Ask(t) ==
    /\ life[t].now = "open"
    /\ Attached(t) => Above(t) \in Live
    /\ life' = [life EXCEPT ![t].now = "asked"]

End(t, o) ==
    /\ life[t].now \in Live
    /\ o = "completed" => LiveUnder(t, life[t].gen) = {}
    /\ o = "cancelled" => life[t].now = "asked"
    /\ o \in {"failed", "timed_out"} /\ life[t].now = "asked" =>
          Attached(t) /\ Above(t) = o
    /\ Attached(t) =>
          \/ Above(t) = "open"
          \/ Above(t) = "asked" /\ o = "cancelled"
          \/ Above(t) = o /\ o # "completed"
    /\ life' = [life EXCEPT ![t].now = o]

Renew(t) ==
    /\ life[t].now # "absent"
    /\ LiveUnder(t, life[t].gen) = {}
    /\ Attached(t) => Above(t) = "open"
    /\ life' = [life EXCEPT ![t] =
                  [gen |-> @.gen + 1, now |-> "open", pgen |-> @.pgen]]

Next == \E t \in Task : Start(t) \/ Ask(t) \/ Renew(t) \/ \E o \in Outcome : End(t, o)

Spec == Init /\ [][Next]_life
================================================================================

---------------------------- MODULE FencedLease ----------------------------
(***************************************************************************)
(* What a fenced lease promises its clients, without tables or clocks:     *)
(* at most one owner of a resource at a time, ownership that passes only   *)
(* through a moment with no owner, and a fence that is strictly larger     *)
(* each time the resource is granted and never falls.  ForgetfulSpec is    *)
(* the weaker promise of a keeper that may lose fences.                    *)
(***************************************************************************)
EXTENDS Naturals

CONSTANTS
  Resource,
  Owner,
  Nobody        \* the owner of a resource no one owns

VARIABLES
  owner,        \* [Resource -> Owner or Nobody]
  fence         \* [Resource -> highest fence granted]

vars == <<owner, fence>>

Init ==
  /\ owner = [r \in Resource |-> Nobody]
  /\ fence = [r \in Resource |-> 0]

\* A free resource is granted to o under a fence larger than any before.
Grant(r, o) ==
  /\ owner[r] = Nobody
  /\ owner' = [owner EXCEPT ![r] = o]
  /\ fence' \in [Resource -> Nat]
  /\ fence'[r] > fence[r]
  /\ \A s \in Resource \ {r} : fence'[s] = fence[s]

\* Owners of any set of resources stop owning them, by release or expiry.
Lose(R) ==
  /\ owner' = [r \in Resource |-> IF r \in R THEN Nobody ELSE owner[r]]
  /\ UNCHANGED fence

Next ==
  \/ \E r \in Resource, o \in Owner : Grant(r, o)
  \/ \E R \in SUBSET Resource : Lose(R)

Spec == Init /\ [][Next]_vars

\* A keeper that may lose the record of a fence: only of resources no one owns,
\* whose fence then starts again.
Forget(R) ==
  /\ \A r \in R : owner[r] = Nobody
  /\ fence' = [r \in Resource |-> IF r \in R THEN 0 ELSE fence[r]]
  /\ UNCHANGED owner

ForgetfulSpec ==
  Init /\ [][Next \/ \E R \in SUBSET Resource : Forget(R)]_vars

=============================================================================

---------------------------- MODULE MCSwarmLease ----------------------------
(* Model values and symmetry for the checks of SwarmLease. *)
EXTENDS SwarmLease, TLC

CONSTANTS r1, a, b, m1, m2, c1

OneResource == {r1}
Owners == {a, b}
Timeouts == {1, 2}
OneTimeout == {1}
NoProcess == {}
OneEngine == {m1}
TwoEngines == {m1, m2}
OneCleaner == {c1}

ProcessSymmetry == Permutations(Owners) \cup Permutations(TwoEngines)
=============================================================================

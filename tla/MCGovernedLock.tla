--------------------------- MODULE MCGovernedLock ---------------------------
(* Small instances of GovernedLock. *)
EXTENDS GovernedLock, TLC

CONSTANTS a, b, c, p1, p2

TwoActors == {a, b}
ThreeActors == {a, b, c}
OnlyB == {b}
Nobody == {}
TwoProcesses == {p1, p2}
Apart == (a :> p1 @@ b :> p2)
TogetherAndApart == (a :> p1 @@ b :> p1 @@ c :> p2)
=============================================================================

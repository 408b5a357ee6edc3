---------------------------- MODULE MCTaskLifecycle ----------------------------
(* Small instances of TaskLifecycle: a parent and its child. *)
EXTENDS TaskLifecycle, TLC

CONSTANTS root, leaf, f1, f2, k1, k2

Couple == {root, leaf}
CoupleParent == (root :> None @@ leaf :> root)
OneFunnel == {f1}
TwoFunnels == {f1, f2}
OneCaller == {k1}
TwoCallers == {k1, k2}
AtHome == (k1 :> f1)
ByF1 == {<<f1, root>>}
Visitor == (k1 :> Couple @@ k2 :> {root})
Alone == (k1 :> Couple)
Core == OwnIntent \ {"SuspendGeneration", "ResumeGeneration", "SettleTimeout"}
\* Without the suspensions of the completion funnel.
Ending == Core \ {"AwaitDecision", "ReactivateAfterCompletionRejection"}
Apart == (k1 :> f1 @@ k2 :> f2)
================================================================================

----------------------------- MODULE MCBufferedPool -----------------------------
(* Instances of BufferedPool for TLC. *)
EXTENDS BufferedPool, TLC

CONSTANTS D, T

\* One direct push and a transaction of two pushes.  Writes are
\* numbers; every second one goes to a table that sorts first.
TheWork == (D :> << <<1>> >>) @@ (T :> << <<2>>, <<3>> >>)
TheRank(op) == IF op % 2 = 0 THEN 1 ELSE 2
================================================================================

-------------------------------- MODULE WriteLog --------------------------------
(***************************************************************************)
(* What a write buffer promises, without mutexes, timers, shadows or       *)
(* retries: writes are accepted in some order, and the database takes them *)
(* in batches, each one the oldest writes pending.  A write is applied at  *)
(* most once, and none is forgotten before the buffer is closed.           *)
(***************************************************************************)
EXTENDS Naturals, Sequences

CONSTANTS
    Rank(_)       \* the rank of a write in a batch

VARIABLES
    pending,      \* accepted and not yet in the database, oldest first
    log,          \* the batches the database has taken
    closing       \* has the buffer been told to close?

\* The orders a batch may be applied in: by rank, and as accepted within a rank.
\* There is one.
Orders(s) ==
    {order \in [DOMAIN s -> DOMAIN s] : \A i, j \in DOMAIN s : i < j =>
        \/ Rank(s[order[i]]) < Rank(s[order[j]])
        \/ Rank(s[order[i]]) = Rank(s[order[j]]) /\ order[i] < order[j]}
Sorted(s) == {[i \in DOMAIN s |-> s[order[i]]] : order \in Orders(s)}

Elements(s) == {s[i] : i \in DOMAIN s}
Applied == UNION {Elements(log[b]) : b \in DOMAIN log}

Init == pending = <<>> /\ log = <<>> /\ closing = FALSE

\* New writes join at the end.
Accept ==
    LET new == SubSeq(pending', Len(pending) + 1, Len(pending')) IN
    /\ Len(pending') > Len(pending)
    /\ SubSeq(pending', 1, Len(pending)) = pending
    /\ \A i, k \in DOMAIN new : new[i] = new[k] => i = k
    /\ Elements(new) \cap (Elements(pending) \cup Applied) = {}
    /\ UNCHANGED <<log, closing>>

Apply ==
    \E n \in 1 .. Len(pending) :
        /\ \E batch \in Sorted(SubSeq(pending, 1, n)) : log' = Append(log, batch)
        /\ pending' = SubSeq(pending, n + 1, Len(pending))
        /\ UNCHANGED closing

Close == closing' = TRUE /\ UNCHANGED <<pending, log>>

\* A closing buffer may lose its oldest and its newest writes.
Forget ==
    /\ closing
    /\ \E n, m \in 0 .. Len(pending) : pending' = SubSeq(pending, n + 1, m)
    /\ UNCHANGED <<log, closing>>

Next == Accept \/ Apply \/ Close \/ Forget

Spec == Init /\ [][Next]_<<pending, log, closing>>
================================================================================

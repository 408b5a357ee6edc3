------------------------------ MODULE BufferedPool ------------------------------
(***************************************************************************)
(* The buffered write pool of one process.  Clients push writes, directly  *)
(* or into the shadow of a transaction; committing a shadow                *)
(* moves its writes to the active buffer.  Flushes, started by an interval *)
(* and by a timeout, take turns: the active buffer becomes the batch in    *)
(* flight, which one database transaction applies, or which goes back in   *)
(* front of the active buffer.  Two mutexes hand themselves over in order. *)
(* A shadow that was not touched for five minutes is dropped.              *)
(***************************************************************************)
EXTENDS Naturals, Sequences, FiniteSets

CONSTANTS
    Client,        \* callers; the agent id of a shadow is its client
    Direct,        \* clients that push without an agent id; the others each
                   \* run one transaction
    Work,          \* [Client -> sequences of batches of writes]
    Rank(_),       \* place of a write in a flush, by layer and table
    Flusher,       \* flushes that may be under way at once
    Closer,        \* the flush of stop()
    Reaper,        \* cleanupShadows
    None,
    MaxFaults,     \* bound on flushes that fail
    MaxStops       \* bound on calls of stop()

\* The writes client c pushes; every one is pushed once.
OpsOf(c) == UNION {{Work[c][i][k] : k \in DOMAIN Work[c][i]} : i \in DOMAIN Work[c]}
Op == UNION {OpsOf(c) : c \in Client}
Flush == Flusher \cup {Closer}
Process == Client \cup Flush \cup {Reaper}

ASSUME PoolAssumption ==
    /\ Direct \subseteq Client
    /\ Work \in [Client -> Seq(Seq(Op) \ {<<>>})]
    /\ Closer \notin Flusher /\ Reaper \notin Flush
    /\ (Flush \cup {Reaper}) \cap Client = {}
    /\ None \notin Seq(Op)
    /\ \A op \in Op : Rank(op) \in Nat
    /\ MaxFaults \in Nat /\ MaxStops \in Nat

\* No write occurs twice, neither in a batch nor in two.
ASSUME WorkAssumption ==
    /\ \A c, d \in Client : c # d => OpsOf(c) \cap OpsOf(d) = {}
    /\ \A c \in Client : \A i, j \in DOMAIN Work[c] :
         \A k \in DOMAIN Work[c][i], m \in DOMAIN Work[c][j] :
             Work[c][i][k] = Work[c][j][m] => i = j /\ k = m

VARIABLES
    active,      \* activeOps
    inflight,    \* inFlightOps
    copy,        \* operations: the batch the flush under way applies
    shadow,      \* agentShadows: per client its writes, or None
    old,         \* clients whose shadow is older than the cutoff
    call,        \* per client: the call it waits for
    phase,       \* per client: where its transaction stands
    pushed,      \* per client: batches it has pushed
    stateLine,   \* stateMutex: the holder, then those in its queue
    flushLine,   \* flushMutex
    at,          \* per flush: where it stands
    looping,     \* are the intervals set?
    timer,       \* is the flush timeout set?
    started, stopped,
    log,         \* the batches the database has committed
    faults, stops

buffers == <<active, inflight, copy, log>>
clients == <<call, phase, pushed>>
shadows == <<shadow, old>>
loop == <<looping, timer, started, stopped>>
vars == <<buffers, clients, shadows, stateLine, flushLine, at, loop, faults, stops>>

Call == {"none", "begin", "push", "commit", "rollback"}
Phase == {"new", "open", "committed", "rolled_back"}
Place == {"idle", "lock", "swap", "open", "apply", "clear", "requeue", "ended"}

TypeOK ==
    /\ active \in Seq(Op) /\ inflight \in Seq(Op) /\ copy \in Seq(Op)
    /\ shadow \in [Client -> Seq(Op) \cup {None}] /\ old \in SUBSET Client
    /\ call \in [Client -> Call] /\ phase \in [Client -> Phase]
    /\ pushed \in [Client -> Nat]
    /\ stateLine \in Seq(Process) /\ flushLine \in Seq(Flush)
    /\ at \in [Flush -> Place]
    /\ looping \in BOOLEAN /\ timer \in BOOLEAN
    /\ started \in BOOLEAN /\ stopped \in BOOLEAN
    /\ log \in Seq(Seq(Op))
    /\ faults \in Nat /\ stops \in Nat

Init ==
    /\ active = <<>> /\ inflight = <<>> /\ copy = <<>> /\ log = <<>>
    /\ shadow = [c \in Client |-> None] /\ old = {}
    /\ call = [c \in Client |-> "none"]
    /\ phase = [c \in Client |-> IF c \in Direct THEN "open" ELSE "new"]
    /\ pushed = [c \in Client |-> 0]
    /\ stateLine = <<>> /\ flushLine = <<>>
    /\ at = [f \in Flush |-> "idle"]
    /\ looping = FALSE /\ timer = FALSE /\ started = FALSE /\ stopped = FALSE
    /\ faults = 0 /\ stops = 0

--------------------------------------------------------------------------------
(* Mutexes and timers *)

Holds(p, line) == line # <<>> /\ Head(line) = p

\* ensureStarted, before a call asks for the mutex.
EnsureStarted ==
    IF started THEN UNCHANGED loop
    ELSE started' = TRUE /\ stopped' = FALSE /\ looping' = TRUE /\ UNCHANGED timer

\* scheduleFlush, after a call has released it.
ScheduleFlush ==
    timer' = (timer \/ ~stopped) /\ UNCHANGED <<looping, started, stopped>>

--------------------------------------------------------------------------------
(* Clients: beginWork, pushBatch, commitWork, rollbackWork, runTransaction *)

\* The calls a client may make next.
Calls(c) ==
    CASE phase[c] = "new" -> {"begin"}
      [] phase[c] = "open" ->
           (IF pushed[c] < Len(Work[c]) THEN {"push"} ELSE {})
             \cup (IF c \in Direct THEN {} ELSE {"commit", "rollback"})
      [] OTHER -> {}

Ask(c) ==
    /\ call[c] = "none"
    /\ \E kind \in Calls(c) : call' = [call EXCEPT ![c] = kind]
    /\ EnsureStarted
    /\ stateLine' = Append(stateLine, c)
    /\ UNCHANGED <<buffers, shadows, phase, pushed, flushLine, at, faults, stops>>

\* Client c has the mutex for a call of this kind, and gives it back.
Serves(c, kind) ==
    /\ call[c] = kind /\ Holds(c, stateLine)
    /\ call' = [call EXCEPT ![c] = "none"]
    /\ stateLine' = Tail(stateLine)

Begin(c) ==
    /\ Serves(c, "begin")
    /\ phase' = [phase EXCEPT ![c] = "open"]
    /\ shadow' = [shadow EXCEPT ![c] = IF @ = None THEN <<>> ELSE @]
    /\ old' = IF shadow[c] = None THEN old \ {c} ELSE old
    /\ UNCHANGED <<buffers, pushed, flushLine, at, loop, faults, stops>>

\* Mutant: a write whose shadow is gone goes straight to the active buffer.
Push_PastShadow(c) ==
    LET batch == Work[c][pushed[c] + 1] IN
    /\ Serves(c, "push")
    /\ pushed' = [pushed EXCEPT ![c] = @ + 1]
    /\ IF c \in Direct \/ shadow[c] = None
       THEN active' = active \o batch /\ UNCHANGED shadows
       ELSE /\ shadow' = [shadow EXCEPT ![c] = @ \o batch]
            /\ old' = old \ {c} /\ UNCHANGED active
    /\ ScheduleFlush
    /\ UNCHANGED <<inflight, copy, log, phase, flushLine, at, faults, stops>>

Push(c) ==
    LET batch == Work[c][pushed[c] + 1] IN
    /\ Serves(c, "push")
    /\ pushed' = [pushed EXCEPT ![c] = @ + 1]
    /\ IF c \in Direct
       THEN active' = active \o batch /\ UNCHANGED shadows
       ELSE /\ shadow' = [shadow EXCEPT ![c] = (IF @ = None THEN <<>> ELSE @) \o batch]
            /\ old' = old \ {c} /\ UNCHANGED active
    /\ ScheduleFlush
    /\ UNCHANGED <<inflight, copy, log, phase, flushLine, at, faults, stops>>

Commit(c) ==
    /\ Serves(c, "commit")
    /\ active' = IF shadow[c] = None THEN active ELSE active \o shadow[c]
    /\ shadow' = [shadow EXCEPT ![c] = None] /\ old' = old \ {c}
    /\ phase' = [phase EXCEPT ![c] = "committed"]
    /\ ScheduleFlush
    /\ UNCHANGED <<inflight, copy, log, pushed, flushLine, at, faults, stops>>

Rollback(c) ==
    /\ Serves(c, "rollback")
    /\ shadow' = [shadow EXCEPT ![c] = None] /\ old' = old \ {c}
    /\ phase' = [phase EXCEPT ![c] = "rolled_back"]
    /\ UNCHANGED <<buffers, pushed, flushLine, at, loop, faults, stops>>

--------------------------------------------------------------------------------
(* flush *)

\* Mutant: a flush that is over stays where no flush can take it up again.
Over_Unnamed(f) == IF f = Closer THEN "ended" ELSE "closed"

\* Where a flush goes when it is over: stop() has something left to do.
Over(f) == IF f = Closer THEN "ended" ELSE "idle"

\* The synchronous part of flush(): nothing to do when stopped and empty.
Enter(f) ==
    IF stopped /\ active = <<>> /\ inflight = <<>>
    THEN at' = [at EXCEPT ![f] = Over(f)] /\ UNCHANGED flushLine
    ELSE at' = [at EXCEPT ![f] = "lock"] /\ flushLine' = Append(flushLine, f)

IntervalFires(f) ==
    /\ looping /\ at[f] = "idle" /\ Enter(f)
    /\ UNCHANGED <<buffers, clients, shadows, stateLine, loop, faults, stops>>

TimeoutFires(f) ==
    /\ timer /\ at[f] = "idle" /\ Enter(f)
    /\ timer' = FALSE
    /\ UNCHANGED <<buffers, clients, shadows, stateLine, looping, started, stopped,
                   faults, stops>>

Lock(f) ==
    /\ at[f] = "lock" /\ Holds(f, flushLine)
    /\ at' = [at EXCEPT ![f] = "swap"]
    /\ stateLine' = Append(stateLine, f)
    /\ UNCHANGED <<buffers, clients, shadows, flushLine, loop, faults, stops>>

\* Mutant: a flush takes one write at a time.
Swap_Capped(f) ==
    LET swaps == inflight = <<>> /\ active # <<>> IN
    /\ at[f] = "swap" /\ Holds(f, stateLine)
    /\ stateLine' = Tail(stateLine)
    /\ inflight' = IF swaps THEN <<Head(active)>> ELSE inflight
    /\ active' = IF swaps THEN Tail(active) ELSE active
    /\ at' = [at EXCEPT ![f] = IF inflight' = <<>> THEN Over(f) ELSE "open"]
    /\ flushLine' = IF inflight' = <<>> THEN Tail(flushLine) ELSE flushLine
    /\ UNCHANGED <<copy, log, clients, shadows, loop, faults, stops>>

Swap(f) ==
    LET swaps == inflight = <<>> /\ active # <<>> IN
    /\ at[f] = "swap" /\ Holds(f, stateLine)
    /\ stateLine' = Tail(stateLine)
    /\ inflight' = IF swaps THEN active ELSE inflight
    /\ active' = IF swaps THEN <<>> ELSE active
    /\ at' = [at EXCEPT ![f] = IF inflight' = <<>> THEN Over(f) ELSE "open"]
    /\ flushLine' = IF inflight' = <<>> THEN Tail(flushLine) ELSE flushLine
    /\ UNCHANGED <<copy, log, clients, shadows, loop, faults, stops>>

\* The database is open; the batch is copied.
Open(f) ==
    /\ at[f] = "open"
    /\ at' = [at EXCEPT ![f] = "apply"]
    /\ copy' = inflight
    /\ UNCHANGED <<active, inflight, log, clients, shadows, stateLine, flushLine, loop,
                   faults, stops>>

\* What a flush has taken and the database has not committed.
Taken == IF \E f \in Flush : at[f] = "clear" THEN <<>>
         ELSE IF \E f \in Flush : at[f] = "apply" THEN copy ELSE inflight

WriteLog == INSTANCE WriteLog WITH pending <- Taken \o active, closing <- stops > 0

\* The transaction commits.
Apply(f) ==
    /\ at[f] = "apply"
    /\ at' = [at EXCEPT ![f] = "clear"]
    /\ IF copy = <<>> THEN UNCHANGED log
       ELSE \E batch \in WriteLog!Sorted(copy) : log' = Append(log, batch)
    /\ copy' = <<>>
    /\ UNCHANGED <<active, inflight, clients, shadows, stateLine, flushLine, loop,
                   faults, stops>>

Clear(f) ==
    /\ at[f] = "clear"
    /\ at' = [at EXCEPT ![f] = Over(f)]
    /\ inflight' = <<>>
    /\ flushLine' = Tail(flushLine)
    /\ UNCHANGED <<active, copy, log, clients, shadows, stateLine, loop, faults, stops>>

\* Opening the database or the transaction throws, and nothing was applied.
Fail(f) ==
    /\ at[f] \in {"open", "apply"}
    /\ faults < MaxFaults /\ faults' = faults + 1
    /\ at' = [at EXCEPT ![f] = "requeue"]
    /\ copy' = <<>>
    /\ stateLine' = Append(stateLine, f)
    /\ UNCHANGED <<active, inflight, log, clients, shadows, flushLine, loop, stops>>

\* Mutant: the batch goes back behind what was accepted meanwhile.
Requeue_Behind(f) ==
    /\ at[f] = "requeue" /\ Holds(f, stateLine)
    /\ at' = [at EXCEPT ![f] = Over(f)]
    /\ active' = active \o inflight /\ inflight' = <<>>
    /\ stateLine' = Tail(stateLine) /\ flushLine' = Tail(flushLine)
    /\ UNCHANGED <<copy, log, clients, shadows, loop, faults, stops>>

\* Mutant: the batch of a failed flush is dropped.
Requeue_Dropped(f) ==
    /\ at[f] = "requeue" /\ Holds(f, stateLine)
    /\ at' = [at EXCEPT ![f] = Over(f)]
    /\ inflight' = <<>>
    /\ stateLine' = Tail(stateLine) /\ flushLine' = Tail(flushLine)
    /\ UNCHANGED <<active, copy, log, clients, shadows, loop, faults, stops>>

\* The batch goes back in front of what was accepted meanwhile.
Requeue(f) ==
    /\ at[f] = "requeue" /\ Holds(f, stateLine)
    /\ at' = [at EXCEPT ![f] = Over(f)]
    /\ active' = inflight \o active /\ inflight' = <<>>
    /\ stateLine' = Tail(stateLine) /\ flushLine' = Tail(flushLine)
    /\ UNCHANGED <<copy, log, clients, shadows, loop, faults, stops>>

--------------------------------------------------------------------------------
(* cleanupShadows and stop *)

\* Five minutes pass without a push.
Age ==
    /\ old' = {c \in Client : shadow[c] # None} /\ old' # old
    /\ UNCHANGED <<buffers, clients, shadow, stateLine, flushLine, at, loop, faults, stops>>

InLine(p) == \E i \in DOMAIN stateLine : stateLine[i] = p

CleanupFires ==
    /\ looping /\ ~InLine(Reaper)
    /\ stateLine' = Append(stateLine, Reaper)
    /\ UNCHANGED <<buffers, clients, shadows, flushLine, at, loop, faults, stops>>

Cleanup ==
    /\ Holds(Reaper, stateLine)
    /\ stateLine' = Tail(stateLine)
    /\ shadow' = [c \in Client |-> IF c \in old THEN None ELSE shadow[c]]
    /\ old' = {}
    /\ UNCHANGED <<buffers, clients, flushLine, at, loop, faults, stops>>

\* stop() clears the timers and flushes once more.
Stop ==
    /\ stops < MaxStops /\ stops' = stops + 1
    /\ started \/ ~stopped
    /\ at[Closer] = "idle" /\ Enter(Closer)
    /\ looping' = FALSE /\ timer' = FALSE
    /\ UNCHANGED <<buffers, clients, shadows, stateLine, started, stopped, faults>>

\* Whatever became of that flush, the buffers are dropped.
StopEnds ==
    /\ at[Closer] = "ended"
    /\ at' = [at EXCEPT ![Closer] = "idle"]
    /\ active' = <<>> /\ inflight' = <<>>
    /\ shadow' = [c \in Client |-> None] /\ old' = {}
    /\ started' = FALSE /\ stopped' = TRUE
    /\ UNCHANGED <<copy, log, clients, stateLine, flushLine, looping, timer, faults, stops>>

--------------------------------------------------------------------------------

Serve(c) == Begin(c) \/ Push(c) \/ Commit(c) \/ Rollback(c)
Proceed(f) == Lock(f) \/ Swap(f) \/ Open(f) \/ Apply(f) \/ Clear(f) \/ Fail(f) \/ Requeue(f)

Next ==
    \/ \E c \in Client : Ask(c) \/ Serve(c)
    \/ \E f \in Flusher : IntervalFires(f) \/ TimeoutFires(f)
    \/ \E f \in Flush : Proceed(f)
    \/ Age \/ CleanupFires \/ Cleanup
    \/ Stop \/ StopEnds

Spec == Init /\ [][Next]_vars

\* Promises are resumed and the interval fires; nothing makes a client call.  The
\* mutexes let one client and one flush at a time go on.
FairSpec ==
    /\ Spec
    /\ WF_vars(\E c \in Client : Serve(c))
    /\ WF_vars(\E f \in Flusher : IntervalFires(f))
    /\ WF_vars(\E f \in Flush : Proceed(f))
    /\ WF_vars(Cleanup) /\ WF_vars(StopEnds)

--------------------------------------------------------------------------------
(* Properties *)

Batches(c) == {b \in DOMAIN log : \E i \in DOMAIN log[b] : log[b][i] \in OpsOf(c)}

\* The writes of a transaction that reach the database do so in one database
\* transaction, however failed flushes, retries and a reaped shadow, whose writes
\* are lost, come between.
OneFlush ==
    \A c \in Client \ Direct : Cardinality(Batches(c)) <= 1

\* A write of a transaction is in the shared buffers or the database only when
\* the transaction has committed: nothing of a rolled back one ever gets there,
\* not even what was pushed after its shadow was reaped.
OnlyCommittedWork ==
    \A c \in Client \ Direct :
        phase[c] # "committed" =>
            /\ Batches(c) = {}
            /\ \A i \in DOMAIN active : active[i] \notin OpsOf(c)
            /\ \A i \in DOMAIN inflight : inflight[i] \notin OpsOf(c)

\* Writes are applied once, in the order they were accepted as far as layers
\* and tables allow, and none is lost before stop(): WriteLog.
RefinesWriteLog == WriteLog!Spec

\* What was accepted is applied, through failed flushes, unless stop() is called.
AcceptedIsApplied ==
    \A op \in Op :
        (\E i \in DOMAIN active : active[i] = op)
            ~> (op \in WriteLog!Applied \/ stops > 0)
================================================================================

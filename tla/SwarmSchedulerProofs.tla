------------------------- MODULE SwarmSchedulerProofs -------------------------
(***************************************************************************)
(* Proofs about SwarmScheduler for every set of lanes and graphs, every    *)
(* kind of lane, and all limits and bounds.                                *)
(***************************************************************************)
EXTENDS SwarmScheduler, TLAPS

-----------------------------------------------------------------------------
(* The graph's transitions *)

LEMMA RecomputeType ==
  ASSUME NEW g \in [Lane -> SUBSET Lane], NEW n \in [Lane -> NodeStates]
  PROVE  recomputeBlocked(g, n) \in [Lane -> NodeStates]
  BY DEF recomputeBlocked, NodeStates

LEMMA MarkTypes ==
  ASSUME NEW g \in [Lane -> SUBSET Lane], NEW n \in [Lane -> NodeStates],
         NEW S \in SUBSET Lane
  PROVE  markSealed(g, n, S) \in [Lane -> NodeStates] /\ markFailed(g, n, S) \in [Lane -> NodeStates]
  <1>1. [m \in Lane |-> IF m \in S THEN "sealed" ELSE n[m]] \in [Lane -> NodeStates]
    BY DEF NodeStates
  <1>2. [m \in Lane |-> IF m \in S THEN "failed" ELSE n[m]] \in [Lane -> NodeStates]
    BY DEF NodeStates
  <1>. QED BY <1>1, <1>2, RecomputeType DEF markSealed, markFailed

-----------------------------------------------------------------------------
(* The invariant behind the type and the locks *)

\* A lane that may still begin an attempt has one left.
AttemptsLeft ==
  \A l \in Lane : job[l] \in {"none", "setup", "unlocking", "backoff"} => attempt[l] < MaxAttempts

PendingNotStarted == \A l \in pending : job[l] = "none"

\* Somebody knows of each runner: its lane's call, or the deferred cleanup.
RunnersAreWatched ==
  \A l \in runners : job[l] \in {"attempt", "grace"} \/ l \in deferred

DeferredAreDone == \A l \in deferred : job[l] = "done"

\* From acquireLane's lock to the runner's start the lock is kept.
AdmittedHasLock == \A l \in LockRequired : job[l] = "admitting" => l \in locks

Watched ==
  /\ AttemptsLeft /\ PendingNotStarted /\ RunnersAreWatched /\ DeferredAreDone
  /\ AdmittedHasLock /\ RunnerHoldsLock

Inv == TypeOK /\ Watched

LEMMA InitInv == Init => Inv
  <1>. SUFFICES ASSUME Init PROVE Inv
    OBVIOUS
  <1>1. [l \in Lane |-> "ready"] \in [Lane -> NodeStates]
    BY DEF NodeStates
  <1>2. deps \in [Lane -> SUBSET Lane]
    BY GraphsAssumption DEF Init
  <1>3. dag \in [Lane -> NodeStates]
    BY <1>1, <1>2, RecomputeType DEF Init, InitialDag
  <1>4. TypeOK
    <2>1. attempt \in [Lane -> 0 .. MaxAttempts]
      BY LimitsAssumption DEF Init
    <2>. QED BY <1>2, <1>3, <2>1 DEF Init, TypeOK, Jobs, Ended
  <1>5. Watched
    BY LimitsAssumption, KindsAssumption DEF Init, Watched, AttemptsLeft, PendingNotStarted, RunnersAreWatched, DeferredAreDone,
           AdmittedHasLock, RunnerHoldsLock
  <1>. QED BY <1>4, <1>5 DEF Inv

-----------------------------------------------------------------------------
(* What the pieces of runSubagent change *)

\* Lane l's call moves to phase p, no other call moves.
Moves(l, p) == job' = [job EXCEPT ![l] = p]

PieceTypes ==
  /\ claim' \in [Lane -> {"none", "lockless", "lock"}]
  /\ status' \in [Lane -> {"pending", "running", "completed", "failed"}]
  /\ result' \in [Lane -> {"none", "completed", "failed"}]
  /\ scheduler' \in {"turn", "wait", "woken", "done"}

LEMMA FinallyMoves ==
  ASSUME TypeOK, NEW l \in Lane, NEW d \in BOOLEAN, Finally(l, d)
  PROVE  /\ \E p \in {"done", "sealing", "failing"} : Moves(l, p)
         /\ d => Moves(l, "done")
         /\ claim' \in [Lane -> {"none", "lockless", "lock"}]
         /\ scheduler' \in {"turn", "wait", "woken", "done"}
  BY DEF TypeOK, Finally, EndJob, Goes, Moves, Releasing, Woken

LEMMA ConcludeMoves ==
  ASSUME TypeOK, NEW l \in Lane, NEW s \in {"completed", "failed"}, NEW d \in BOOLEAN,
         Conclude(l, s, d)
  PROVE  /\ \E p \in {"done", "sealing", "failing"} : Moves(l, p)
         /\ PieceTypes
  BY FinallyMoves DEF TypeOK, Conclude, outcome, PieceTypes

LEMMA FreeSlotTypes ==
  ASSUME TypeOK, NEW l \in Lane, FreeSlot(l)
  PROVE  slots' \subseteq Lane /\ waiters' \subseteq Lane
  BY DEF TypeOK, FreeSlot

LEMMA TryAttemptMoves ==
  ASSUME TypeOK, NEW l \in Lane, attempt[l] < MaxAttempts, TryAttempt(l)
  PROVE  /\ \E p \in {"done", "sealing", "failing", "slot"} : Moves(l, p)
         /\ attempt' \in [Lane -> 0 .. MaxAttempts]
         /\ \A m \in Lane \ {l} : attempt'[m] = attempt[m]
         /\ PieceTypes
         /\ slots' \subseteq Lane /\ waiters' \subseteq Lane
  <1>1. CASE closed \/ stop \/ expired
    BY <1>1, ConcludeMoves DEF TryAttempt, TypeOK, pool
  <1>2. CASE ~(closed \/ stop \/ expired)
    <2>1. attempt' = [attempt EXCEPT ![l] = @ + 1] /\ attempt[l] \in Nat /\ MaxAttempts \in Nat
      BY <1>2, LimitsAssumption DEF TryAttempt, TypeOK
    <2>2. attempt' \in [Lane -> 0 .. MaxAttempts] /\ \A m \in Lane \ {l} : attempt'[m] = attempt[m]
      BY <2>1 DEF TypeOK
    <2>. QED BY <1>2, <2>2 DEF TryAttempt, TypeOK, Goes, Moves, PieceTypes, outcome
  <1>. QED BY <1>1, <1>2

LEMMA FailAttemptMoves ==
  ASSUME TypeOK, NEW l \in Lane, FailAttempt(l)
  PROVE  /\ \E p \in {"done", "sealing", "failing", "unlocking", "backoff"} :
              Moves(l, p) /\ (p \in {"unlocking", "backoff"} => attempt[l] < MaxAttempts)
         /\ PieceTypes
         /\ slots' \subseteq Lane /\ waiters' \subseteq Lane
  <1>1. CASE Conclude(l, "failed", FALSE) /\ FreeSlot(l)
    BY <1>1, ConcludeMoves, FreeSlotTypes
  <1>2. CASE CanRetry(l) /\ Goes(l, "unlocking") /\ UNCHANGED <<claim, outcome, pool>>
    BY <1>2 DEF TypeOK, Goes, Moves, PieceTypes, outcome, pool, CanRetry
  <1>3. CASE CanRetry(l) /\ Goes(l, "backoff") /\ FreeSlot(l) /\ UNCHANGED <<claim, outcome>>
    BY <1>3, FreeSlotTypes DEF TypeOK, Goes, Moves, PieceTypes, outcome, CanRetry
  <1>. QED BY <1>1, <1>2, <1>3 DEF FailAttempt

LEMMA RefusedMoves ==
  ASSUME TypeOK, NEW l \in Lane, Refused(l)
  PROVE  /\ \E p \in {"done", "sealing", "failing"} : Moves(l, p)
         /\ PieceTypes
         /\ slots' \subseteq Lane /\ waiters' \subseteq Lane
  BY ConcludeMoves, FreeSlotTypes DEF Refused

-----------------------------------------------------------------------------
(* Each step keeps the invariant *)

\* The variables Watched speaks of, apart from the calls, change for l only.
OnlyFor(l) ==
  /\ pending' = pending
  /\ \A m \in Lane \ {l} : /\ attempt'[m] = attempt[m]
                           /\ m \in runners' <=> m \in runners
                           /\ m \in deferred' <=> m \in deferred
                           /\ m \in locks' <=> m \in locks

LEMMA MoveKeepsWatched ==
  ASSUME Inv, NEW l \in Lane, NEW p, Moves(l, p), OnlyFor(l), TypeOK',
         job[l] # "none", p \notin {"none", "setup"},
         p \in {"unlocking", "backoff"} => attempt'[l] < MaxAttempts,
         l \in runners' => p \in {"attempt", "grace"} \/ l \in deferred',
         l \in deferred' => p = "done",
         l \in LockRequired /\ (p = "admitting" \/ l \in runners') => l \in locks'
  PROVE  Watched'
  <1>. USE DEF Inv, Watched, TypeOK, Moves, OnlyFor
  <1>1. AttemptsLeft'
    BY DEF AttemptsLeft
  <1>2. PendingNotStarted'
    BY DEF PendingNotStarted
  <1>3. RunnersAreWatched'
    BY DEF RunnersAreWatched
  <1>4. DeferredAreDone'
    BY DEF DeferredAreDone
  <1>5. AdmittedHasLock'
    BY KindsAssumption DEF AdmittedHasLock
  <1>6. RunnerHoldsLock'
    BY DEF RunnerHoldsLock
  <1>. QED BY <1>1, <1>2, <1>3, <1>4, <1>5, <1>6

\* Phases a call may be moved to by the pieces of runSubagent.
Phases == {"slot", "acquiring", "admitting", "attempt", "grace", "unlocking", "backoff",
           "sealing", "failing", "done"}

LEMMA MoveHasType ==
  ASSUME TypeOK, NEW l \in Lane, NEW p \in Phases, Moves(l, p)
  PROVE  job' \in [Lane -> Jobs]
  BY DEF TypeOK, Moves, Phases, Jobs, Ended

LEMMA SetupInv == ASSUME Inv, NEW l \in Lane, Setup(l) PROVE Inv'
  <1>1. PICK p \in {"done", "sealing", "failing", "slot"} : Moves(l, p)
    BY TryAttemptMoves DEF Inv, Watched, AttemptsLeft, Setup
  <1>2. /\ attempt' \in [Lane -> 0 .. MaxAttempts]
        /\ \A m \in Lane \ {l} : attempt'[m] = attempt[m]
        /\ PieceTypes /\ slots' \subseteq Lane /\ waiters' \subseteq Lane
    BY TryAttemptMoves DEF Inv, Watched, AttemptsLeft, Setup
  <1>3. job' \in [Lane -> Jobs]
    BY <1>1, MoveHasType DEF Inv, Phases
  <1>4. TypeOK'
    BY <1>2, <1>3 DEF Inv, TypeOK, PieceTypes, Setup, parent, authority
  <1>5. l \notin runners' /\ l \notin deferred'
    BY DEF Inv, Watched, RunnersAreWatched, DeferredAreDone, Setup
  <1>6. OnlyFor(l)
    BY <1>2 DEF OnlyFor, Setup, authority
  <1>. QED BY <1>1, <1>4, <1>5, <1>6, MoveKeepsWatched DEF Inv, Setup

LEMMA SlotCancelledInv == ASSUME Inv, NEW l \in Lane, SlotCancelled(l) PROVE Inv'
  <1>1. PICK p \in {"done", "sealing", "failing"} : Moves(l, p)
    BY ConcludeMoves DEF Inv, SlotCancelled
  <1>2. PieceTypes
    BY ConcludeMoves DEF Inv, SlotCancelled
  <1>3. job' \in [Lane -> Jobs]
    BY <1>1, MoveHasType DEF Inv, Phases
  <1>4. TypeOK'
    BY <1>2, <1>3 DEF Inv, TypeOK, PieceTypes, SlotCancelled, parent, authority, pool
  <1>5. l \notin runners' /\ l \notin deferred'
    BY DEF Inv, Watched, RunnersAreWatched, DeferredAreDone, SlotCancelled
  <1>6. OnlyFor(l)
    BY DEF OnlyFor, SlotCancelled, authority
  <1>. QED BY <1>1, <1>4, <1>5, <1>6, MoveKeepsWatched DEF Inv, SlotCancelled

LEMMA SlotGrantedInv == ASSUME Inv, NEW l \in Lane, SlotGranted(l) PROVE Inv'
  <1>1. /\ PieceTypes /\ slots' \subseteq Lane /\ waiters' \subseteq Lane
        /\ reentry' \subseteq Lane
        /\ \E p \in {"done", "sealing", "failing", "acquiring", "admitting"} :
             Moves(l, p) /\ (p = "admitting" => l \notin LockRequired)
    <2>1. CASE Refused(l) /\ UNCHANGED reentry
      BY <2>1, RefusedMoves DEF Inv, TypeOK
    <2>2. CASE /\ reentry' = IF dag[l] = "running" THEN reentry \cup {l} ELSE reentry \ {l}
               /\ Goes(l, IF l \in LockRequired THEN "acquiring" ELSE "admitting")
               /\ UNCHANGED <<claim, outcome, pool>>
      BY <2>2 DEF Inv, TypeOK, Goes, Moves, PieceTypes, outcome, pool
    <2>. QED BY <2>1, <2>2 DEF SlotGranted
  <1>2. PICK p \in {"done", "sealing", "failing", "acquiring", "admitting"} :
          Moves(l, p) /\ (p = "admitting" => l \notin LockRequired)
    BY <1>1
  <1>3. job' \in [Lane -> Jobs]
    BY <1>2, MoveHasType DEF Inv, Phases
  <1>4. TypeOK'
    BY <1>1, <1>3 DEF Inv, TypeOK, PieceTypes, SlotGranted, parent, authority
  <1>5. l \notin runners' /\ l \notin deferred'
    BY DEF Inv, Watched, RunnersAreWatched, DeferredAreDone, SlotGranted
  <1>6. OnlyFor(l)
    BY DEF OnlyFor, SlotGranted, authority
  <1>. QED BY <1>2, <1>4, <1>5, <1>6, MoveKeepsWatched DEF Inv, SlotGranted

LEMMA LockGrantedInv == ASSUME Inv, NEW l \in Lane, LockGranted(l) PROVE Inv'
  <1>1. Moves(l, "admitting")
    BY DEF LockGranted, Goes, Moves
  <1>2. TypeOK'
    BY <1>1, MoveHasType DEF Inv, TypeOK, Phases, LockGranted, Goes, parent, pool, outcome
  <1>3. l \notin runners' /\ l \notin deferred'
    BY DEF Inv, Watched, RunnersAreWatched, DeferredAreDone, LockGranted
  <1>4. OnlyFor(l) /\ l \in locks'
    BY DEF Inv, TypeOK, OnlyFor, LockGranted
  <1>. QED BY <1>1, <1>2, <1>3, <1>4, MoveKeepsWatched DEF Inv, LockGranted

\* A release touches no other lane's lock.
LEMMA ReleaseTypes ==
  ASSUME TypeOK, NEW l \in Lane, Released(l) \/ NotReleased(l)
  PROVE  /\ locks' \subseteq Lane /\ faults' \in Nat
         /\ \A m \in Lane \ {l} : m \in locks' <=> m \in locks
  BY LimitsAssumption DEF TypeOK, Released, NotReleased

LEMMA LockRefusedInv == ASSUME Inv, NEW l \in Lane, LockRefused(l) PROVE Inv'
  <1>1. PICK p \in {"done", "sealing", "failing"} : Moves(l, p)
    BY RefusedMoves DEF Inv, LockRefused
  <1>2. PieceTypes /\ slots' \subseteq Lane /\ waiters' \subseteq Lane
    BY RefusedMoves DEF Inv, LockRefused
  <1>3. job' \in [Lane -> Jobs]
    BY <1>1, MoveHasType DEF Inv, Phases
  <1>4. /\ locks' \subseteq Lane /\ faults' \in Nat
        /\ \A m \in Lane \ {l} : m \in locks' <=> m \in locks
    BY ReleaseTypes DEF Inv, LockRefused
  <1>5. TypeOK'
    BY <1>2, <1>3, <1>4 DEF Inv, TypeOK, PieceTypes, LockRefused, parent
  <1>6. l \notin runners' /\ l \notin deferred'
    BY DEF Inv, Watched, RunnersAreWatched, DeferredAreDone, LockRefused
  <1>7. OnlyFor(l)
    BY <1>4 DEF OnlyFor, LockRefused
  <1>. QED BY <1>1, <1>5, <1>6, <1>7, MoveKeepsWatched DEF Inv, LockRefused

LEMMA AdmissionThrowsInv == ASSUME Inv, NEW l \in Lane, AdmissionThrows(l) PROVE Inv'
  <1>1. PICK p \in {"done", "sealing", "failing"} : Moves(l, p)
    BY RefusedMoves DEF Inv, AdmissionThrows
  <1>2. PieceTypes /\ slots' \subseteq Lane /\ waiters' \subseteq Lane
    BY RefusedMoves DEF Inv, AdmissionThrows
  <1>3. job' \in [Lane -> Jobs]
    BY <1>1, MoveHasType DEF Inv, Phases
  <1>4. faults' \in Nat
    BY DEF Inv, TypeOK, AdmissionThrows
  <1>5. TypeOK'
    BY <1>2, <1>3, <1>4 DEF Inv, TypeOK, PieceTypes, AdmissionThrows, parent
  <1>6. l \notin runners' /\ l \notin deferred'
    BY DEF Inv, Watched, RunnersAreWatched, DeferredAreDone, AdmissionThrows
  <1>7. OnlyFor(l)
    BY DEF OnlyFor, AdmissionThrows
  <1>. QED BY <1>1, <1>5, <1>6, <1>7, MoveKeepsWatched DEF Inv, AdmissionThrows

LEMMA EnterLaneInv == ASSUME Inv, NEW l \in Lane, EnterLane(l) PROVE Inv'
  <1>1. CASE Refused(l) /\ UNCHANGED <<dag, runners>>
    <2>1. PICK p \in {"done", "sealing", "failing"} : Moves(l, p)
      BY <1>1, RefusedMoves DEF Inv
    <2>2. PieceTypes /\ slots' \subseteq Lane /\ waiters' \subseteq Lane
      BY <1>1, RefusedMoves DEF Inv
    <2>3. job' \in [Lane -> Jobs]
      BY <2>1, MoveHasType DEF Inv, Phases
    <2>4. TypeOK'
      BY <1>1, <2>2, <2>3 DEF Inv, TypeOK, PieceTypes, EnterLane, parent, authority
    <2>5. l \notin runners' /\ l \notin deferred'
      BY <1>1 DEF Inv, Watched, RunnersAreWatched, DeferredAreDone, EnterLane
    <2>6. OnlyFor(l)
      BY <1>1 DEF OnlyFor, EnterLane, authority
    <2>. QED BY <2>1, <2>4, <2>5, <2>6, MoveKeepsWatched DEF Inv, EnterLane
  <1>2. CASE /\ dag' = IF l \in reentry THEN dag ELSE markRunning(dag, l)
             /\ claim' = [claim EXCEPT ![l] = IF l \in LockRequired THEN "lock" ELSE "lockless"]
             /\ IF closed
                THEN Goes(l, Releasing(status[l])) /\ FreeSlot(l) /\ UNCHANGED <<runners, outcome>>
                ELSE /\ runners' = runners \cup {l}
                     /\ status' = [status EXCEPT ![l] = "running"]
                     /\ Goes(l, "attempt")
                     /\ UNCHANGED <<result, pool>>
    <2>1. PICK p \in {"sealing", "failing", "attempt"} :
            /\ Moves(l, p)
            /\ p = "attempt" => runners' = runners \cup {l}
            /\ p # "attempt" => runners' = runners
      BY <1>2 DEF Goes, Moves, Releasing
    <2>2. job' \in [Lane -> Jobs]
      BY <2>1, MoveHasType DEF Inv, Phases
    <2>3. dag' \in [Lane -> NodeStates]
      BY <1>2 DEF Inv, TypeOK, markRunning, NodeStates
    <2>4. /\ slots' \subseteq Lane /\ waiters' \subseteq Lane
          /\ status' \in [Lane -> {"pending", "running", "completed", "failed"}]
          /\ claim' \in [Lane -> {"none", "lockless", "lock"}]
          /\ UNCHANGED <<result, scheduler>>
      BY <1>2, FreeSlotTypes DEF Inv, TypeOK, Goes, pool, outcome
    <2>5. TypeOK'
      BY <2>1, <2>2, <2>3, <2>4 DEF Inv, TypeOK, EnterLane, parent, authority
    <2>6. l \notin runners /\ l \notin deferred'
      BY DEF Inv, Watched, RunnersAreWatched, DeferredAreDone, EnterLane
    <2>7. OnlyFor(l)
      BY <2>1 DEF OnlyFor, EnterLane, authority
    <2>8. l \in LockRequired => l \in locks'
      BY DEF Inv, Watched, AdmittedHasLock, EnterLane, authority
    <2>9. p # "attempt" => l \notin runners'
      BY <2>1, <2>6
    <2>. QED BY <2>1, <2>5, <2>6, <2>7, <2>8, <2>9, MoveKeepsWatched DEF Inv, EnterLane
  <1>. QED BY <1>1, <1>2 DEF EnterLane

LEMMA AttemptSettlesInv == ASSUME Inv, NEW l \in Lane, AttemptSettles(l) PROVE Inv'
  <1>1. /\ PieceTypes /\ slots' \subseteq Lane /\ waiters' \subseteq Lane
        /\ \E p \in {"done", "sealing", "failing", "unlocking", "backoff"} :
             Moves(l, p) /\ (p \in {"unlocking", "backoff"} => attempt[l] < MaxAttempts)
    <2>1. CASE Conclude(l, "completed", FALSE) /\ FreeSlot(l)
      BY <2>1, ConcludeMoves, FreeSlotTypes DEF Inv
    <2>2. CASE FailAttempt(l)
      BY <2>2, FailAttemptMoves DEF Inv
    <2>. QED BY <2>1, <2>2 DEF AttemptSettles
  <1>2. PICK p \in {"done", "sealing", "failing", "unlocking", "backoff"} :
          Moves(l, p) /\ (p \in {"unlocking", "backoff"} => attempt[l] < MaxAttempts)
    BY <1>1
  <1>3. job' \in [Lane -> Jobs]
    BY <1>2, MoveHasType DEF Inv, Phases
  <1>4. TypeOK'
    BY <1>1, <1>3 DEF Inv, TypeOK, PieceTypes, AttemptSettles, parent, authority
  <1>5. l \notin runners' /\ l \notin deferred'
    BY DEF Inv, Watched, DeferredAreDone, AttemptSettles
  <1>6. OnlyFor(l)
    BY DEF OnlyFor, AttemptSettles, authority
  <1>7. attempt'[l] = attempt[l] /\ job[l] # "none"
    BY DEF AttemptSettles
  <1>. QED BY <1>2, <1>4, <1>5, <1>6, <1>7, MoveKeepsWatched DEF Inv

LEMMA AttemptTimesOutInv == ASSUME Inv, NEW l \in Lane, AttemptTimesOut(l) PROVE Inv'
  <1>1. Moves(l, "grace")
    BY DEF AttemptTimesOut, Goes, Moves
  <1>2. job' \in [Lane -> Jobs]
    BY <1>1, MoveHasType DEF Inv, Phases
  <1>3. TypeOK'
    BY <1>2 DEF Inv, TypeOK, AttemptTimesOut, Goes, parent, pool, authority
  <1>4. l \notin deferred' /\ job[l] # "none"
    BY DEF Inv, Watched, DeferredAreDone, AttemptTimesOut
  <1>5. OnlyFor(l)
    BY DEF OnlyFor, AttemptTimesOut, authority
  <1>6. l \in LockRequired => l \in locks'
    BY DEF Inv, Watched, RunnerHoldsLock, AttemptTimesOut, authority
  <1>. QED BY <1>1, <1>3, <1>4, <1>5, <1>6, MoveKeepsWatched DEF Inv

LEMMA RunnerSettlesInv == ASSUME Inv, NEW l \in Lane, RunnerSettles(l) PROVE Inv'
  <1>. USE DEF RunnerSettles, Inv, authority, parent, pool, outcome
  <1>1. TypeOK'
    BY DEF TypeOK
  <1>2. Watched'
    BY DEF Watched, AttemptsLeft, PendingNotStarted, RunnersAreWatched, DeferredAreDone,
           AdmittedHasLock, RunnerHoldsLock
  <1>. QED BY <1>1, <1>2

LEMMA GraceSettledInv == ASSUME Inv, NEW l \in Lane, GraceSettled(l) PROVE Inv'
  <1>1. /\ PieceTypes /\ slots' \subseteq Lane /\ waiters' \subseteq Lane
        /\ dag' \in [Lane -> NodeStates]
        /\ \E p \in {"done", "sealing", "failing", "unlocking", "backoff"} :
             Moves(l, p) /\ (p \in {"unlocking", "backoff"} => attempt[l] < MaxAttempts)
    <2>1. CASE /\ dag' = markSealed(deps, dag, {l})
               /\ Conclude(l, "completed", FALSE) /\ FreeSlot(l)
      BY <2>1, ConcludeMoves, FreeSlotTypes, MarkTypes DEF Inv, TypeOK
    <2>2. CASE FailAttempt(l) /\ UNCHANGED dag
      BY <2>2, FailAttemptMoves DEF Inv, TypeOK
    <2>. QED BY <2>1, <2>2 DEF GraceSettled
  <1>2. PICK p \in {"done", "sealing", "failing", "unlocking", "backoff"} :
          Moves(l, p) /\ (p \in {"unlocking", "backoff"} => attempt[l] < MaxAttempts)
    BY <1>1
  <1>3. job' \in [Lane -> Jobs]
    BY <1>2, MoveHasType DEF Inv, Phases
  <1>4. TypeOK'
    BY <1>1, <1>3 DEF Inv, TypeOK, PieceTypes, GraceSettled, parent, authority
  <1>5. l \notin runners' /\ l \notin deferred'
    BY DEF Inv, Watched, DeferredAreDone, GraceSettled
  <1>6. OnlyFor(l)
    BY DEF OnlyFor, GraceSettled, authority
  <1>7. attempt'[l] = attempt[l] /\ job[l] # "none"
    BY DEF GraceSettled
  <1>. QED BY <1>2, <1>4, <1>5, <1>6, <1>7, MoveKeepsWatched DEF Inv

LEMMA GraceExpiredInv == ASSUME Inv, NEW l \in Lane, GraceExpired(l) PROVE Inv'
  <1>1. /\ Moves(l, "done")
        /\ claim' \in [Lane -> {"none", "lockless", "lock"}]
        /\ scheduler' \in {"turn", "wait", "woken", "done"}
    BY FinallyMoves DEF Inv, GraceExpired
  <1>2. job' \in [Lane -> Jobs]
    BY <1>1, MoveHasType DEF Inv, Phases
  <1>3. dag' \in [Lane -> NodeStates]
    BY MarkTypes DEF Inv, TypeOK, GraceExpired
  <1>4. /\ status' \in [Lane -> {"pending", "running", "completed", "failed"}]
        /\ result' \in [Lane -> {"none", "completed", "failed"}]
        /\ slots' \subseteq Lane /\ waiters' \subseteq Lane
    BY DEF Inv, TypeOK, GraceExpired
  <1>5. TypeOK'
    BY <1>1, <1>2, <1>3, <1>4, ZenonT(90) DEF Inv, TypeOK, GraceExpired, parent, authority
  <1>6. OnlyFor(l) /\ l \in deferred' /\ job[l] # "none"
    BY DEF Inv, TypeOK, OnlyFor, GraceExpired, authority
  <1>7. l \in LockRequired => l \in locks'
    BY DEF Inv, Watched, RunnerHoldsLock, GraceExpired, authority
  <1>. QED BY <1>1, <1>5, <1>6, <1>7, MoveKeepsWatched DEF Inv

LEMMA BackoffEndsInv == ASSUME Inv, NEW l \in Lane, BackoffEnds(l) PROVE Inv'
  <1>1. PICK p \in {"done", "sealing", "failing", "slot"} : Moves(l, p)
    BY TryAttemptMoves DEF Inv, Watched, AttemptsLeft, BackoffEnds
  <1>2. /\ attempt' \in [Lane -> 0 .. MaxAttempts]
        /\ \A m \in Lane \ {l} : attempt'[m] = attempt[m]
        /\ PieceTypes /\ slots' \subseteq Lane /\ waiters' \subseteq Lane
    BY TryAttemptMoves DEF Inv, Watched, AttemptsLeft, BackoffEnds
  <1>3. job' \in [Lane -> Jobs]
    BY <1>1, MoveHasType DEF Inv, Phases
  <1>4. TypeOK'
    BY <1>2, <1>3 DEF Inv, TypeOK, PieceTypes, BackoffEnds, parent, authority
  <1>5. l \notin runners' /\ l \notin deferred'
    BY DEF Inv, Watched, RunnersAreWatched, DeferredAreDone, BackoffEnds
  <1>6. OnlyFor(l)
    BY <1>2 DEF OnlyFor, BackoffEnds, authority
  <1>. QED BY <1>1, <1>4, <1>5, <1>6, MoveKeepsWatched DEF Inv, BackoffEnds

LEMMA UnlockInv == ASSUME Inv, NEW l \in Lane, Unlock(l) PROVE Inv'
  <1>1. /\ PieceTypes /\ slots' \subseteq Lane /\ waiters' \subseteq Lane
        /\ \E p \in {"done", "sealing", "failing", "backoff"} : Moves(l, p)
    <2>1. CASE /\ claim' = [claim EXCEPT ![l] = "none"]
               /\ IF closed THEN EndJob(l) ELSE Goes(l, "backoff")
               /\ UNCHANGED outcome
      BY <2>1, FreeSlotTypes DEF Inv, TypeOK, Unlock, EndJob, Woken, Goes, Moves, PieceTypes, outcome
    <2>2. CASE Conclude(l, "failed", FALSE)
      BY <2>2, ConcludeMoves, FreeSlotTypes DEF Inv, Unlock
    <2>. QED BY <2>1, <2>2 DEF Unlock
  <1>2. PICK p \in {"done", "sealing", "failing", "backoff"} : Moves(l, p)
    BY <1>1
  <1>3. job' \in [Lane -> Jobs]
    BY <1>2, MoveHasType DEF Inv, Phases
  <1>4. /\ locks' \subseteq Lane /\ faults' \in Nat
        /\ \A m \in Lane \ {l} : m \in locks' <=> m \in locks
    BY ReleaseTypes DEF Inv, Unlock
  <1>5. TypeOK'
    BY <1>1, <1>3, <1>4 DEF Inv, TypeOK, PieceTypes, Unlock, parent
  <1>6. l \notin runners' /\ l \notin deferred'
    BY DEF Inv, Watched, RunnersAreWatched, DeferredAreDone, Unlock
  <1>7. OnlyFor(l)
    BY <1>4 DEF OnlyFor, Unlock
  <1>8. attempt'[l] < MaxAttempts /\ job[l] # "none"
    BY DEF Inv, Watched, AttemptsLeft, Unlock
  <1>. QED BY <1>2, <1>5, <1>6, <1>7, <1>8, MoveKeepsWatched DEF Inv

LEMMA ReleaseLaneInv == ASSUME Inv, NEW l \in Lane, ReleaseLane(l) PROVE Inv'
  <1>1. Moves(l, "done")
    BY DEF ReleaseLane, EndJob, Moves
  <1>2. job' \in [Lane -> Jobs]
    BY <1>1, MoveHasType DEF Inv, Phases
  <1>3. dag' \in [Lane -> NodeStates]
    BY MarkTypes DEF Inv, TypeOK, ReleaseLane
  <1>4. /\ locks' \subseteq Lane /\ faults' \in Nat
        /\ \A m \in Lane \ {l} : m \in locks' <=> m \in locks
    BY ReleaseTypes DEF Inv, ReleaseLane
  <1>5. PieceTypes
    BY DEF Inv, TypeOK, ReleaseLane, EndJob, Woken, PieceTypes, outcome
  <1>6. TypeOK'
    BY <1>2, <1>3, <1>4, <1>5 DEF Inv, TypeOK, PieceTypes, ReleaseLane, parent, pool
  <1>7. l \notin runners' /\ job[l] # "none"
    BY DEF Inv, Watched, RunnersAreWatched, DeferredAreDone, ReleaseLane
  <1>8. OnlyFor(l)
    BY <1>4 DEF OnlyFor, ReleaseLane
  <1>. QED BY <1>1, <1>6, <1>7, <1>8, MoveKeepsWatched DEF Inv

LEMMA DeferredReleaseInv == ASSUME Inv, NEW l \in Lane, DeferredRelease(l) PROVE Inv'
  <1>1. dag' \in [Lane -> NodeStates]
    BY MarkTypes DEF Inv, TypeOK, DeferredRelease
  <1>2. /\ locks' \subseteq Lane /\ faults' \in Nat
        /\ \A m \in Lane \ {l} : m \in locks' <=> m \in locks
    BY ReleaseTypes DEF Inv, DeferredRelease
  <1>3. TypeOK'
    BY <1>1, <1>2 DEF Inv, TypeOK, DeferredRelease, parent, pool, outcome
  <1>4. Moves(l, "done") /\ job[l] = "done"
    BY DEF Inv, TypeOK, Watched, DeferredAreDone, DeferredRelease, Moves
  <1>5. OnlyFor(l) /\ l \notin runners'
    BY <1>2 DEF OnlyFor, DeferredRelease
  <1>6. l \notin deferred'
    BY DEF DeferredRelease
  <1>. QED BY <1>3, <1>4, <1>5, <1>6, MoveKeepsWatched DEF Inv

LEMMA SkipEndsInv == ASSUME Inv, NEW l \in Lane, SkipEnds(l) PROVE Inv'
  <1>1. Moves(l, "done") /\ job[l] # "none"
    BY DEF SkipEnds, EndJob, Moves
  <1>2. job' \in [Lane -> Jobs]
    BY <1>1, MoveHasType DEF Inv, Phases
  <1>3. TypeOK'
    BY <1>2 DEF Inv, TypeOK, SkipEnds, EndJob, Woken, parent, authority, pool, outcome
  <1>4. l \notin runners'
    BY DEF Inv, Watched, RunnersAreWatched, DeferredAreDone, SkipEnds
  <1>5. OnlyFor(l)
    BY DEF OnlyFor, SkipEnds, authority
  <1>. QED BY <1>1, <1>3, <1>4, <1>5, MoveKeepsWatched DEF Inv

\* What one iteration of executeSwarmLanes does: lanes are cancelled, doomed and
\* started, started ones that are carried over are sealed, or all that is left
\* is stuck.
IterateAs(started, doomed, stuck) ==
  LET afterDoom == markFailed(deps, markFailed(deps, dag, Cancelled), doomed)
      afterStart == markSealed(deps, afterDoom, started \cap Reused)
  IN  /\ \A l \in started : afterDoom[l] = "ready"
      /\ stuck # {} => started = {}
      /\ dag' = markFailed(deps, afterStart, stuck)
      /\ started \cap (Cancelled \cup doomed) = {}
      /\ pending' \subseteq pending \ started
      /\ pending \ pending' = started \cup Cancelled \cup doomed \cup stuck
      /\ job' = [l \in Lane |-> IF l \in started \cap Reused THEN "skipping"
                                ELSE IF l \in started THEN "setup" ELSE job[l]]
      /\ result' = [l \in Lane |-> IF l \in started \cap Reused THEN "completed"
                                   ELSE IF l \in Cancelled \cup doomed \cup stuck THEN "failed"
                                   ELSE result[l]]
      /\ scheduler' = "done" => pending' = {} /\ running \cup started = {}

LEMMA IterateShape ==
  ASSUME TypeOK, Iterate
  PROVE  /\ \E started, doomed, stuck \in SUBSET pending : IterateAs(started, doomed, stuck)
         /\ status' \in [Lane -> {"pending", "running", "completed", "failed"}]
         /\ result' \in [Lane -> {"none", "completed", "failed"}]
         /\ scheduler' \in {"turn", "wait", "woken", "done"}
  <1> DEFINE afterStop == markFailed(deps, dag, Cancelled)
             doomed == Doomed(afterStop, pending \ Cancelled)
             afterDoom == markFailed(deps, afterStop, doomed)
             left == pending \ (Cancelled \cup doomed)
             ready == Startable(afterDoom, left)
  <1>1. doomed \in SUBSET pending
    BY DEF Doomed
  <1>2. /\ left \subseteq pending /\ left = pending \ (Cancelled \cup doomed)
        /\ \A l \in ready : l \in left /\ afterDoom[l] = "ready"
    BY DEF Startable
  <1> HIDE DEF doomed, left, ready
  <1>3. PICK started \in SUBSET ready :
          LET skipped == started \cap Reused
              idle == running \cup started = {}
              stuck == IF idle /\ HasDeadlock(deps, afterDoom, left) THEN left ELSE {}
              failing == Cancelled \cup doomed \cup stuck
              afterStart == markSealed(deps, afterDoom, skipped)
          IN  /\ dag' = markFailed(deps, afterStart, stuck)
              /\ pending' = left \ (started \cup stuck)
              /\ job' = [l \in Lane |-> IF l \in skipped THEN "skipping"
                                        ELSE IF l \in started THEN "setup" ELSE job[l]]
              /\ status' = [l \in Lane |-> IF l \in skipped THEN "completed"
                                           ELSE IF l \in failing THEN "failed" ELSE status[l]]
              /\ result' = [l \in Lane |-> IF l \in skipped THEN "completed"
                                           ELSE IF l \in failing THEN "failed" ELSE result[l]]
              /\ scheduler' = IF ~idle THEN "wait"
                              ELSE IF pending' = {} THEN "done" ELSE "turn"
    BY DEF Iterate, doomed, left, ready
  <1> HIDE DEF afterDoom
  <1> DEFINE stuck == IF running \cup started = {} /\ HasDeadlock(deps, afterDoom, left)
                      THEN left ELSE {}
  <1>4. started \in SUBSET pending /\ stuck \in SUBSET pending
    BY <1>2
  <1>5. Cancelled \in SUBSET pending
    BY DEF Cancelled
  <1>6. pending' = left \ (started \cup stuck) /\ (stuck = {} \/ stuck = left)
    BY <1>3
  <1> HIDE DEF stuck
  <1>7. /\ started \cap (Cancelled \cup doomed) = {}
        /\ pending \ pending' = started \cup Cancelled \cup doomed \cup stuck
    BY <1>1, <1>2, <1>4, <1>5, <1>6
  <1>8. IterateAs(started, doomed, stuck)
    BY <1>2, <1>3, <1>7 DEF IterateAs, afterDoom, stuck
  <1>9. /\ status' \in [Lane -> {"pending", "running", "completed", "failed"}]
        /\ result' \in [Lane -> {"none", "completed", "failed"}]
        /\ scheduler' \in {"turn", "wait", "woken", "done"}
    BY <1>3 DEF TypeOK
  <1>. QED BY <1>1, <1>4, <1>8, <1>9

LEMMA SchedulerTurnInv == ASSUME Inv, SchedulerTurn PROVE Inv'
  <1>1. CASE LoopEnds /\ scheduler' = "done" /\ UNCHANGED <<dag, pending, job, outcome>>
    <2>. USE <1>1 DEF SchedulerTurn, Inv, parent, authority, outcome, pool
    <2>1. TypeOK'
      BY DEF TypeOK
    <2>2. Watched'
      BY DEF Watched, AttemptsLeft, PendingNotStarted, RunnersAreWatched, DeferredAreDone,
             AdmittedHasLock, RunnerHoldsLock
    <2>. QED BY <2>1, <2>2
  <1>2. CASE Iterate
    <2>1. PICK started, doomed, stuck \in SUBSET pending : IterateAs(started, doomed, stuck)
      BY <1>2, IterateShape DEF Inv
    <2>2. dag' \in [Lane -> NodeStates]
      <3>1. /\ Cancelled \in SUBSET Lane /\ doomed \in SUBSET Lane
            /\ stuck \in SUBSET Lane /\ started \cap Reused \in SUBSET Lane
        BY DEF Inv, TypeOK, Cancelled
      <3>2. markFailed(deps, dag, Cancelled) \in [Lane -> NodeStates]
        BY <3>1, MarkTypes DEF Inv, TypeOK
      <3>3. markFailed(deps, markFailed(deps, dag, Cancelled), doomed) \in [Lane -> NodeStates]
        BY <3>1, <3>2, MarkTypes DEF Inv, TypeOK
      <3> DEFINE n == markSealed(deps, markFailed(deps, markFailed(deps, dag, Cancelled), doomed),
                                 started \cap Reused)
      <3>4. n \in [Lane -> NodeStates]
        BY <3>1, <3>3, MarkTypes DEF Inv, TypeOK
      <3>5. dag' = markFailed(deps, n, stuck)
        BY <2>1 DEF IterateAs
      <3> HIDE DEF n
      <3>. QED BY <3>1, <3>4, <3>5, MarkTypes DEF Inv, TypeOK
    <2>3. /\ pending' \subseteq pending \ started
          /\ \A l \in Lane : job'[l] = IF l \in started \cap Reused THEN "skipping"
                                       ELSE IF l \in started THEN "setup" ELSE job[l]
          /\ job' \in [Lane -> Jobs]
      BY <2>1 DEF IterateAs, Inv, TypeOK, Jobs, Ended
    <2>4. TypeOK'
      BY <1>2, <2>2, <2>3, IterateShape DEF Inv, TypeOK, SchedulerTurn, parent, authority, pool
    <2>5. \A l \in started : job[l] = "none"
      BY <2>1 DEF Inv, Watched, PendingNotStarted
    <2>6. Watched'
      <3>. USE <2>3, <2>5 DEF Inv, TypeOK, Watched, SchedulerTurn, authority
      <3>1. AttemptsLeft'
        BY DEF AttemptsLeft
      <3>2. PendingNotStarted'
        BY DEF PendingNotStarted
      <3>3. RunnersAreWatched' /\ DeferredAreDone'
        BY DEF RunnersAreWatched, DeferredAreDone
      <3>4. AdmittedHasLock'
        BY KindsAssumption DEF AdmittedHasLock
      <3>5. RunnerHoldsLock'
        BY DEF RunnerHoldsLock
      <3>. QED BY <3>1, <3>2, <3>3, <3>4, <3>5
    <2>. QED BY <2>4, <2>6 DEF Inv
  <1>. QED BY <1>1, <1>2 DEF SchedulerTurn

\* The parent's steps leave the calls, the runners and the locks alone.
LEMMA ParentInv ==
  ASSUME Inv, RequestStop \/ Deadline \/ SwarmTimesOut \/ Close \/ Finalize
  PROVE  Inv'
  <1>1. UNCHANGED <<pending, job, attempt, runners, deferred, locks>>
    BY DEF RequestStop, Deadline, SwarmTimesOut, Close, Finalize, authority
  <1>2. Watched'
    BY <1>1 DEF Inv, Watched, AttemptsLeft, PendingNotStarted, RunnersAreWatched, DeferredAreDone,
                AdmittedHasLock, RunnerHoldsLock
  <1>3. TypeOK'
    <2>1. CASE RequestStop
      BY <2>1 DEF Inv, TypeOK, RequestStop, parent, authority, outcome
    <2>2. CASE Deadline
      BY <2>2 DEF Inv, TypeOK, Deadline, authority, pool, outcome
    <2>3. CASE SwarmTimesOut
      BY <2>3 DEF Inv, TypeOK, SwarmTimesOut, authority, outcome
    <2>4. CASE Close
      BY <2>4 DEF Inv, TypeOK, Close, Woken, authority, pool, outcome
    <2>5. CASE Finalize
      BY <2>5 DEF Inv, TypeOK, Finalize, authority, pool
    <2>. QED BY <2>1, <2>2, <2>3, <2>4, <2>5
  <1>. QED BY <1>2, <1>3 DEF Inv

LEMMA StepInv == Inv /\ [Next]_vars => Inv'
  <1>. SUFFICES ASSUME Inv, [Next]_vars PROVE Inv'
    OBVIOUS
  <1>1. CASE UNCHANGED vars
    BY <1>1 DEF vars, Inv, TypeOK, Watched, AttemptsLeft, PendingNotStarted, RunnersAreWatched,
                DeferredAreDone, AdmittedHasLock, RunnerHoldsLock
  <1>2. CASE SchedulerTurn
    BY <1>2, SchedulerTurnInv
  <1>3. ASSUME NEW l \in Lane, LaneStep(l) \/ AttemptSettles(l) \/ RunnerSettles(l) PROVE Inv'
    <2>1. CASE Acquire(l)
      BY <2>1, SetupInv, SlotCancelledInv, SlotGrantedInv, LockGrantedInv, LockRefusedInv,
         AdmissionThrowsInv, EnterLaneInv DEF Acquire
    <2>2. CASE Attempt(l)
      BY <2>2, AttemptTimesOutInv, GraceSettledInv, GraceExpiredInv, BackoffEndsInv DEF Attempt
    <2>3. CASE Release(l)
      BY <2>3, UnlockInv, ReleaseLaneInv, DeferredReleaseInv, SkipEndsInv DEF Release
    <2>. QED BY <1>3, <2>1, <2>2, <2>3, AttemptSettlesInv, RunnerSettlesInv DEF LaneStep
  <1>4. CASE RequestStop \/ Deadline \/ SwarmTimesOut \/ Close \/ Finalize
    BY <1>4, ParentInv
  <1>. QED BY <1>1, <1>2, <1>3, <1>4 DEF Next

-----------------------------------------------------------------------------
(* Theorems *)

\* Every state of a swarm is well typed, and no lane makes more attempts than
\* runSubagent's loop allows, over all waits, retries, stops and closings.
THEOREM TypeCorrect == Spec => []TypeOK
  <1>1. Inv => TypeOK
    BY DEF Inv
  <1>. QED BY <1>1, InitInv, StepInv, PTL DEF Spec

\* A lane's lock is held for as long as its runner may be running, also when
\* the runner outlives its timeout, its grace period and the whole swarm.
THEOREM LockOutlivesRunner == Spec => []RunnerHoldsLock
  <1>1. Inv => RunnerHoldsLock
    BY DEF Inv, Watched
  <1>. QED BY <1>1, InitInv, StepInv, PTL DEF Spec

\* Once swarmFinalizationClosed is set, a lane that ends late publishes nothing.
THEOREM FrozenResults == Spec => ResultsAreFrozen
  <1>1. ASSUME closed, [Next]_vars PROVE result' = result
    <2>. USE <1>1
    <2>1. \A l \in Lane, s \in {"completed", "failed"}, d \in BOOLEAN : Conclude(l, s, d) => result' = result
      BY DEF Conclude, outcome
    <2>2. \A l \in Lane : Refused(l) => result' = result
      BY <2>1 DEF Refused
    <2>3. \A l \in Lane : FailAttempt(l) => result' = result
      BY <2>1 DEF FailAttempt, outcome
    <2>4. \A l \in Lane : TryAttempt(l) => result' = result
      BY <2>1 DEF TryAttempt, outcome
    <2>5. CASE UNCHANGED vars
      BY <2>5 DEF vars
    <2>6. CASE SchedulerTurn
      BY <2>6 DEF SchedulerTurn, LoopEnds, outcome
    <2>7. ASSUME NEW l \in Lane, Acquire(l) PROVE result' = result
      BY <2>1, <2>2, <2>4, <2>7
         DEF Acquire, Setup, SlotCancelled, SlotGranted, LockGranted, LockRefused, AdmissionThrows, EnterLane,
             outcome
    <2>8. ASSUME NEW l \in Lane, Attempt(l) PROVE result' = result
      BY <2>1, <2>3, <2>4, <2>8
         DEF Attempt, AttemptTimesOut, GraceSettled, GraceExpired, BackoffEnds
    <2>9. ASSUME NEW l \in Lane, Release(l) PROVE result' = result
      BY <2>1, <2>9 DEF Release, Unlock, ReleaseLane, DeferredRelease, SkipEnds, outcome
    <2>10. ASSUME NEW l \in Lane, AttemptSettles(l) \/ RunnerSettles(l) PROVE result' = result
      BY <2>1, <2>3, <2>10 DEF AttemptSettles, RunnerSettles, outcome
    <2>11. CASE RequestStop \/ Deadline \/ SwarmTimesOut \/ Close \/ Finalize
      BY <2>11 DEF RequestStop, Deadline, SwarmTimesOut, Close, Finalize, outcome
    <2>. QED BY <2>5, <2>6, <2>7, <2>8, <2>9, <2>10, <2>11 DEF Next, LaneStep
  <1>. QED BY <1>1, PTL DEF Spec, ResultsAreFrozen

-----------------------------------------------------------------------------
(* What a step changes for other lanes than its own *)

\* A node is looked at whenever one it depends on is sealed or failed: it is
\* ready as long as all of them are sealed, and blocked otherwise.
InOrder(g, n) ==
  \A l \in Lane : n[l] \in {"ready", "blocked"} =>
    (n[l] = "ready" <=> \A d \in g[l] : n[d] = "sealed")

\* Lanes outside S are as before, except that ready and blocked are looked at again.
Alike(n, r, S) ==
  \A l \in Lane \ S : /\ r[l] = "sealed" <=> n[l] = "sealed"
                      /\ r[l] = "running" <=> n[l] = "running"
                      /\ r[l] = "failed" <=> n[l] = "failed"

LEMMA MarksAlike ==
  ASSUME NEW g \in [Lane -> SUBSET Lane], NEW n \in [Lane -> NodeStates], NEW S \in SUBSET Lane,
         InOrder(g, n), NEW r \in {markSealed(g, n, S), markFailed(g, n, S)}
  PROVE  Alike(n, r, S) /\ InOrder(g, r)
  <1>1. CASE r = n
    BY <1>1 DEF Alike
  <1>2. ASSUME NEW s \in {"sealed", "failed"},
               r = recomputeBlocked(g, [l \in Lane |-> IF l \in S THEN s ELSE n[l]])
        PROVE  Alike(n, r, S) /\ InOrder(g, r)
    <2> DEFINE m == [l \in Lane |-> IF l \in S THEN s ELSE n[l]]
    <2>1. \A l \in Lane : m[l] = IF l \in S THEN s ELSE n[l]
      OBVIOUS
    <2>2. \A l \in Lane : r[l] = IF m[l] \notin {"ready", "blocked"} THEN m[l]
                                 ELSE IF \E d \in g[l] : m[d] # "sealed" THEN "blocked" ELSE "ready"
      BY <1>2 DEF recomputeBlocked
    <2>3. \A l \in Lane : r[l] = "sealed" <=> m[l] = "sealed"
      BY <2>2
    <2> HIDE DEF m
    <2>4. \A l \in Lane : n[l] \in NodeStates /\ g[l] \subseteq Lane
      OBVIOUS
    <2>5. InOrder(g, r)
      BY <2>2, <2>3, <2>4 DEF InOrder
    <2>6. Alike(n, r, S)
      BY <2>1, <2>2, <2>4 DEF Alike, NodeStates
    <2>. QED BY <2>5, <2>6
  <1>. QED BY <1>1, <1>2 DEF markSealed, markFailed

\* The lanes of S themselves are sealed or failed.
LEMMA Marked ==
  ASSUME NEW g, NEW n, NEW S \in SUBSET Lane, NEW l \in S
  PROVE  markSealed(g, n, S)[l] = "sealed" /\ markFailed(g, n, S)[l] = "failed"
  <1>1. markFailed(g, n, S)[l] = "failed"
    BY DEF markFailed, recomputeBlocked
  <1>2. CASE \A m \in S : n[m] = "sealed"
    BY <1>1, <1>2 DEF markSealed
  <1>3. CASE ~\A m \in S : n[m] = "sealed"
    BY <1>1, <1>3 DEF markSealed, recomputeBlocked
  <1>. QED BY <1>2, <1>3

\* What a step of lane l's call may do to the graph.
GraphMoves(l) ==
  \/ dag' = dag
  \/ dag[l] = "ready" /\ dag' = [dag EXCEPT ![l] = "running"]
  \/ dag' = markSealed(deps, dag, {l})
  \/ dag' = markFailed(deps, dag, {l})

LEMMA GraphMoved ==
  ASSUME TypeOK, InOrder(deps, dag), NEW l \in Lane, GraphMoves(l)
  PROVE  Alike(dag, dag', {l}) /\ InOrder(deps, dag')
  <1>. USE DEF TypeOK
  <1>1. CASE dag' = dag
    BY <1>1 DEF Alike
  <1>2. CASE dag[l] = "ready" /\ dag' = [dag EXCEPT ![l] = "running"]
    <2>1. \A m \in Lane : dag'[m] = IF m = l THEN "running" ELSE dag[m]
      BY <1>2
    <2>2. \A m \in Lane : dag'[m] = "sealed" <=> dag[m] = "sealed"
      BY <1>2, <2>1
    <2>3. \A m \in Lane : deps[m] \subseteq Lane
      OBVIOUS
    <2>. QED BY <2>1, <2>2, <2>3 DEF Alike, InOrder
  <1>3. CASE dag' \in {markSealed(deps, dag, {l}), markFailed(deps, dag, {l})}
    <2>1. {l} \in SUBSET Lane
      OBVIOUS
    <2>. QED BY <1>3, <2>1, MarksAlike
  <1>. QED BY <1>1, <1>2, <1>3 DEF GraphMoves

\* Apart from the graph, other lanes and the parent are left alone.
Elsewhere(l) ==
  /\ OnlyFor(l) /\ UNCHANGED parent
  /\ \A m \in Lane \ {l} : /\ job'[m] = job[m] /\ claim'[m] = claim[m] /\ result'[m] = result[m]
                           /\ m \in reentry' <=> m \in reentry
  /\ scheduler' \in {scheduler, Woken}
  /\ GraphMoves(l)

LEMMA FinallyElsewhere ==
  ASSUME TypeOK, NEW l \in Lane, NEW d \in BOOLEAN, Finally(l, d)
  PROVE  /\ \A m \in Lane \ {l} : job'[m] = job[m] /\ claim'[m] = claim[m]
         /\ scheduler' \in {scheduler, Woken}
  BY DEF TypeOK, Finally, EndJob, Goes

LEMMA ConcludeElsewhere ==
  ASSUME TypeOK, NEW l \in Lane, NEW s, Conclude(l, s, FALSE)
  PROVE  /\ \A m \in Lane \ {l} : /\ job'[m] = job[m] /\ claim'[m] = claim[m]
                                  /\ result'[m] = result[m]
         /\ scheduler' \in {scheduler, Woken}
  BY FinallyElsewhere DEF TypeOK, Conclude, outcome

LEMMA TryAttemptElsewhere ==
  ASSUME TypeOK, NEW l \in Lane, TryAttempt(l)
  PROVE  /\ \A m \in Lane \ {l} : /\ job'[m] = job[m] /\ claim'[m] = claim[m]
                                  /\ result'[m] = result[m] /\ attempt'[m] = attempt[m]
         /\ scheduler' \in {scheduler, Woken}
  BY ConcludeElsewhere, ZenonT(90) DEF TypeOK, TryAttempt, Goes, outcome

LEMMA FailAttemptElsewhere ==
  ASSUME TypeOK, NEW l \in Lane, FailAttempt(l)
  PROVE  /\ \A m \in Lane \ {l} : /\ job'[m] = job[m] /\ claim'[m] = claim[m]
                                  /\ result'[m] = result[m]
         /\ scheduler' \in {scheduler, Woken}
  BY ConcludeElsewhere, ZenonT(90) DEF TypeOK, FailAttempt, Goes, outcome

LEMMA AcquireElsewhere ==
  ASSUME Inv, NEW l \in Lane, Acquire(l)
  PROVE  Elsewhere(l)
  <1>. USE DEF Inv
  <1>1. CASE Setup(l)
    BY <1>1, TryAttemptElsewhere DEF Setup, Elsewhere, OnlyFor, GraphMoves, authority
  <1>2. CASE SlotCancelled(l)
    BY <1>2, ConcludeElsewhere DEF SlotCancelled, Elsewhere, OnlyFor, GraphMoves, authority
  <1>3. CASE SlotGranted(l)
    <2>1. CASE Refused(l) /\ UNCHANGED reentry
      BY <1>3, <2>1, ConcludeElsewhere
         DEF SlotGranted, Refused, Elsewhere, OnlyFor, GraphMoves, authority
    <2>2. CASE /\ reentry' = IF dag[l] = "running" THEN reentry \cup {l} ELSE reentry \ {l}
               /\ Goes(l, IF l \in LockRequired THEN "acquiring" ELSE "admitting")
               /\ UNCHANGED <<claim, outcome>>
      BY <1>3, <2>2
         DEF TypeOK, SlotGranted, Goes, outcome, Elsewhere, OnlyFor, GraphMoves, authority
    <2>. QED BY <1>3, <2>1, <2>2 DEF SlotGranted
  <1>4. CASE LockGranted(l)
    BY <1>4 DEF TypeOK, LockGranted, Goes, outcome, Elsewhere, OnlyFor, GraphMoves
  <1>5. CASE LockRefused(l)
    BY <1>5, ReleaseTypes, ConcludeElsewhere DEF LockRefused, Refused, Elsewhere, OnlyFor, GraphMoves
  <1>6. CASE AdmissionThrows(l)
    BY <1>6, ConcludeElsewhere DEF AdmissionThrows, Refused, Elsewhere, OnlyFor, GraphMoves
  <1>7. CASE EnterLane(l)
    <2>1. GraphMoves(l)
      BY <1>7 DEF EnterLane, GraphMoves, CanMarkRunning, markRunning
    <2>2. OnlyFor(l)
      BY <1>7 DEF EnterLane, OnlyFor, authority
    <2>3. /\ \A m \in Lane \ {l} : job'[m] = job[m] /\ claim'[m] = claim[m] /\ result'[m] = result[m]
          /\ scheduler' \in {scheduler, Woken}
      <3>1. CASE Refused(l)
        BY <3>1, ConcludeElsewhere DEF Refused
      <3>2. CASE /\ claim' = [claim EXCEPT ![l] = IF l \in LockRequired THEN "lock" ELSE "lockless"]
                 /\ Goes(l, Releasing(status[l])) \/ Goes(l, "attempt")
                 /\ UNCHANGED result
        BY <3>2 DEF TypeOK, Goes
      <3>. QED BY <1>7, <3>1, <3>2 DEF EnterLane, outcome
    <2>. QED BY <1>7, <2>1, <2>2, <2>3 DEF EnterLane, Elsewhere
  <1>. QED BY <1>1, <1>2, <1>3, <1>4, <1>5, <1>6, <1>7 DEF Acquire

LEMMA AttemptElsewhere ==
  ASSUME Inv, NEW l \in Lane, Attempt(l) \/ AttemptSettles(l) \/ RunnerSettles(l)
  PROVE  Elsewhere(l)
  <1>. USE DEF Inv
  <1>1. CASE AttemptTimesOut(l)
    BY <1>1 DEF TypeOK, AttemptTimesOut, Goes, Elsewhere, OnlyFor, GraphMoves, authority
  <1>2. CASE GraceSettled(l)
    BY <1>2, ConcludeElsewhere, FailAttemptElsewhere
       DEF GraceSettled, Elsewhere, OnlyFor, GraphMoves, authority
  <1>3. CASE GraceExpired(l)
    BY <1>3, FinallyElsewhere DEF TypeOK, GraceExpired, Elsewhere, OnlyFor, GraphMoves, authority
  <1>4. CASE BackoffEnds(l)
    BY <1>4, TryAttemptElsewhere DEF BackoffEnds, Elsewhere, OnlyFor, GraphMoves, authority
  <1>5. CASE AttemptSettles(l)
    BY <1>5, ConcludeElsewhere, FailAttemptElsewhere
       DEF AttemptSettles, Elsewhere, OnlyFor, GraphMoves, authority
  <1>6. CASE RunnerSettles(l)
    BY <1>6 DEF RunnerSettles, Elsewhere, OnlyFor, GraphMoves, authority, outcome
  <1>. QED BY <1>1, <1>2, <1>3, <1>4, <1>5, <1>6 DEF Attempt

LEMMA ReleaseElsewhere ==
  ASSUME Inv, NEW l \in Lane, Release(l)
  PROVE  Elsewhere(l)
  <1>. USE DEF Inv
  <1>1. CASE Unlock(l)
    <2>1. /\ \A m \in Lane \ {l} : job'[m] = job[m] /\ claim'[m] = claim[m] /\ result'[m] = result[m]
          /\ scheduler' \in {scheduler, Woken}
      <3>1. CASE Conclude(l, "failed", FALSE)
        BY <3>1, ConcludeElsewhere
      <3>2. CASE /\ claim' = [claim EXCEPT ![l] = "none"]
                 /\ EndJob(l) \/ Goes(l, "backoff")
                 /\ UNCHANGED outcome
        BY <3>2 DEF TypeOK, EndJob, Goes, outcome
      <3>. QED BY <1>1, <3>1, <3>2 DEF Unlock
    <2>2. OnlyFor(l)
      BY <1>1, ReleaseTypes DEF Unlock, OnlyFor
    <2>. QED BY <1>1, <2>1, <2>2 DEF Unlock, Elsewhere, GraphMoves
  <1>2. CASE ReleaseLane(l)
    <2>1. OnlyFor(l)
      BY <1>2, ReleaseTypes DEF ReleaseLane, OnlyFor
    <2>. QED BY <1>2, <2>1 DEF TypeOK, ReleaseLane, EndJob, Elsewhere, GraphMoves, outcome
  <1>3. CASE DeferredRelease(l)
    <2>1. OnlyFor(l)
      BY <1>3, ReleaseTypes DEF DeferredRelease, OnlyFor
    <2>. QED BY <1>3, <2>1 DEF DeferredRelease, Elsewhere, GraphMoves, outcome
  <1>4. CASE SkipEnds(l)
    BY <1>4 DEF TypeOK, SkipEnds, EndJob, Elsewhere, OnlyFor, GraphMoves, authority, outcome
  <1>. QED BY <1>1, <1>2, <1>3, <1>4 DEF Release

LEMMA LaneElsewhere ==
  ASSUME Inv, NEW l \in Lane, LaneStep(l) \/ AttemptSettles(l) \/ RunnerSettles(l)
  PROVE  Elsewhere(l)
  BY AcquireElsewhere, AttemptElsewhere, ReleaseElsewhere DEF LaneStep

\* What an iteration does to the nodes: it fails and seals the lanes it says and
\* looks at the others again.
NodesFollow(started, doomed, stuck) ==
  LET failing == Cancelled \cup doomed \cup stuck
      skipped == started \cap Reused
  IN  /\ InOrder(deps, dag')
      /\ \A l \in failing : dag'[l] = "failed"
      /\ \A l \in skipped : dag'[l] = "sealed"
      /\ Alike(dag, dag', failing \cup skipped)
      /\ \A l \in started : \A d \in deps[l] : dag[d] = "sealed"

LEMMA IterateNodes ==
  ASSUME Inv, InOrder(deps, dag), Iterate
  PROVE  \E started, doomed, stuck \in SUBSET pending :
           IterateAs(started, doomed, stuck) /\ NodesFollow(started, doomed, stuck)
  <1>0. PICK started, doomed, stuck \in SUBSET pending : IterateAs(started, doomed, stuck)
    BY IterateShape DEF Inv
  <1> DEFINE n1 == markFailed(deps, dag, Cancelled)
             n2 == markFailed(deps, n1, doomed)
             skipped == started \cap Reused
             n3 == markSealed(deps, n2, skipped)
  <1>1. /\ Cancelled \in SUBSET Lane /\ doomed \in SUBSET Lane /\ skipped \in SUBSET Lane
        /\ stuck \in SUBSET Lane /\ started \in SUBSET Lane
        /\ deps \in [Lane -> SUBSET Lane] /\ dag \in [Lane -> NodeStates]
        /\ \A l \in Lane : deps[l] \subseteq Lane
    BY DEF Inv, TypeOK, Cancelled, skipped
  <1>2. /\ dag' = markFailed(deps, n3, stuck) /\ \A l \in started : n2[l] = "ready"
        /\ started \cap (Cancelled \cup doomed) = {} /\ (stuck # {} => started = {})
    BY <1>0 DEF IterateAs
  <1> HIDE DEF skipped
  <1>3. /\ n1 \in [Lane -> NodeStates] /\ InOrder(deps, n1) /\ Alike(dag, n1, Cancelled)
        /\ \A l \in Cancelled : n1[l] = "failed"
    BY <1>1, MarkTypes, MarksAlike, Marked
  <1> HIDE DEF n1
  <1>4. /\ n2 \in [Lane -> NodeStates] /\ InOrder(deps, n2) /\ Alike(n1, n2, doomed)
        /\ \A l \in doomed : n2[l] = "failed"
    BY <1>1, <1>3, MarkTypes, MarksAlike, Marked
  <1> HIDE DEF n2
  <1>5. /\ n3 \in [Lane -> NodeStates] /\ InOrder(deps, n3) /\ Alike(n2, n3, skipped)
        /\ \A l \in skipped : n3[l] = "sealed"
    BY <1>1, <1>4, MarkTypes, MarksAlike, Marked
  <1> HIDE DEF n3
  <1>6. /\ InOrder(deps, dag') /\ Alike(n3, dag', stuck)
        /\ \A l \in stuck : dag'[l] = "failed"
    BY <1>1, <1>2, <1>5, MarksAlike, Marked
  <1>7. skipped \cap (Cancelled \cup doomed \cup stuck) = {}
    BY <1>2 DEF skipped
  <1>8. /\ \A l \in Cancelled \cup doomed \cup stuck : dag'[l] = "failed"
        /\ \A l \in skipped : dag'[l] = "sealed"
        /\ Alike(dag, dag', Cancelled \cup doomed \cup stuck \cup skipped)
    BY <1>1, <1>3, <1>4, <1>5, <1>6, <1>7 DEF Alike
  <1>9. \A l \in started : \A d \in deps[l] : n2[d] = "sealed"
    BY <1>1, <1>2, <1>4 DEF InOrder
  <1>10. \A d \in Lane : n2[d] = "sealed" => n1[d] = "sealed" /\ dag[d] = "sealed"
    BY <1>3, <1>4 DEF Alike
  <1>11. \A l \in started : \A d \in deps[l] : dag[d] = "sealed"
    BY <1>1, <1>9, <1>10
  <1>12. NodesFollow(started, doomed, stuck)
    BY <1>6, <1>8, <1>11 DEF skipped, NodesFollow
  <1>. QED BY <1>0, <1>12

-----------------------------------------------------------------------------
(* Work is done in the order of the graph *)

\* What a node is in fits where its lane's call stands.
NodeFits(l) ==
  /\ l \in pending => dag[l] \in {"ready", "blocked"}
  /\ dag[l] = "sealed" =>
       job[l] \in {"skipping", "done"} \/ (l \in Advisory /\ job[l] \in {"sealing", "failing"})
  /\ job[l] \in {"attempt", "grace"} => dag[l] = "running"
  /\ job[l] = "sealing" => dag[l] \in {"running", "sealed"}
  /\ l \in reentry /\ job[l] \in {"acquiring", "admitting"} => dag[l] = "running"
  /\ claim[l] # "none" =>
       dag[l] \in {"running", "sealed"} /\ job[l] \notin {"none", "skipping", "done"}
  /\ l \in deferred => dag[l] = "failed"

InSequence == InOrder(deps, dag) /\ \A l \in Lane : NodeFits(l)

\* Ending a call with a claim to release does not end it yet.
LEMMA ConcludeOwn ==
  ASSUME TypeOK, NEW l \in Lane, NEW s \in {"completed", "failed"}, Conclude(l, s, FALSE)
  PROVE  /\ job'[l] \in {"done", "sealing", "failing"} /\ claim' = claim
         /\ job'[l] = "done" <=> claim[l] = "none"
         /\ ~closed /\ s = "completed" => job'[l] \in {"done", "sealing"}
  <1>1. ~closed => status'[l] = s
    BY DEF Conclude, TypeOK
  <1>. QED BY <1>1 DEF Conclude, Finally, EndJob, Goes, Releasing, TypeOK

LEMMA TryAttemptOwn ==
  ASSUME TypeOK, NEW l \in Lane, TryAttempt(l)
  PROVE  /\ job'[l] \in {"slot", "done", "sealing", "failing"} /\ claim' = claim
         /\ job'[l] = "done" => claim[l] = "none"
         /\ job'[l] = "sealing" => claim[l] # "none"
  <1>1. CASE Conclude(l, "failed", FALSE)
    BY <1>1, ConcludeOwn
  <1>2. CASE Goes(l, "slot") /\ UNCHANGED claim
    BY <1>2 DEF Goes, TypeOK
  <1>. QED BY <1>1, <1>2 DEF TryAttempt

LEMMA FailAttemptOwn ==
  ASSUME TypeOK, NEW l \in Lane, FailAttempt(l)
  PROVE  /\ job'[l] \in {"done", "sealing", "failing", "unlocking", "backoff"} /\ claim' = claim
         /\ job'[l] = "done" => claim[l] = "none"
         /\ job'[l] = "sealing" => claim[l] # "none"
         /\ job'[l] = "backoff" => l \notin LockRequired
  <1>1. CASE Conclude(l, "failed", FALSE)
    BY <1>1, ConcludeOwn
  <1>2. CASE l \in LockRequired /\ Goes(l, "unlocking") /\ UNCHANGED claim
    BY <1>2 DEF Goes, TypeOK
  <1>3. CASE l \notin LockRequired /\ Goes(l, "backoff") /\ UNCHANGED claim
    BY <1>3 DEF Goes, TypeOK
  <1>. QED BY <1>1, <1>2, <1>3 DEF FailAttempt

\* How a step of lane l's call takes its work along: not at all, or it begins, is
\* taken up or interrupted, is finished, or is given up.
WorkMoves(l) ==
  \/ dag'[l] = dag[l] /\ (l \in runners' <=> l \in runners)
  \/ dag[l] = "ready" /\ dag'[l] = "running" /\ l \notin runners
  \/ dag[l] = "running" /\ dag'[l] = "running"
  \/ dag[l] = "running" /\ dag'[l] = "sealed" /\ l \notin runners
  \/ /\ dag'[l] = "failed" /\ (l \in runners' => l \in runners)
     /\ dag[l] = "sealed" => l \in Advisory /\ l \notin runners'

\* A call on its way, before any claim of this attempt, is as good as its node.
LEMMA AcquireNode ==
  ASSUME Inv, InSequence, NEW l \in Lane, Acquire(l)
  PROVE  NodeFits(l)' /\ WorkMoves(l)
  <1>. USE DEF Inv
  <1>1. /\ job[l] \in {"setup", "slot", "acquiring", "admitting"}
        /\ UNCHANGED <<pending, deferred>>
    BY DEF Acquire, Setup, SlotCancelled, SlotGranted, LockGranted, LockRefused, AdmissionThrows,
           EnterLane
  <1>2. /\ l \notin pending' /\ l \notin deferred' /\ l \notin runners /\ dag[l] # "sealed"
        /\ claim[l] # "none" => dag[l] = "running"
        /\ l \in reentry /\ job[l] \in {"acquiring", "admitting"} => dag[l] = "running"
    BY <1>1 DEF Watched, PendingNotStarted, DeferredAreDone, RunnersAreWatched, InSequence, NodeFits
  <1>3. CASE /\ UNCHANGED <<dag, claim, runners>>
             /\ job'[l] \in {"slot", "done", "sealing", "failing"}
             /\ job'[l] = "done" => claim[l] = "none"
             /\ job'[l] = "sealing" => claim[l] # "none"
    BY <1>2, <1>3 DEF NodeFits, WorkMoves
  <1>4. CASE Refused(l) /\ UNCHANGED <<dag, runners>>
    BY <1>3, <1>4, ConcludeOwn DEF Refused
  <1>5. CASE Setup(l)
    BY <1>3, <1>5, TryAttemptOwn DEF Setup
  <1>6. CASE SlotCancelled(l)
    BY <1>3, <1>6, ConcludeOwn DEF SlotCancelled
  <1>7. CASE SlotGranted(l)
    <2>1. CASE Refused(l)
      BY <1>4, <1>7, <2>1 DEF SlotGranted
    <2>2. CASE /\ reentry' = IF dag[l] = "running" THEN reentry \cup {l} ELSE reentry \ {l}
               /\ Goes(l, IF l \in LockRequired THEN "acquiring" ELSE "admitting")
               /\ UNCHANGED claim
      <3>1. /\ job'[l] \in {"acquiring", "admitting"} /\ UNCHANGED <<dag, claim, runners>>
            /\ l \in reentry' => dag[l] = "running"
        BY <1>7, <2>2 DEF SlotGranted, Goes, TypeOK
      <3>. QED BY <1>2, <3>1 DEF NodeFits, WorkMoves
    <2>. QED BY <1>7, <2>1, <2>2 DEF SlotGranted
  <1>8. CASE LockGranted(l)
    <2>1. job'[l] = "admitting" /\ UNCHANGED <<dag, claim, runners, reentry>>
      BY <1>8 DEF LockGranted, Goes, TypeOK
    <2>. QED BY <1>2, <1>8, <2>1 DEF LockGranted, NodeFits, WorkMoves
  <1>9. CASE LockRefused(l) \/ AdmissionThrows(l)
    BY <1>4, <1>9 DEF LockRefused, AdmissionThrows
  <1>10. CASE EnterLane(l)
    <2>1. CASE /\ l \in reentry \/ CanMarkRunning(dag, l)
               /\ dag' = IF l \in reentry THEN dag ELSE markRunning(dag, l)
               /\ Goes(l, Releasing(status[l])) \/ Goes(l, "attempt")
      <3>1. /\ dag[l] \in {"ready", "running"} /\ dag'[l] = "running"
            /\ job'[l] \in {"attempt", "sealing", "failing"}
        BY <1>2, <1>10, <2>1
           DEF EnterLane, CanMarkRunning, markRunning, Goes, Releasing, TypeOK
      <3>. QED BY <1>2, <3>1 DEF NodeFits, WorkMoves
    <2>. QED BY <1>4, <1>10, <2>1 DEF EnterLane
  <1>. QED BY <1>5, <1>6, <1>7, <1>8, <1>9, <1>10 DEF Acquire

LEMMA AttemptNode ==
  ASSUME Inv, InSequence, NEW l \in Lane, Attempt(l) \/ AttemptSettles(l)
  PROVE  NodeFits(l)' /\ WorkMoves(l)
  <1>. USE DEF Inv
  <1>1. /\ job[l] \in {"attempt", "grace", "backoff"}
        /\ UNCHANGED pending /\ (GraceExpired(l) \/ UNCHANGED deferred)
    BY DEF Attempt, AttemptTimesOut, GraceSettled, GraceExpired, BackoffEnds, AttemptSettles
  <1>2. /\ l \notin pending' /\ l \notin deferred /\ dag[l] # "sealed"
        /\ job[l] # "backoff" => dag[l] = "running"
        /\ claim[l] # "none" => dag[l] = "running"
    BY <1>1 DEF Watched, PendingNotStarted, DeferredAreDone, InSequence, NodeFits
  <1>3. CASE /\ FailAttempt(l) /\ UNCHANGED <<dag, deferred>> /\ job[l] # "backoff"
    BY <1>2, <1>3, FailAttemptOwn DEF NodeFits, WorkMoves
  <1>4. CASE AttemptTimesOut(l)
    <2>1. job'[l] = "grace" /\ UNCHANGED <<dag, claim, runners, deferred>>
      BY <1>4 DEF AttemptTimesOut, Goes, TypeOK
    <2>. QED BY <1>2, <1>4, <2>1 DEF AttemptTimesOut, NodeFits, WorkMoves
  <1>5. CASE GraceSettled(l)
    <2>1. CASE /\ l \in Advisory /\ dag' = markSealed(deps, dag, {l})
               /\ Conclude(l, "completed", FALSE)
      <3>1. dag'[l] = "sealed"
        BY <2>1, Marked
      <3>2. /\ job'[l] \in {"done", "sealing", "failing"} /\ UNCHANGED <<claim, deferred>>
            /\ job'[l] = "done" => claim[l] = "none"
            /\ l \notin runners
        BY <1>5, <2>1, ConcludeOwn DEF GraceSettled
      <3>. QED BY <1>2, <1>5, <2>1, <3>1, <3>2 DEF GraceSettled, NodeFits, WorkMoves
    <2>2. CASE FailAttempt(l) /\ UNCHANGED dag
      BY <1>3, <1>5, <2>2 DEF GraceSettled
    <2>. QED BY <1>5, <2>1, <2>2 DEF GraceSettled
  <1>6. CASE GraceExpired(l)
    <2>1. dag'[l] = "failed" /\ UNCHANGED runners
      BY <1>6, Marked DEF GraceExpired
    <2>2. job'[l] = "done" /\ claim'[l] = "none"
      BY <1>6 DEF GraceExpired, Finally, EndJob, TypeOK
    <2>. QED BY <1>2, <2>1, <2>2 DEF NodeFits, WorkMoves
  <1>7. CASE BackoffEnds(l)
    <2>1. UNCHANGED <<dag, runners, deferred>>
      BY <1>7 DEF BackoffEnds
    <2>. QED BY <1>2, <1>7, <2>1, TryAttemptOwn DEF BackoffEnds, NodeFits, WorkMoves
  <1>8. CASE AttemptSettles(l)
    <2>1. CASE Conclude(l, "completed", FALSE)
      <3>1. UNCHANGED <<dag, deferred>> /\ job[l] = "attempt"
        BY <1>8 DEF AttemptSettles
      <3>. QED BY <1>2, <2>1, <3>1, ConcludeOwn DEF NodeFits, WorkMoves
    <2>. QED BY <1>3, <1>8, <2>1 DEF AttemptSettles
  <1>. QED BY <1>4, <1>5, <1>6, <1>7, <1>8 DEF Attempt

LEMMA ReleaseNode ==
  ASSUME Inv, InSequence, NEW l \in Lane, Release(l) \/ RunnerSettles(l)
  PROVE  NodeFits(l)' /\ WorkMoves(l)
  <1>. USE DEF Inv
  <1>1. CASE Unlock(l)
    <2>1. /\ l \notin pending' /\ l \notin deferred' /\ dag[l] # "sealed"
          /\ claim[l] # "none" => dag[l] = "running"
          /\ UNCHANGED <<dag, runners>>
      BY <1>1 DEF Unlock, Watched, PendingNotStarted, DeferredAreDone, InSequence, NodeFits
    <2>2. CASE /\ claim' = [claim EXCEPT ![l] = "none"]
               /\ IF closed THEN EndJob(l) ELSE Goes(l, "backoff")
      <3>1. claim'[l] = "none" /\ job'[l] \in {"done", "backoff"}
        BY <2>2 DEF EndJob, Goes, TypeOK
      <3>. QED BY <2>1, <3>1 DEF NodeFits, WorkMoves
    <2>3. CASE Conclude(l, "failed", FALSE)
      BY <2>1, <2>3, ConcludeOwn DEF NodeFits, WorkMoves
    <2>. QED BY <1>1, <2>2, <2>3 DEF Unlock
  <1>2. CASE ReleaseLane(l)
    <2>1. /\ l \notin pending' /\ l \notin deferred' /\ l \notin runners
          /\ job'[l] = "done" /\ claim'[l] = "none" /\ UNCHANGED runners
      BY <1>2 DEF ReleaseLane, EndJob, TypeOK, Watched, PendingNotStarted, DeferredAreDone,
                  RunnersAreWatched
    <2>2. CASE job[l] = "sealing" /\ dag' = markSealed(deps, dag, {l})
      <3>1. dag'[l] = "sealed"
        BY <2>2, Marked
      <3>2. dag[l] \in {"running", "sealed"}
        BY <2>2 DEF InSequence, NodeFits
      <3>. QED BY <2>1, <3>1, <3>2 DEF NodeFits, WorkMoves
    <2>3. CASE dag' = markFailed(deps, dag, {l})
      <3>1. dag'[l] = "failed"
        BY <2>3, Marked
      <3>2. dag[l] = "sealed" => l \in Advisory
        BY <1>2 DEF ReleaseLane, InSequence, NodeFits
      <3>. QED BY <2>1, <3>1, <3>2 DEF NodeFits, WorkMoves
    <2>. QED BY <1>2, <2>2, <2>3 DEF ReleaseLane
  <1>3. CASE DeferredRelease(l)
    <2>1. /\ dag[l] = "failed" /\ job[l] = "done" /\ l \notin pending /\ claim[l] = "none"
          /\ UNCHANGED <<pending, job, claim, runners>>
      BY <1>3 DEF DeferredRelease, Watched, PendingNotStarted, DeferredAreDone, InSequence, NodeFits
    <2>2. dag'[l] = "failed"
      BY <1>3, Marked DEF DeferredRelease
    <2>. QED BY <2>1, <2>2 DEF NodeFits, WorkMoves
  <1>4. CASE SkipEnds(l)
    <2>1. /\ job'[l] = "done" /\ claim[l] = "none" /\ UNCHANGED <<pending, dag, claim, runners>>
          /\ l \notin pending /\ l \notin deferred'
      BY <1>4 DEF SkipEnds, EndJob, TypeOK, Watched, PendingNotStarted, DeferredAreDone,
                  InSequence, NodeFits
    <2>. QED BY <2>1 DEF NodeFits, WorkMoves
  <1>5. CASE RunnerSettles(l)
    <2>1. UNCHANGED <<pending, dag, job, claim, reentry, deferred>> /\ l \notin runners'
      BY <1>5 DEF RunnerSettles
    <2>2. NodeFits(l)'
      BY <2>1 DEF InSequence, NodeFits
    <2>3. dag[l] \in {"running", "failed"}
      BY <1>5 DEF RunnerSettles, Watched, RunnersAreWatched, InSequence, NodeFits
    <2>. QED BY <2>1, <2>2, <2>3 DEF WorkMoves
  <1>. QED BY <1>1, <1>2, <1>3, <1>4, <1>5 DEF Release

LEMMA LaneNode ==
  ASSUME Inv, InSequence, NEW l \in Lane, LaneStep(l) \/ AttemptSettles(l) \/ RunnerSettles(l)
  PROVE  NodeFits(l)' /\ WorkMoves(l)
  BY AcquireNode, AttemptNode, ReleaseNode DEF LaneStep

LEMMA LaneSequence ==
  ASSUME Inv, InSequence, NEW l \in Lane, LaneStep(l) \/ AttemptSettles(l) \/ RunnerSettles(l)
  PROVE  InSequence' /\ Alike(dag, dag', {l})
  <1>1. Elsewhere(l)
    BY LaneElsewhere
  <1>2. Alike(dag, dag', {l}) /\ InOrder(deps, dag)'
    BY <1>1, GraphMoved DEF Inv, InSequence, Elsewhere, parent, InOrder
  <1>3. NodeFits(l)'
    BY LaneNode
  <1>4. ASSUME NEW m \in Lane \ {l} PROVE NodeFits(m)'
    <2>1. /\ job'[m] = job[m] /\ claim'[m] = claim[m] /\ pending' = pending
          /\ m \in deferred' <=> m \in deferred
          /\ m \in reentry' <=> m \in reentry
      BY <1>1 DEF Elsewhere, OnlyFor
    <2>2. /\ dag'[m] = "sealed" <=> dag[m] = "sealed"
          /\ dag'[m] = "running" <=> dag[m] = "running"
          /\ dag'[m] = "failed" <=> dag[m] = "failed"
          /\ dag[m] \in NodeStates /\ dag'[m] \in NodeStates
      <3>1. Inv'
        BY StepInv DEF Next
      <3>. QED BY <1>2, <3>1 DEF Alike, Inv, TypeOK
    <2>3. dag[m] \in {"ready", "blocked"} => dag'[m] \in {"ready", "blocked"}
      BY <2>2 DEF NodeStates
    <2>4. NodeFits(m)
      BY DEF InSequence
    <2>. QED BY <2>1, <2>2, <2>3, <2>4 DEF NodeFits
  <1>. QED BY <1>2, <1>3, <1>4 DEF InSequence

\* What a turn of the loop means to each lane.
LEMMA TurnNodes ==
  ASSUME Inv, InSequence, Iterate
  PROVE  \E started, failing \in SUBSET pending :
           /\ started \cap failing = {}
           /\ pending' = pending \ (started \cup failing)
           /\ \A l \in Lane : job'[l] = IF l \in started \cap Reused THEN "skipping"
                                         ELSE IF l \in started THEN "setup" ELSE job[l]
           /\ \A l \in failing : dag'[l] = "failed"
           /\ \A l \in started \cap Reused : dag'[l] = "sealed"
           /\ Alike(dag, dag', failing \cup (started \cap Reused))
           /\ \A l \in started : \A d \in deps[l] : dag[d] = "sealed"
           /\ InOrder(deps, dag')
  <1>1. PICK started, doomed, stuck \in SUBSET pending :
          IterateAs(started, doomed, stuck) /\ NodesFollow(started, doomed, stuck)
    BY IterateNodes DEF InSequence
  <1> DEFINE failing == Cancelled \cup doomed \cup stuck
  <1>2. failing \in SUBSET pending
    BY DEF Cancelled
  <1>3. /\ started \cap failing = {} /\ pending' = pending \ (started \cup failing)
        /\ \A l \in Lane : job'[l] = IF l \in started \cap Reused THEN "skipping"
                                      ELSE IF l \in started THEN "setup" ELSE job[l]
    BY <1>1 DEF IterateAs
  <1>4. /\ \A l \in failing : dag'[l] = "failed"
        /\ \A l \in started \cap Reused : dag'[l] = "sealed"
        /\ Alike(dag, dag', failing \cup (started \cap Reused))
        /\ \A l \in started : \A d \in deps[l] : dag[d] = "sealed"
        /\ InOrder(deps, dag')
    BY <1>1 DEF NodesFollow
  <1> HIDE DEF failing
  <1>. QED BY <1>2, <1>3, <1>4

LEMMA TurnSequence ==
  ASSUME Inv, InSequence, SchedulerTurn
  PROVE  InSequence'
  <1>1. UNCHANGED <<deps, reentry, claim, deferred>>
    BY DEF SchedulerTurn, parent
  <1>2. CASE UNCHANGED <<dag, pending, job>>
    BY <1>1, <1>2 DEF InSequence, InOrder, NodeFits
  <1>3. CASE Iterate
    <2>1. PICK started, failing \in SUBSET pending :
            /\ started \cap failing = {}
            /\ pending' = pending \ (started \cup failing)
            /\ \A l \in Lane : job'[l] = IF l \in started \cap Reused THEN "skipping"
                                          ELSE IF l \in started THEN "setup" ELSE job[l]
            /\ \A l \in failing : dag'[l] = "failed"
            /\ \A l \in started \cap Reused : dag'[l] = "sealed"
            /\ Alike(dag, dag', failing \cup (started \cap Reused))
            /\ InOrder(deps, dag')
      BY <1>3, TurnNodes
    <2>2. InOrder(deps, dag)'
      BY <1>1, <2>1 DEF InOrder
    <2>3. \A l \in pending : /\ job[l] = "none" /\ l \notin deferred /\ claim[l] = "none"
                             /\ dag[l] \in {"ready", "blocked"}
      BY DEF Inv, TypeOK, Watched, PendingNotStarted, DeferredAreDone, InSequence, NodeFits
    <2>4. dag \in [Lane -> NodeStates] /\ dag' \in [Lane -> NodeStates]
      BY SchedulerTurnInv DEF Inv, TypeOK
    <2>5. ASSUME NEW l \in Lane PROVE NodeFits(l)'
      <3>1. NodeFits(l)
        BY DEF InSequence
      <3>2. CASE l \in failing
        BY <1>1, <2>1, <2>3, <3>2 DEF NodeFits
      <3>3. CASE l \in started \cap Reused
        BY <1>1, <2>1, <2>3, <3>3 DEF NodeFits
      <3>4. CASE l \in started \ Reused
        <4>1. /\ job'[l] = "setup" /\ l \notin pending' /\ l \notin deferred' /\ claim'[l] = "none"
              /\ dag'[l] # "sealed"
          BY <1>1, <2>1, <2>3, <3>4 DEF Alike
        <4>. QED BY <4>1 DEF NodeFits
      <3>5. CASE l \notin started \cup failing
        <4>1. /\ job'[l] = job[l] /\ (l \in pending' <=> l \in pending)
              /\ dag'[l] = "sealed" <=> dag[l] = "sealed"
              /\ dag'[l] = "running" <=> dag[l] = "running"
              /\ dag'[l] = "failed" <=> dag[l] = "failed"
          BY <2>1, <3>5 DEF Alike
        <4>2. dag[l] \in {"ready", "blocked"} => dag'[l] \in {"ready", "blocked"}
          BY <2>4, <4>1 DEF NodeStates
        <4>. QED BY <1>1, <3>1, <4>1, <4>2 DEF NodeFits
      <3>. QED BY <3>2, <3>3, <3>4, <3>5
    <2>. QED BY <2>2, <2>5 DEF InSequence
  <1>. QED BY <1>2, <1>3 DEF SchedulerTurn

\* The parent's steps leave the graph and the calls alone.
LEMMA ParentSequence ==
  ASSUME RequestStop \/ Deadline \/ SwarmTimesOut \/ Close \/ Finalize \/ UNCHANGED vars
  PROVE  /\ UNCHANGED <<deps, dag, pending, job, reentry, claim, deferred, runners>>
         /\ InSequence => InSequence'
  <1>1. UNCHANGED <<deps, dag, pending, job, reentry, claim, deferred, runners>>
    BY DEF RequestStop, Deadline, SwarmTimesOut, Close, Finalize, vars, parent
  <1>. QED BY <1>1 DEF InSequence, InOrder, NodeFits

LEMMA InitSequence == ASSUME Init PROVE InSequence
  <1>1. deps \in [Lane -> SUBSET Lane]
    BY GraphsAssumption DEF Init
  <1>2. \A l \in Lane : dag[l] = IF \E d \in deps[l] : TRUE THEN "blocked" ELSE "ready"
    BY <1>1 DEF Init, InitialDag, recomputeBlocked
  <1>. QED BY <1>1, <1>2 DEF Init, InSequence, InOrder, NodeFits

LEMMA StepSequence == Inv /\ InSequence /\ [Next]_vars => InSequence'
  BY TurnSequence, LaneSequence, ParentSequence DEF Next

\* The state of each lane's work, as RefinesOrderedWork maps it.
workState ==
  [l \in Lane |-> IF dag[l] = "sealed" THEN "finished"
                  ELSE IF l \in runners THEN "working"
                  ELSE IF dag[l] = "running" THEN "begun" ELSE "waiting"]

\* A step of a lane's call is a step of its work, or none.
LEMMA LaneIsWork ==
  ASSUME Inv, InSequence, NEW l \in Lane, LaneStep(l) \/ AttemptSettles(l) \/ RunnerSettles(l)
  PROVE  Work!Next \/ UNCHANGED <<deps, workState>>
  <1>1. WorkMoves(l) /\ Alike(dag, dag', {l}) /\ Elsewhere(l)
    BY LaneNode, LaneSequence, LaneElsewhere
  <1>2. deps' = deps /\ \A m \in Lane \ {l} : workState'[m] = workState[m]
    BY <1>1 DEF Alike, Elsewhere, OnlyFor, parent, workState
  <1>3. /\ workState \in [Lane -> {"finished", "working", "begun", "waiting"}]
        /\ workState' = [workState EXCEPT ![l] = workState'[l]]
    <2>1. \A m \in Lane : workState'[m] = [workState EXCEPT ![l] = workState'[l]][m]
      BY <1>2 DEF workState
    <2>. QED BY <2>1 DEF workState
  <1>4. /\ workState[l] = IF dag[l] = "sealed" THEN "finished"
                          ELSE IF l \in runners THEN "working"
                          ELSE IF dag[l] = "running" THEN "begun" ELSE "waiting"
        /\ workState'[l] = IF dag'[l] = "sealed" THEN "finished"
                           ELSE IF l \in runners' THEN "working"
                           ELSE IF dag'[l] = "running" THEN "begun" ELSE "waiting"
    BY DEF workState
  <1>5. CASE workState'[l] = workState[l]
    <2>1. workState' = workState
      BY <1>3, <1>5
    <2>. QED BY <1>2, <2>1
  <1>6. CASE dag[l] = "ready" /\ dag'[l] = "running" /\ l \notin runners
    <2>1. \A d \in deps[l] : dag[d] = "sealed" /\ d \in Lane
      BY <1>6 DEF InSequence, InOrder, Inv, TypeOK
    <2>2. \A d \in deps[l] : workState[d] = "finished"
      BY <2>1 DEF workState
    <2>3. workState[l] = "waiting" /\ workState'[l] \in {"begun", "working"}
      BY <1>4, <1>6
    <2>4. Work!Begin(l)
      BY <1>2, <1>3, <2>2, <2>3 DEF Work!Begin, Work!Available, workState
    <2>. QED BY <2>4 DEF Work!Next
  <1>7. CASE workState[l] = "begun" /\ workState'[l] = "working"
    <2>1. Work!Resume(l)
      BY <1>2, <1>3, <1>7 DEF Work!Resume, workState
    <2>. QED BY <2>1 DEF Work!Next
  <1>8. CASE workState[l] = "working" /\ workState'[l] = "begun"
    <2>1. Work!Interrupt(l)
      BY <1>2, <1>3, <1>8 DEF Work!Interrupt, workState
    <2>. QED BY <2>1 DEF Work!Next
  <1>9. CASE workState[l] \in {"begun", "working"} /\ workState'[l] = "waiting"
    <2>1. Work!Abandon(l)
      BY <1>2, <1>3, <1>9 DEF Work!Abandon, workState
    <2>. QED BY <2>1 DEF Work!Next
  <1>10. CASE workState[l] = "begun" /\ workState'[l] = "finished"
    <2>1. workState' = [m \in Lane |-> IF m \in {l} THEN "finished" ELSE workState[m]]
      BY <1>3, <1>10
    <2>2. Work!Finish({l})
      BY <1>2, <1>10, <2>1 DEF Work!Finish, workState
    <2>. QED BY <2>2 DEF Work!Next
  <1>11. CASE l \in Advisory /\ workState[l] = "finished" /\ workState'[l] = "waiting"
    <2>1. Work!Withdraw(l)
      BY <1>2, <1>3, <1>11 DEF Work!Withdraw, workState
    <2>. QED BY <2>1 DEF Work!Next
  <1>. QED BY <1>1, <1>4, <1>5, <1>6, <1>7, <1>8, <1>9, <1>10, <1>11 DEF WorkMoves

\* The scheduler's loop only finishes the lanes it skips.
LEMMA TurnIsWork ==
  ASSUME Inv, InSequence, SchedulerTurn
  PROVE  Work!Next \/ UNCHANGED <<deps, workState>>
  <1>1. UNCHANGED <<deps, runners>>
    BY DEF SchedulerTurn, parent
  <1>2. CASE UNCHANGED dag
    BY <1>1, <1>2 DEF workState
  <1>3. CASE Iterate
    <2>1. PICK started, failing \in SUBSET pending :
            /\ \A l \in failing : dag'[l] = "failed"
            /\ \A l \in started \cap Reused : dag'[l] = "sealed"
            /\ Alike(dag, dag', failing \cup (started \cap Reused))
            /\ \A l \in started : \A d \in deps[l] : dag[d] = "sealed"
      BY <1>3, TurnNodes
    <2> DEFINE skipped == started \cap Reused
    <2>2. /\ skipped \in SUBSET Lane /\ failing \in SUBSET Lane
          /\ \A l \in skipped \cup failing : l \notin runners /\ dag[l] \in {"ready", "blocked"}
          /\ \A l \in skipped : \A d \in deps[l] : d \in Lane
      BY DEF Inv, TypeOK, Watched, PendingNotStarted, RunnersAreWatched, DeferredAreDone,
             InSequence, NodeFits
    <2>3. \A l \in skipped : workState[l] = "waiting" /\ \A d \in deps[l] : workState[d] = "finished"
      BY <2>1, <2>2 DEF workState
    <2>4. ASSUME NEW l \in Lane
          PROVE  workState'[l] = IF l \in skipped THEN "finished" ELSE workState[l]
      <3>1. CASE l \in skipped
        BY <2>1, <3>1 DEF workState
      <3>2. CASE l \in failing \ skipped
        BY <1>1, <2>1, <2>2, <3>2 DEF workState
      <3>3. CASE l \notin failing \cup skipped
        BY <1>1, <2>1, <3>3 DEF workState, Alike
      <3>. QED BY <3>1, <3>2, <3>3
    <2> HIDE DEF skipped
    <2>5. workState' = [l \in Lane |-> IF l \in skipped THEN "finished" ELSE workState[l]]
      BY <2>4 DEF workState
    <2>6. Work!Finish(skipped)
      BY <1>1, <2>3, <2>5 DEF Work!Finish, Work!Available, workState
    <2>. QED BY <2>2, <2>6 DEF Work!Next
  <1>. QED BY <1>2, <1>3 DEF SchedulerTurn

LEMMA StepIsWork ==
  ASSUME Inv, InSequence, [Next]_vars
  PROVE  Work!Next \/ UNCHANGED <<deps, workState>>
  <1>1. CASE RequestStop \/ Deadline \/ SwarmTimesOut \/ Close \/ Finalize \/ UNCHANGED vars
    BY <1>1, ParentSequence DEF workState
  <1>. QED BY <1>1, TurnIsWork, LaneIsWork DEF Next

\* Every swarm does its work in the order of the graph: a lane's node is entered
\* only when all it depends on is sealed, a runner is at work only on a node that
\* was entered, and what is sealed stays sealed, but for an advisory lane whose
\* release failed after its timeout; over retries, refusals, throws, stops, the
\* deadline and deferred cleanups.
THEOREM Refinement == Spec => RefinesOrderedWork
  <1>1. Init => Inv /\ InSequence /\ Work!Init
    <2>1. ASSUME Init PROVE Work!Init
      <3>1. deps \in [Lane -> SUBSET Lane]
        BY <2>1, GraphsAssumption DEF Init
      <3>2. workState = [l \in Lane |-> "waiting"]
        BY <2>1, <3>1 DEF Init, InitialDag, recomputeBlocked, workState
      <3>. QED BY <3>1, <3>2 DEF Work!Init, workState
    <2>. QED BY <2>1, InitInv, InitSequence
  <1>2. Inv /\ InSequence /\ [Next]_vars => [Work!Next]_(Work!vars)
    BY StepIsWork DEF Work!vars, workState
  <1>. QED BY <1>1, <1>2, StepInv, StepSequence, PTL DEF Spec, RefinesOrderedWork, Work!Spec

=============================================================================

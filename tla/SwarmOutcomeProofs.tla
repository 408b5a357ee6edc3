-------------------------- MODULE SwarmOutcomeProofs --------------------------
(***************************************************************************)
(* What a swarm leaves behind, for every set of lanes and graphs and all   *)
(* limits: the slots of the execution pool, the results and the locks.     *)
(***************************************************************************)
EXTENDS SwarmSchedulerProofs, FiniteSetTheorems

-----------------------------------------------------------------------------
(* Slots of the execution pool *)

SlotJobs == {"slot", "acquiring", "admitting", "attempt", "grace", "unlocking"}

\* A lane past the pool's queue has a slot, a queued lane has none, and there is
\* a queue only when all slots are taken.
SlotsFit ==
  /\ \A l \in slots : job[l] \in SlotJobs
  /\ \A l \in waiters : job[l] = "slot" /\ l \notin slots
  /\ \A l \in Lane : job[l] \in SlotJobs \ {"slot"} => l \in slots
  /\ IsFiniteSet(slots) /\ Cardinality(slots) <= Capacity
  /\ waiters # {} => Cardinality(slots) = Capacity

LEMMA SlotsStay ==
  ASSUME Inv, SlotsFit, NEW l \in Lane, NEW p, Moves(l, p), UNCHANGED pool,
         l \in slots => p \in SlotJobs, l \in waiters => p = "slot",
         p \in SlotJobs \ {"slot"} => l \in slots
  PROVE  SlotsFit'
  BY DEF Inv, TypeOK, SlotsFit, Moves, pool

\* A slot is given back: a waiter has it, or nobody waits.
LEMMA SlotFreed ==
  ASSUME Inv, SlotsFit, NEW l \in slots, NEW p, Moves(l, p), FreeSlot(l), p \notin SlotJobs
  PROVE  SlotsFit'
  <1>. USE DEF Inv, TypeOK
  <1>1. l \in Lane /\ \A m \in Lane : job'[m] = IF m = l THEN p ELSE job[m]
    BY DEF Moves
  <1>2. /\ IsFiniteSet(slots \ {l}) /\ Cardinality(slots \ {l}) = Cardinality(slots) - 1
        /\ Cardinality(slots) \in Nat
    BY FS_RemoveElement, FS_CardinalityType DEF SlotsFit
  <1>3. CASE waiters = {} /\ slots' = slots \ {l} /\ UNCHANGED waiters
    <2>1. Cardinality(slots') <= Capacity
      BY <1>2, <1>3, LimitsAssumption DEF SlotsFit
    <2>. QED BY <1>1, <1>2, <1>3, <2>1 DEF SlotsFit
  <1>4. ASSUME NEW w \in waiters, slots' = (slots \ {l}) \cup {w}, waiters' = waiters \ {w}
        PROVE  SlotsFit'
    <2>1. w \in Lane /\ job[w] = "slot" /\ w \notin slots /\ w # l
      BY DEF SlotsFit
    <2>2. IsFiniteSet(slots') /\ Cardinality(slots') = Cardinality(slots)
      <3>1. /\ IsFiniteSet((slots \ {l}) \cup {w})
            /\ Cardinality((slots \ {l}) \cup {w}) = Cardinality(slots \ {l}) + 1
        BY <1>2, <2>1, FS_AddElement
      <3>. QED BY <1>2, <1>4, <3>1
    <2>3. job'[w] = "slot"
      BY <1>1, <2>1
    <2>4. Cardinality(slots') = Capacity
      BY <2>2 DEF SlotsFit
    <2>5. \A m \in slots' : job'[m] \in SlotJobs
      BY <1>1, <1>4, <2>3 DEF SlotsFit, SlotJobs
    <2>6. \A m \in waiters' : job'[m] = "slot" /\ m \notin slots'
      <3>1. \A m \in waiters' : m \in Lane /\ m \notin slots' /\ m # l /\ job[m] = "slot"
        BY <1>4 DEF SlotsFit
      <3>. QED BY <1>1, <3>1
    <2>7. \A m \in Lane : job'[m] \in SlotJobs \ {"slot"} => m \in slots'
      BY <1>1, <1>4 DEF SlotsFit
    <2>. QED BY <2>2, <2>4, <2>5, <2>6, <2>7, LimitsAssumption DEF SlotsFit
  <1>. QED BY <1>3, <1>4 DEF FreeSlot

\* The signal of a stop empties the queue and leaves the slots to their lanes.
LEMMA QueueDropped ==
  ASSUME Inv, SlotsFit, waiters' = {}, UNCHANGED <<job, slots>>
  PROVE  SlotsFit'
  BY DEF SlotsFit

LEMMA SlotDropped ==
  ASSUME Inv, SlotsFit, NEW l \in Lane, NEW p, Moves(l, p), p \notin SlotJobs,
         slots' = slots \ {l}, waiters' = {}
  PROVE  SlotsFit'
  <1>1. /\ IsFiniteSet(slots \ {l}) /\ Cardinality(slots \ {l}) <= Cardinality(slots)
        /\ Cardinality(slots) \in Nat /\ Cardinality(slots \ {l}) \in Nat
    <2>1. IsFiniteSet(slots) /\ slots \ {l} \in SUBSET slots
      BY DEF SlotsFit
    <2>2. IsFiniteSet(slots \ {l}) /\ Cardinality(slots \ {l}) <= Cardinality(slots)
      BY <2>1, FS_Subset
    <2>. QED BY <2>1, <2>2, FS_CardinalityType
  <1>2. Cardinality(slots') <= Capacity
    BY <1>1, LimitsAssumption DEF SlotsFit
  <1>3. \A m \in Lane : job'[m] = IF m = l THEN p ELSE job[m]
    BY DEF Inv, TypeOK, Moves
  <1>4. /\ \A m \in slots' : job'[m] \in SlotJobs
        /\ \A m \in Lane : job'[m] \in SlotJobs \ {"slot"} => m \in slots'
    BY <1>3 DEF Inv, TypeOK, SlotsFit
  <1>. QED BY <1>1, <1>2, <1>4 DEF SlotsFit

\* A lane without a slot ends its call.
LEMMA EndsWithoutSlot ==
  ASSUME Inv, SlotsFit, NEW l \in Lane, l \notin slots, l \notin waiters, UNCHANGED pool,
         NEW s \in {"completed", "failed"}, Conclude(l, s, FALSE)
  PROVE  SlotsFit'
  <1>1. PICK p \in {"done", "sealing", "failing"} : Moves(l, p)
    BY ConcludeMoves DEF Inv
  <1>. QED BY <1>1, SlotsStay DEF SlotJobs

LEMMA TryAttemptSlots ==
  ASSUME Inv, SlotsFit, NEW l \in Lane, job[l] \in {"setup", "backoff"}, TryAttempt(l)
  PROVE  SlotsFit'
  <1>1. l \notin slots /\ l \notin waiters
    BY DEF SlotsFit, SlotJobs
  <1>2. CASE Conclude(l, "failed", FALSE) /\ UNCHANGED pool
    BY <1>1, <1>2, EndsWithoutSlot
  <1>3. CASE Goes(l, "slot") /\ Cardinality(slots) < Capacity /\ slots' = slots \cup {l} /\ UNCHANGED waiters
    <2>1. IsFiniteSet(slots') /\ Cardinality(slots') = Cardinality(slots) + 1 /\ Cardinality(slots) \in Nat
      BY <1>1, <1>3, FS_AddElement, FS_CardinalityType DEF SlotsFit
    <2>2. Cardinality(slots') <= Capacity /\ waiters = {}
      BY <1>3, <2>1, LimitsAssumption DEF SlotsFit
    <2>. QED BY <1>1, <1>3, <2>1, <2>2 DEF Inv, TypeOK, SlotsFit, SlotJobs, Goes
  <1>4. CASE Goes(l, "slot") /\ ~(Cardinality(slots) < Capacity) /\ waiters' = waiters \cup {l} /\ UNCHANGED slots
    <2>1. Cardinality(slots) = Capacity
      BY <1>4, LimitsAssumption, FS_CardinalityType DEF SlotsFit
    <2>. QED BY <1>1, <1>4, <2>1 DEF Inv, TypeOK, SlotsFit, SlotJobs, Goes
  <1>. QED BY <1>2, <1>3, <1>4 DEF TryAttempt, pool

\* A lane with a slot ends its attempt, and maybe its call.
LEMMA FailAttemptSlots ==
  ASSUME Inv, SlotsFit, NEW l \in slots, FailAttempt(l)
  PROVE  SlotsFit'
  <1>1. l \in Lane
    BY DEF Inv, TypeOK
  <1>2. CASE Goes(l, "unlocking") /\ UNCHANGED pool
    <2>1. Moves(l, "unlocking")
      BY <1>2 DEF Goes, Moves
    <2>. QED BY <1>1, <1>2, <2>1, SlotsStay DEF SlotJobs, SlotsFit
  <1>3. CASE Goes(l, "backoff") /\ FreeSlot(l)
    BY <1>3, SlotFreed DEF SlotJobs, Goes, Moves
  <1>4. CASE Conclude(l, "failed", FALSE) /\ FreeSlot(l)
    <2>1. PICK p \in {"done", "sealing", "failing"} : Moves(l, p)
      BY <1>1, <1>4, ConcludeMoves DEF Inv
    <2>. QED BY <1>4, <2>1, SlotFreed DEF SlotJobs
  <1>. QED BY <1>2, <1>3, <1>4 DEF FailAttempt

LEMMA ConcludeSlots ==
  ASSUME Inv, SlotsFit, NEW l \in slots, NEW s \in {"completed", "failed"}, Conclude(l, s, FALSE),
         FreeSlot(l)
  PROVE  SlotsFit'
  <1>1. PICK p \in {"done", "sealing", "failing"} : Moves(l, p)
    BY ConcludeMoves DEF Inv, TypeOK
  <1>. QED BY <1>1, SlotFreed DEF SlotJobs

LEMMA AcquireSlots ==
  ASSUME Inv, SlotsFit, NEW l \in Lane, Acquire(l)
  PROVE  SlotsFit'
  <1>1. CASE Setup(l)
    BY <1>1, TryAttemptSlots DEF Setup
  <1>2. CASE SlotCancelled(l)
    BY <1>2, EndsWithoutSlot DEF SlotCancelled
  <1>3. CASE SlotGranted(l)
    <2>1. CASE Refused(l)
      BY <1>3, <2>1, ConcludeSlots DEF SlotGranted, Refused
    <2>2. CASE Goes(l, IF l \in LockRequired THEN "acquiring" ELSE "admitting") /\ UNCHANGED pool
      <3>1. PICK p \in {"acquiring", "admitting"} : Moves(l, p)
        BY <2>2 DEF Goes, Moves
      <3>. QED BY <1>3, <2>2, <3>1, SlotsStay DEF SlotJobs, SlotGranted, SlotsFit
    <2>. QED BY <1>3, <2>1, <2>2 DEF SlotGranted
  <1>4. CASE LockGranted(l)
    <2>1. Moves(l, "admitting") /\ l \in slots /\ l \notin waiters /\ UNCHANGED pool
      BY <1>4 DEF LockGranted, Goes, Moves, SlotsFit, SlotJobs
    <2>. QED BY <2>1, SlotsStay DEF SlotJobs
  <1>5. CASE LockRefused(l) \/ AdmissionThrows(l)
    <2>1. l \in slots
      BY <1>5 DEF LockRefused, AdmissionThrows, SlotsFit, SlotJobs
    <2>. QED BY <1>5, <2>1, ConcludeSlots DEF LockRefused, AdmissionThrows, Refused
  <1>6. CASE EnterLane(l)
    <2>1. l \in slots
      BY <1>6 DEF EnterLane, SlotsFit, SlotJobs
    <2>2. CASE Refused(l)
      BY <2>1, <2>2, ConcludeSlots DEF Refused
    <2>3. CASE Goes(l, Releasing(status[l])) /\ FreeSlot(l)
      <3>1. PICK p \in {"sealing", "failing"} : Moves(l, p)
        BY <2>3 DEF Goes, Moves, Releasing
      <3>. QED BY <2>1, <2>3, <3>1, SlotFreed DEF SlotJobs
    <2>4. CASE Goes(l, "attempt") /\ UNCHANGED pool
      <3>1. Moves(l, "attempt") /\ l \notin waiters
        BY <2>1, <2>4 DEF Goes, Moves, SlotsFit
      <3>. QED BY <2>1, <2>4, <3>1, SlotsStay DEF SlotJobs
    <2>. QED BY <1>6, <2>2, <2>3, <2>4 DEF EnterLane
  <1>. QED BY <1>1, <1>2, <1>3, <1>4, <1>5, <1>6 DEF Acquire

LEMMA AttemptSlots ==
  ASSUME Inv, SlotsFit, NEW l \in Lane, Attempt(l) \/ AttemptSettles(l) \/ RunnerSettles(l)
  PROVE  SlotsFit'
  <1>1. CASE AttemptTimesOut(l)
    <2>1. Moves(l, "grace") /\ l \in slots /\ l \notin waiters /\ UNCHANGED pool
      BY <1>1 DEF AttemptTimesOut, Goes, Moves, SlotsFit, SlotJobs
    <2>. QED BY <2>1, SlotsStay DEF SlotJobs
  <1>2. CASE GraceSettled(l) \/ AttemptSettles(l)
    <2>1. l \in slots
      BY <1>2 DEF GraceSettled, AttemptSettles, SlotsFit, SlotJobs
    <2>2. (\E s \in {"completed", "failed"} : Conclude(l, s, FALSE) /\ FreeSlot(l)) \/ FailAttempt(l)
      BY <1>2 DEF GraceSettled, AttemptSettles
    <2>. QED BY <2>1, <2>2, ConcludeSlots, FailAttemptSlots
  <1>3. CASE GraceExpired(l)
    <2>1. Moves(l, "done") /\ slots' = slots \ {l} /\ waiters' = {}
      BY <1>3, FinallyMoves DEF GraceExpired, Inv
    <2>. QED BY <2>1, SlotDropped DEF SlotJobs
  <1>4. CASE BackoffEnds(l)
    BY <1>4, TryAttemptSlots DEF BackoffEnds
  <1>5. CASE RunnerSettles(l)
    BY <1>5 DEF RunnerSettles, SlotsFit, pool
  <1>. QED BY <1>1, <1>2, <1>3, <1>4, <1>5 DEF Attempt

LEMMA ReleaseSlots ==
  ASSUME Inv, SlotsFit, NEW l \in Lane, Release(l)
  PROVE  SlotsFit'
  <1>1. CASE Unlock(l)
    <2>1. l \in slots
      BY <1>1 DEF Unlock, SlotsFit, SlotJobs
    <2>2. PICK p \in {"done", "sealing", "failing", "backoff"} : Moves(l, p)
      <3>1. CASE Conclude(l, "failed", FALSE)
        BY <3>1, ConcludeMoves DEF Inv
      <3>2. CASE EndJob(l) \/ Goes(l, "backoff")
        BY <3>2 DEF EndJob, Goes, Moves
      <3>. QED BY <1>1, <3>1, <3>2 DEF Unlock
    <2>. QED BY <1>1, <2>1, <2>2, SlotFreed DEF Unlock, SlotJobs
  <1>2. CASE ReleaseLane(l) \/ SkipEnds(l)
    <2>1. Moves(l, "done") /\ l \notin slots /\ l \notin waiters /\ UNCHANGED pool
      BY <1>2 DEF ReleaseLane, SkipEnds, EndJob, Moves, SlotsFit, SlotJobs
    <2>. QED BY <2>1, SlotsStay DEF SlotJobs
  <1>3. CASE DeferredRelease(l)
    BY <1>3 DEF DeferredRelease, SlotsFit, pool
  <1>. QED BY <1>1, <1>2, <1>3 DEF Release

LEMMA StepSlots == Inv /\ SlotsFit /\ [Next]_vars => SlotsFit'
  <1>. SUFFICES ASSUME Inv, SlotsFit, [Next]_vars PROVE SlotsFit'
    OBVIOUS
  <1>1. CASE UNCHANGED vars
    BY <1>1 DEF vars, SlotsFit
  <1>2. CASE SchedulerTurn
    <2>1. CASE UNCHANGED job
      BY <1>2, <2>1 DEF SchedulerTurn, SlotsFit, pool
    <2>2. CASE Iterate
      <3>1. PICK started, doomed, stuck \in SUBSET pending : IterateAs(started, doomed, stuck)
        BY <2>2, IterateShape DEF Inv
      <3>2. \A l \in Lane : job'[l] = job[l] \/ (job[l] = "none" /\ job'[l] \in {"skipping", "setup"})
        BY <3>1 DEF IterateAs, Inv, Watched, PendingNotStarted
      <3>. QED BY <1>2, <3>2 DEF SchedulerTurn, SlotsFit, SlotJobs, pool, Inv, TypeOK
    <2>. QED BY <1>2, <2>1, <2>2 DEF SchedulerTurn
  <1>3. ASSUME NEW l \in Lane, LaneStep(l) \/ AttemptSettles(l) \/ RunnerSettles(l)
        PROVE  SlotsFit'
    BY <1>3, AcquireSlots, AttemptSlots, ReleaseSlots DEF LaneStep
  <1>4. CASE RequestStop \/ SwarmTimesOut
    BY <1>4, QueueDropped DEF RequestStop, SwarmTimesOut
  <1>5. CASE Deadline \/ Close \/ Finalize
    BY <1>5 DEF Deadline, Close, Finalize, SlotsFit, pool
  <1>. QED BY <1>1, <1>2, <1>3, <1>4, <1>5 DEF Next

\* A slot is held only on the way through an attempt, and none is idle while a
\* lane waits: releases hand over, cancellation takes waiters out of the queue,
\* and no path through runSubagent leaves its slot behind.
THEOREM SlotsAreUsedUp == Spec => []SlotsAreUsed
  <1>1. Init => SlotsFit
    BY FS_EmptySet, LimitsAssumption DEF Init, SlotsFit, SlotJobs
  <1>2. SlotsFit => SlotsAreUsed
    BY DEF SlotsFit, SlotsAreUsed, SlotJobs
  <1>. QED BY <1>1, <1>2, InitInv, StepInv, StepSlots, PTL DEF Spec

-----------------------------------------------------------------------------
(* Results *)

InHand == {"setup", "slot", "acquiring", "admitting", "attempt", "grace", "unlocking", "backoff"}

\* While the swarm is open, the result of a lane fits its call and its node.
OutcomeFits(l) ==
  /\ job[l] = "none" /\ l \notin pending => result[l] = "failed" /\ dag[l] = "failed"
  /\ job[l] = "skipping" => result[l] = "completed" /\ dag[l] = "sealed"
  /\ job[l] = "sealing" => result[l] = "completed"
  /\ job[l] = "failing" => result[l] = "failed" /\ dag[l] # "sealed"
  /\ job[l] = "done" => result[l] # "none" /\ (result[l] = "completed" <=> dag[l] = "sealed")

\* Nothing is sealed before its call has come to its outcome, and an attempt
\* under way has a claim.
CallFits(l) ==
  /\ l \in pending \cup deferred \/ job[l] \in InHand => dag[l] # "sealed"
  /\ job[l] \in {"attempt", "grace", "unlocking"} => claim[l] # "none"
  /\ ~closed => OutcomeFits(l)

\* The loop ends with nothing pending and nothing running, or with the swarm.
LoopFits == scheduler = "done" => closed \/ (pending = {} /\ running = {})

ResultsFit == InOrder(deps, dag) /\ LoopFits /\ \A l \in Lane : CallFits(l)

\* A call that is over has published its outcome, unless the swarm was closed.
LEMMA ConcludeFits ==
  ASSUME Inv, NEW l \in Lane, NEW s \in {"completed", "failed"}, Conclude(l, s, FALSE),
         l \notin pending' \cup deferred', UNCHANGED main,
         s = "failed" => dag'[l] # "sealed",
         s = "completed" => dag'[l] = "sealed" \/ claim[l] # "none"
  PROVE  CallFits(l)'
  <1>1. PICK p \in {"done", "sealing", "failing"} : Moves(l, p)
    BY ConcludeMoves DEF Inv
  <1>2. job'[l] = p
    BY <1>1 DEF Inv, TypeOK, Moves
  <1>3. CASE closed
    BY <1>2, <1>3 DEF CallFits, InHand, closed
  <1>4. CASE ~closed
    <2>1. status'[l] = s /\ result'[l] = s
      BY <1>4 DEF Conclude, Inv, TypeOK
    <2>2. /\ p = "sealing" => s = "completed"
          /\ p = "failing" => s = "failed"
          /\ p = "done" => claim[l] = "none"
      BY <1>2, <1>4, <2>1 DEF Conclude, Finally, EndJob, Goes, Releasing, Inv, TypeOK
    <2>3. OutcomeFits(l)'
      BY <1>2, <2>1, <2>2 DEF OutcomeFits
    <2>. QED BY <1>2, <2>3 DEF CallFits, InHand
  <1>. QED BY <1>3, <1>4

LEMMA TryAttemptFits ==
  ASSUME Inv, NEW l \in Lane, TryAttempt(l), l \notin pending' \cup deferred', UNCHANGED main,
         dag'[l] # "sealed"
  PROVE  CallFits(l)'
  <1>1. CASE Conclude(l, "failed", FALSE)
    BY <1>1, ConcludeFits
  <1>2. CASE Goes(l, "slot")
    <2>1. job'[l] = "slot"
      BY <1>2 DEF Goes, Inv, TypeOK
    <2>. QED BY <2>1 DEF CallFits, OutcomeFits
  <1>. QED BY <1>1, <1>2 DEF TryAttempt

LEMMA FailAttemptFits ==
  ASSUME Inv, NEW l \in Lane, FailAttempt(l), l \notin pending' \cup deferred', UNCHANGED main,
         dag'[l] # "sealed", claim[l] # "none"
  PROVE  CallFits(l)'
  <1>1. CASE Conclude(l, "failed", FALSE)
    BY <1>1, ConcludeFits
  <1>2. CASE UNCHANGED claim /\ (Goes(l, "unlocking") \/ Goes(l, "backoff"))
    <2>1. job'[l] \in {"unlocking", "backoff"} /\ claim'[l] # "none"
      BY <1>2 DEF Goes, Inv, TypeOK
    <2>. QED BY <2>1 DEF CallFits, OutcomeFits
  <1>. QED BY <1>1, <1>2 DEF FailAttempt

\* A call that goes on is neither pending nor deferred.
LEMMA InCall ==
  ASSUME Inv, NEW l \in Lane, job[l] \notin {"none", "done"}
  PROVE  l \notin pending /\ l \notin deferred
  BY DEF Inv, Watched, PendingNotStarted, DeferredAreDone

LEMMA AcquireFits ==
  ASSUME Inv, ResultsFit, NEW l \in Lane, Acquire(l)
  PROVE  CallFits(l)'
  <1>. USE DEF Inv
  <1>1. /\ job[l] \in InHand /\ dag[l] # "sealed" /\ UNCHANGED <<pending, deferred, main>>
        /\ l \notin pending' \cup deferred'
    <2>1. job[l] \in InHand /\ UNCHANGED <<pending, deferred, main>>
      BY DEF Acquire, Setup, SlotCancelled, SlotGranted, LockGranted, LockRefused,
             AdmissionThrows, EnterLane, InHand, parent
    <2>2. job[l] \notin {"none", "done"}
      BY <2>1 DEF InHand
    <2>. QED BY <2>1, <2>2, InCall DEF ResultsFit, CallFits
  <1>2. CASE Setup(l)
    BY <1>1, <1>2, TryAttemptFits DEF Setup
  <1>3. CASE SlotCancelled(l)
    BY <1>1, <1>3, ConcludeFits DEF SlotCancelled
  <1>4. CASE Refused(l) /\ UNCHANGED dag
    BY <1>1, <1>4, ConcludeFits DEF Refused
  <1>5. CASE UNCHANGED dag /\ job'[l] \in {"acquiring", "admitting"}
    BY <1>1, <1>5 DEF CallFits, OutcomeFits
  <1>6. CASE SlotGranted(l)
    <2>1. Refused(l) \/ job'[l] \in {"acquiring", "admitting"}
      BY <1>6 DEF SlotGranted, Goes, TypeOK
    <2>. QED BY <1>4, <1>5, <1>6, <2>1 DEF SlotGranted
  <1>7. CASE LockGranted(l)
    BY <1>5, <1>7 DEF LockGranted, Goes, TypeOK
  <1>8. CASE LockRefused(l) \/ AdmissionThrows(l)
    BY <1>4, <1>8 DEF LockRefused, AdmissionThrows
  <1>9. CASE EnterLane(l)
    <2>1. CASE /\ dag' = IF l \in reentry THEN dag ELSE markRunning(dag, l)
               /\ claim' = [claim EXCEPT ![l] = IF l \in LockRequired THEN "lock" ELSE "lockless"]
               /\ IF closed THEN Goes(l, Releasing(status[l])) ELSE Goes(l, "attempt")
      <3>1. /\ claim'[l] # "none" /\ dag'[l] # "sealed"
            /\ closed \/ job'[l] = "attempt"
            /\ job'[l] \notin InHand \ {"attempt"}
        BY <1>1, <2>1 DEF Goes, Releasing, markRunning, TypeOK, InHand
      <3>2. closed' = closed
        BY <1>1 DEF closed
      <3>. QED BY <1>1, <3>1, <3>2 DEF CallFits, OutcomeFits
    <2>2. CASE Refused(l) /\ UNCHANGED dag
      BY <1>4, <2>2
    <2>. QED BY <1>9, <2>1, <2>2 DEF EnterLane
  <1>. QED BY <1>2, <1>3, <1>6, <1>7, <1>8, <1>9 DEF Acquire

LEMMA AttemptFits ==
  ASSUME Inv, ResultsFit, NEW l \in Lane, Attempt(l) \/ AttemptSettles(l)
  PROVE  CallFits(l)'
  <1>. USE DEF Inv
  <1>1. /\ job[l] \in InHand /\ dag[l] # "sealed" /\ UNCHANGED <<pending, main>>
        /\ l \notin pending' /\ l \notin deferred /\ (job[l] # "backoff" => claim[l] # "none")
    <2>1. /\ job[l] \in {"attempt", "grace", "backoff"} /\ UNCHANGED <<pending, main>>
      BY DEF Attempt, AttemptTimesOut, GraceSettled, GraceExpired, BackoffEnds, AttemptSettles,
             parent
    <2>2. job[l] \notin {"none", "done"}
      BY <2>1
    <2>. QED BY <2>1, <2>2, InCall DEF ResultsFit, CallFits, InHand
  <1>2. CASE AttemptTimesOut(l)
    <2>1. job'[l] = "grace" /\ UNCHANGED <<dag, claim, deferred>>
      BY <1>2 DEF AttemptTimesOut, Goes, TypeOK
    <2>. QED BY <1>1, <1>2, <2>1 DEF AttemptTimesOut, CallFits, OutcomeFits
  <1>3. CASE GraceSettled(l)
    <2>1. CASE dag' = markSealed(deps, dag, {l}) /\ Conclude(l, "completed", FALSE)
      <3>1. dag'[l] = "sealed"
        BY <2>1, Marked DEF TypeOK
      <3>. QED BY <1>1, <1>3, <2>1, <3>1, ConcludeFits DEF GraceSettled
    <2>2. CASE FailAttempt(l) /\ UNCHANGED dag
      BY <1>1, <1>3, <2>2, FailAttemptFits DEF GraceSettled
    <2>. QED BY <1>3, <2>1, <2>2 DEF GraceSettled
  <1>4. CASE GraceExpired(l)
    <2>1. dag'[l] = "failed"
      BY <1>4, Marked DEF GraceExpired, TypeOK
    <2>2. job'[l] = "done" /\ closed' = closed
      BY <1>1, <1>4 DEF GraceExpired, Finally, EndJob, TypeOK, closed
    <2>3. ~closed => result'[l] = "failed"
      BY <1>4 DEF GraceExpired, TypeOK
    <2>. QED BY <2>1, <2>2, <2>3 DEF CallFits, OutcomeFits
  <1>5. CASE BackoffEnds(l)
    BY <1>1, <1>5, TryAttemptFits DEF BackoffEnds
  <1>6. CASE AttemptSettles(l)
    BY <1>1, <1>6, ConcludeFits, FailAttemptFits DEF AttemptSettles
  <1>. QED BY <1>2, <1>3, <1>4, <1>5, <1>6 DEF Attempt

LEMMA ReleaseFits ==
  ASSUME Inv, ResultsFit, NEW l \in Lane, Release(l) \/ RunnerSettles(l)
  PROVE  CallFits(l)'
  <1>. USE DEF Inv
  <1>1. /\ UNCHANGED <<pending, main>> /\ closed' = closed
        /\ job[l] \notin {"none", "done"} => l \notin pending' /\ l \notin deferred
    BY InCall DEF Release, Unlock, ReleaseLane, DeferredRelease, SkipEnds, RunnerSettles, parent, closed
  <1>2. CASE Unlock(l)
    <2>1. dag'[l] # "sealed" /\ l \notin pending' \cup deferred'
      BY <1>1, <1>2 DEF Unlock, ResultsFit, CallFits, InHand
    <2>2. CASE Conclude(l, "failed", FALSE)
      BY <1>1, <2>1, <2>2, ConcludeFits
    <2>3. CASE IF closed THEN EndJob(l) ELSE Goes(l, "backoff")
      <3>1. job'[l] = "backoff" \/ (closed /\ job'[l] = "done")
        BY <2>3 DEF EndJob, Goes, TypeOK
      <3>. QED BY <1>1, <2>1, <3>1 DEF CallFits, OutcomeFits, InHand
    <2>. QED BY <1>2, <2>2, <2>3 DEF Unlock
  <1>3. CASE ReleaseLane(l)
    <2>1. job'[l] = "done" /\ l \notin pending' \cup deferred'
      BY <1>1, <1>3 DEF ReleaseLane, EndJob, TypeOK
    <2>2. CASE job[l] = "sealing" /\ dag' = markSealed(deps, dag, {l}) /\ UNCHANGED outcome
      <3>1. dag'[l] = "sealed"
        BY <2>2, Marked DEF TypeOK
      <3>2. ~closed => result'[l] = "completed"
        BY <2>2 DEF ResultsFit, CallFits, OutcomeFits, outcome
      <3>. QED BY <1>1, <2>1, <3>1, <3>2 DEF CallFits, OutcomeFits, InHand
    <2>3. CASE /\ dag' = markFailed(deps, dag, {l})
               /\ \/ job[l] = "failing" /\ UNCHANGED outcome
                  \/ closed \/ result' = [result EXCEPT ![l] = "failed"]
      <3>1. dag'[l] = "failed"
        BY <2>3, Marked DEF TypeOK
      <3>2. ~closed => result'[l] = "failed"
        BY <2>3 DEF ResultsFit, CallFits, OutcomeFits, outcome, TypeOK
      <3>. QED BY <1>1, <2>1, <3>1, <3>2 DEF CallFits, OutcomeFits, InHand
    <2>. QED BY <1>3, <2>2, <2>3 DEF ReleaseLane
  <1>4. CASE DeferredRelease(l)
    <2>1. job'[l] = "done" /\ job[l] = "done" /\ result' = result /\ dag[l] # "sealed"
      BY <1>4 DEF DeferredRelease, Watched, DeferredAreDone, outcome, ResultsFit, CallFits
    <2>2. dag'[l] = "failed"
      BY <1>4, Marked DEF DeferredRelease, TypeOK
    <2>. QED BY <1>1, <2>1, <2>2 DEF ResultsFit, CallFits, OutcomeFits
  <1>5. CASE SkipEnds(l)
    <2>1. /\ job'[l] = "done" /\ UNCHANGED <<result, dag, claim>> /\ l \notin pending' \cup deferred'
      BY <1>1, <1>5 DEF SkipEnds, EndJob, TypeOK, outcome
    <2>. QED BY <1>1, <1>5, <2>1 DEF SkipEnds, ResultsFit, CallFits, OutcomeFits, InHand
  <1>6. CASE RunnerSettles(l)
    BY <1>1, <1>6 DEF RunnerSettles, ResultsFit, CallFits, OutcomeFits, outcome
  <1>. QED BY <1>2, <1>3, <1>4, <1>5, <1>6 DEF Release

LEMMA LaneResults ==
  ASSUME Inv, ResultsFit, NEW l \in Lane, LaneStep(l) \/ AttemptSettles(l) \/ RunnerSettles(l)
  PROVE  ResultsFit'
  <1>1. Elsewhere(l)
    BY LaneElsewhere
  <1>2. Alike(dag, dag', {l}) /\ InOrder(deps, dag')
    BY <1>1, GraphMoved DEF Inv, ResultsFit, Elsewhere
  <1>3. deps' = deps /\ closed' = closed /\ pending' = pending
    BY <1>1 DEF Elsewhere, OnlyFor, parent, closed
  <1>4. CallFits(l)'
    BY AcquireFits, AttemptFits, ReleaseFits DEF LaneStep
  <1>5. ASSUME NEW m \in Lane \ {l} PROVE CallFits(m)'
    <2>1. /\ job'[m] = job[m] /\ claim'[m] = claim[m] /\ result'[m] = result[m]
          /\ m \in deferred' <=> m \in deferred
      BY <1>1 DEF Elsewhere, OnlyFor
    <2>2. /\ dag'[m] = "sealed" <=> dag[m] = "sealed"
          /\ dag'[m] = "failed" <=> dag[m] = "failed"
      BY <1>2 DEF Alike
    <2>3. CallFits(m)
      BY DEF ResultsFit
    <2>. QED BY <1>3, <2>1, <2>2, <2>3 DEF CallFits, OutcomeFits
  <1>6. LoopFits'
    <2>1. CASE scheduler = "done" /\ ~closed
      <3>1. job' = job
        <4>1. job[l] \in {"none", "done"}
          BY <2>1 DEF ResultsFit, LoopFits, running, Ended
        <4>. QED BY <4>1 DEF LaneStep, Acquire, Setup, SlotCancelled, SlotGranted, LockGranted,
               LockRefused, AdmissionThrows, EnterLane, Attempt, AttemptTimesOut, GraceSettled, GraceExpired,
               BackoffEnds, AttemptSettles, Release, Unlock, ReleaseLane, DeferredRelease, SkipEnds,
               RunnerSettles
      <3>. QED BY <1>3, <2>1, <3>1 DEF ResultsFit, LoopFits, running
    <2>2. CASE scheduler # "done"
      BY <1>1, <2>2 DEF Elsewhere, Woken, LoopFits
    <2>. QED BY <1>3, <2>1, <2>2 DEF LoopFits
  <1>. QED BY <1>2, <1>3, <1>4, <1>5, <1>6 DEF ResultsFit, InOrder

LEMMA TurnResults ==
  ASSUME Inv, ResultsFit, SchedulerTurn
  PROVE  ResultsFit'
  <1>. USE DEF Inv
  <1>1. UNCHANGED <<deps, main, deferred, claim>> /\ closed' = closed
    BY DEF SchedulerTurn, parent, closed
  <1>2. CASE LoopEnds /\ scheduler' = "done" /\ UNCHANGED <<dag, pending, job, outcome>>
    BY <1>1, <1>2 DEF LoopEnds, ResultsFit, LoopFits, CallFits, OutcomeFits, running, outcome,
                      InOrder
  <1>3. CASE ~LoopEnds /\ Iterate
    <2>1. PICK started, doomed, stuck \in SUBSET pending :
            IterateAs(started, doomed, stuck) /\ NodesFollow(started, doomed, stuck)
      <3> HIDE DEF Inv
      <3>. QED BY <1>3, IterateNodes DEF ResultsFit
    <2> DEFINE failing == Cancelled \cup doomed \cup stuck
               skipped == started \cap Reused
    <2>2. /\ InOrder(deps, dag')
          /\ \A l \in failing : dag'[l] = "failed"
          /\ \A l \in skipped : dag'[l] = "sealed"
          /\ \A l \in Lane \ (failing \cup skipped) :
               /\ dag'[l] = "sealed" <=> dag[l] = "sealed"
               /\ dag'[l] = "failed" <=> dag[l] = "failed"
      BY <2>1 DEF NodesFollow, Alike
    <2>3. /\ started \cap failing = {} /\ pending \ pending' = started \cup failing
          /\ pending' \subseteq pending
      BY <2>1 DEF IterateAs
    <2>4. \A l \in Lane : /\ job'[l] = IF l \in skipped THEN "skipping"
                                       ELSE IF l \in started THEN "setup" ELSE job[l]
                          /\ result'[l] = IF l \in skipped THEN "completed"
                                          ELSE IF l \in failing THEN "failed" ELSE result[l]
      BY <2>1 DEF IterateAs
    <2>5. \A l \in pending : job[l] = "none" /\ dag[l] # "sealed" /\ l \notin deferred
      BY DEF TypeOK, ResultsFit, CallFits, Watched, PendingNotStarted, DeferredAreDone
    <2>6. skipped \subseteq started /\ started \subseteq pending /\ failing \subseteq pending
      BY DEF Cancelled
    <2>7. scheduler' = "done" => pending' = {} /\ running \cup started = {}
      BY <2>1 DEF IterateAs
    <2> HIDE DEF failing, skipped
    <2>8. ASSUME NEW l \in Lane PROVE CallFits(l)'
      <3>1. CallFits(l)
        BY DEF ResultsFit
      <3>2. CASE l \in skipped
        <4>1. /\ job'[l] = "skipping" /\ result'[l] = "completed" /\ dag'[l] = "sealed"
              /\ l \notin pending' \cup deferred'
          BY <1>1, <2>2, <2>3, <2>4, <2>5, <2>6, <3>2
        <4>. QED BY <4>1 DEF CallFits, OutcomeFits, InHand
      <3>3. CASE l \in started \ skipped
        <4>1. job'[l] = "setup" /\ dag'[l] # "sealed"
          BY <2>2, <2>3, <2>4, <2>5, <3>3
        <4>. QED BY <4>1 DEF CallFits, OutcomeFits
      <3>4. CASE l \in failing
        <4>1. /\ job'[l] = "none" /\ result'[l] = "failed" /\ dag'[l] = "failed"
          BY <2>2, <2>3, <2>4, <2>5, <2>6, <3>4
        <4>. QED BY <4>1 DEF CallFits, OutcomeFits, InHand
      <3>5. CASE l \notin started \cup failing
        <4>1. /\ job'[l] = job[l] /\ result'[l] = result[l]
              /\ l \in pending' <=> l \in pending
              /\ dag'[l] = "sealed" <=> dag[l] = "sealed"
              /\ dag'[l] = "failed" <=> dag[l] = "failed"
          BY <2>2, <2>3, <2>4, <2>6, <3>5
        <4>. QED BY <1>1, <3>1, <4>1 DEF CallFits, OutcomeFits
      <3>. QED BY <3>2, <3>3, <3>4, <3>5
    <2>9. LoopFits'
      <3>1. ASSUME scheduler' = "done" PROVE pending' = {} /\ running' = {}
        <4>1. \A l \in Lane : job'[l] = job[l]
          BY <2>4, <2>6, <2>7, <3>1
        <4>. QED BY <2>7, <3>1, <4>1 DEF running
      <3>. QED BY <3>1 DEF LoopFits
    <2>. QED BY <1>1, <2>2, <2>8, <2>9 DEF ResultsFit, InOrder
  <1>. QED BY <1>2, <1>3 DEF SchedulerTurn

LEMMA StepResults == Inv /\ ResultsFit /\ [Next]_vars => ResultsFit'
  <1>. SUFFICES ASSUME Inv, ResultsFit, [Next]_vars PROVE ResultsFit'
    OBVIOUS
  <1>1. CASE UNCHANGED vars
    BY <1>1 DEF vars, ResultsFit, InOrder, LoopFits, CallFits, OutcomeFits, running, closed
  <1>2. CASE RequestStop \/ Deadline \/ SwarmTimesOut \/ Close \/ Finalize
    <2>1. UNCHANGED <<deps, dag, pending, job, deferred, claim, result>>
      BY <1>2 DEF RequestStop, Deadline, SwarmTimesOut, Close, Finalize, parent, outcome
    <2>2. (closed => closed') /\ (scheduler' = "done" => scheduler = "done" \/ closed')
      BY <1>2 DEF RequestStop, Deadline, SwarmTimesOut, Close, Finalize, closed, Woken, parent,
                  Inv, TypeOK
    <2>. QED BY <2>1, <2>2 DEF ResultsFit, InOrder, LoopFits, CallFits, OutcomeFits, running
  <1>. QED BY <1>1, <1>2, TurnResults, LaneResults DEF Next

LEMMA InitResults == ASSUME Init PROVE ResultsFit
  <1>1. deps \in [Lane -> SUBSET Lane]
    BY GraphsAssumption DEF Init
  <1>2. \A l \in Lane : dag[l] = IF \E d \in deps[l] : TRUE THEN "blocked" ELSE "ready"
    BY <1>1 DEF Init, InitialDag, recomputeBlocked
  <1>3. InOrder(deps, dag)
    BY InitSequence DEF InSequence
  <1>. QED BY <1>2, <1>3 DEF Init, ResultsFit, LoopFits, CallFits, OutcomeFits, InHand

\* When the scheduler returns while the parent still waits for it, every lane
\* has a result, "completed" exactly where the node is sealed: failed releases,
\* retries, dooms, deadlocks and late cleanups change both or neither.
THEOREM ResultsMatch == Spec => []ResultsMatchDag
  <1>1. Inv /\ ResultsFit => ResultsMatchDag
    <2> SUFFICES ASSUME Inv, ResultsFit, scheduler = "done", main = "racing", NEW l \in Lane
                 PROVE  result[l] # "none" /\ (result[l] = "completed" <=> dag[l] = "sealed")
      BY DEF ResultsMatchDag
    <2>1. ~closed /\ l \notin pending /\ job[l] \in {"none", "done"}
      BY DEF ResultsFit, LoopFits, closed, running, Ended
    <2>. QED BY <2>1 DEF ResultsFit, CallFits, OutcomeFits
  <1>. QED BY <1>1, InitInv, InitResults, StepInv, StepResults, PTL DEF Spec

-----------------------------------------------------------------------------
(* Locks *)

\* A call in one of these phases has no lock yet, or has none any more.
Free == {"none", "skipping", "setup", "slot", "acquiring", "backoff"}

\* Locks that no call and no cleanup will release any more, of lanes that were
\* not overtaken.
Stray == {l \in locks : job[l] = "done" /\ l \notin deferred /\ ~Overtaken(l)}

\* A lane that was given up after it was sealed.
Withdrawn(d) == d \in Advisory /\ dag[d] = "failed" /\ job[d] = "done"

LockFits(l) ==
  l \in locks => /\ l \in LockRequired /\ job[l] \notin Free
                 /\ dag[l] = "sealed" => job[l] \in {"sealing", "failing"}

\* What a lane that was started depends on was sealed, and is so still or was
\* withdrawn; a lane in hand has not failed.
HandFits(l) ==
  /\ job[l] # "none" => \A d \in deps[l] : dag[d] = "sealed" \/ Withdrawn(d)
  /\ job[l] \in InHand => dag[l] \notin {"sealed", "failed"}

\* Between its two looks at the node, acquireLane misses only that the lane was
\* overtaken.
EntryFits(l) ==
  /\ job[l] \in {"acquiring", "admitting"} => (l \in reentry <=> dag[l] = "running")
  /\ job[l] = "acquiring" => l \in LockRequired

\* Each stray lock is one that a failed release or a throw left behind.
StrayFits == IsFiniteSet(Stray) /\ Cardinality(Stray) <= faults

LocksFit ==
  /\ \A l \in Lane : LockFits(l) /\ HandFits(l) /\ EntryFits(l)
  /\ StrayFits

\* What a step of lane l's call does to its own lock and node.
OwnEffect(l) ==
  /\ job[l] # "none" /\ job'[l] # "none"
  /\ job'[l] \in InHand => dag'[l] \notin {"sealed", "failed"}
  /\ EntryFits(l)' /\ LockFits(l)'
  /\ dag[l] = "sealed" \/ Withdrawn(l) => dag'[l] = "sealed" \/ Withdrawn(l)'
  /\ dag[l] = "failed" /\ job[l] = "done" => dag'[l] = "failed" /\ job'[l] = "done"
  /\ faults' \in {faults, faults + 1}
  /\ l \in Stray' => l \in Stray \/ faults' = faults + 1

LEMMA StraysCounted ==
  ASSUME StrayFits, faults \in Nat, faults' \in {faults, faults + 1}, NEW l,
         Stray' \subseteq Stray \/ (faults' = faults + 1 /\ Stray' \subseteq Stray \cup {l})
  PROVE  StrayFits'
  <1>1. /\ IsFiniteSet(Stray) /\ IsFiniteSet(Stray \cup {l})
        /\ Cardinality(Stray) \in Nat /\ Cardinality(Stray \cup {l}) <= Cardinality(Stray) + 1
    <2>1. IsFiniteSet(Stray) /\ Cardinality(Stray) \in Nat
      BY FS_CardinalityType DEF StrayFits
    <2>2. /\ IsFiniteSet(Stray \cup {l})
          /\ Cardinality(Stray \cup {l}) =
               IF l \in Stray THEN Cardinality(Stray) ELSE Cardinality(Stray) + 1
      BY <2>1, FS_AddElement
    <2>. QED BY <2>1, <2>2
  <1>2. CASE Stray' \subseteq Stray
    <2>1. IsFiniteSet(Stray') /\ Cardinality(Stray') <= Cardinality(Stray)
      BY <1>1, <1>2, FS_Subset
    <2>2. Cardinality(Stray') \in Nat
      BY <2>1, FS_CardinalityType
    <2>. QED BY <1>1, <2>1, <2>2 DEF StrayFits
  <1>3. CASE faults' = faults + 1 /\ Stray' \subseteq Stray \cup {l}
    <2>1. IsFiniteSet(Stray') /\ Cardinality(Stray') <= Cardinality(Stray \cup {l})
      BY <1>1, <1>3, FS_Subset
    <2>2. Cardinality(Stray') \in Nat /\ Cardinality(Stray \cup {l}) \in Nat
      BY <1>1, <2>1, FS_CardinalityType
    <2>. QED BY <1>1, <1>3, <2>1, <2>2 DEF StrayFits
  <1>. QED BY <1>2, <1>3

\* A node that waits although its lane was started waits for a withdrawn lane.
LEMMA BlockedIsOvertaken ==
  ASSUME Inv, InSequence, NEW l \in Lane, HandFits(l), job[l] # "none", dag[l] = "blocked"
  PROVE  Overtaken(l)
  <1>1. PICK d \in deps[l] : dag[d] # "sealed"
    BY DEF InSequence, InOrder
  <1>. QED BY <1>1 DEF HandFits, Withdrawn, Overtaken

\* Once its lane was started, a node that waits for a withdrawn lane goes on
\* waiting, whatever steps another lane's call takes.
LEMMA OvertakenStays ==
  ASSUME Inv, InSequence, InSequence', NEW l \in Lane, Elsewhere(l), Alike(dag, dag', {l}),
         OwnEffect(l), NEW m \in Lane \ {l}, HandFits(m), job[m] # "none", Overtaken(m), Inv'
  PROVE  Overtaken(m)'
  <1>1. PICK d \in deps[m] \cap Advisory : dag[d] = "failed"
    BY DEF Overtaken
  <1>2. d \in Lane /\ deps' = deps /\ job[d] = "done"
    BY <1>1 DEF Inv, TypeOK, Elsewhere, parent, HandFits, Withdrawn
  <1>3. dag'[d] = "failed"
    BY <1>1, <1>2 DEF Alike, OwnEffect
  <1>4. dag'[m] \in {"ready", "blocked"}
    BY DEF Overtaken, Alike, Inv, TypeOK, NodeStates
  <1>5. dag'[m] = "blocked"
    BY <1>1, <1>2, <1>3, <1>4 DEF InSequence, InOrder
  <1>. QED BY <1>1, <1>2, <1>3, <1>5 DEF Overtaken

LEMMA EffectKeepsLocks ==
  ASSUME Inv, Inv', InSequence, InSequence', LocksFit, NEW l \in Lane, Elsewhere(l),
         Alike(dag, dag', {l}), OwnEffect(l)
  PROVE  LocksFit'
  <1>1. /\ deps' = deps
        /\ \A m \in Lane : deps[m] \subseteq Lane
        /\ \A m \in Lane \ {l} : /\ job'[m] = job[m]
                                 /\ m \in locks' <=> m \in locks
                                 /\ m \in deferred' <=> m \in deferred
                                 /\ m \in reentry' <=> m \in reentry
    BY DEF Elsewhere, OnlyFor, parent, Inv, TypeOK
  <1>2. \A m \in Lane \ {l} : /\ dag'[m] = "sealed" <=> dag[m] = "sealed"
                              /\ dag'[m] = "running" <=> dag[m] = "running"
                              /\ dag'[m] = "failed" <=> dag[m] = "failed"
    BY DEF Alike
  <1>3. ASSUME NEW d \in Lane, dag[d] = "sealed" \/ Withdrawn(d)
        PROVE  dag'[d] = "sealed" \/ Withdrawn(d)'
    BY <1>1, <1>2, <1>3 DEF Withdrawn, OwnEffect
  <1>4. ASSUME NEW m \in Lane PROVE HandFits(m)'
    <2>1. job'[m] # "none" => job[m] # "none"
      BY <1>1 DEF OwnEffect
    <2>2. job'[m] # "none" => \A d \in deps[m] : dag'[d] = "sealed" \/ Withdrawn(d)'
      BY <1>1, <1>3, <2>1 DEF LocksFit, HandFits
    <2>3. job'[m] \in InHand => dag'[m] \notin {"sealed", "failed"}
      BY <1>1, <1>2 DEF OwnEffect, LocksFit, HandFits
    <2>. QED BY <1>1, <2>2, <2>3 DEF HandFits
  <1>5. ASSUME NEW m \in Lane PROVE LockFits(m)' /\ EntryFits(m)'
    <2>1. CASE m = l
      BY <2>1 DEF OwnEffect
    <2>2. CASE m \in Lane \ {l}
      BY <1>1, <1>2, <2>2 DEF LocksFit, LockFits, EntryFits
    <2>. QED BY <2>1, <2>2
  <1>6. StrayFits'
    <2>1. ASSUME NEW m \in Stray', m # l PROVE m \in Stray
      <3>1. m \in Lane \ {l} /\ m \in locks /\ job[m] = "done" /\ m \notin deferred /\ ~Overtaken(m)'
        BY <1>1, <2>1 DEF Stray, Inv, TypeOK
      <3>. QED BY <3>1, OvertakenStays DEF Stray, LocksFit
    <2>2. Stray' \subseteq Stray \/ (faults' = faults + 1 /\ Stray' \subseteq Stray \cup {l})
      BY <2>1 DEF OwnEffect
    <2>. QED BY <2>2, StraysCounted DEF LocksFit, OwnEffect, Inv, TypeOK
  <1>. QED BY <1>4, <1>5, <1>6 DEF LocksFit

LEMMA AcquireOwn ==
  ASSUME Inv, InSequence, LocksFit, NEW l \in Lane, Acquire(l)
  PROVE  OwnEffect(l)
  <1>. USE DEF Inv
  <1>1. job[l] \in {"setup", "slot", "acquiring", "admitting"}
    BY DEF Acquire, Setup, SlotCancelled, SlotGranted, LockGranted, LockRefused, AdmissionThrows,
           EnterLane
  <1>2. /\ dag[l] \notin {"sealed", "failed"} /\ ~Withdrawn(l)
        /\ job[l] # "admitting" => l \notin locks
        /\ l \in locks => l \in LockRequired
        /\ HandFits(l)
    BY <1>1 DEF LocksFit, LockFits, HandFits, InHand, Free, Withdrawn
  <1>3. CASE l \notin locks' /\ UNCHANGED <<dag, faults>>
             /\ job'[l] \in {"slot", "done", "sealing", "failing"}
    BY <1>1, <1>2, <1>3 DEF OwnEffect, EntryFits, LockFits, Stray, InHand
  <1>4. CASE Setup(l)
    BY <1>2, <1>3, <1>4, TryAttemptOwn DEF Setup, authority
  <1>5. CASE SlotCancelled(l)
    BY <1>2, <1>3, <1>5, ConcludeOwn DEF SlotCancelled, authority
  <1>6. CASE SlotGranted(l)
    <2>1. CASE Refused(l)
      BY <1>2, <1>3, <1>6, <2>1, ConcludeOwn DEF SlotGranted, Refused, authority
    <2>2. CASE /\ reentry' = IF dag[l] = "running" THEN reentry \cup {l} ELSE reentry \ {l}
               /\ Goes(l, IF l \in LockRequired THEN "acquiring" ELSE "admitting")
      <3>1. /\ job'[l] \in {"acquiring", "admitting"}
            /\ job'[l] = "acquiring" => l \in LockRequired
            /\ l \in reentry' <=> dag[l] = "running"
            /\ UNCHANGED <<locks, dag, faults>>
            /\ l \notin locks
        BY <1>2, <1>6, <2>2 DEF SlotGranted, Goes, TypeOK, authority
      <3>. QED BY <1>1, <1>2, <3>1 DEF OwnEffect, EntryFits, LockFits, Stray
    <2>. QED BY <1>6, <2>1, <2>2 DEF SlotGranted
  <1>7. CASE LockGranted(l)
    <2>1. /\ job'[l] = "admitting" /\ locks' = locks \cup {l} /\ UNCHANGED <<dag, faults, reentry>>
          /\ l \in LockRequired /\ (l \in reentry <=> dag[l] = "running")
      BY <1>7 DEF LockGranted, Goes, TypeOK, LocksFit, EntryFits
    <2>. QED BY <1>1, <1>2, <2>1 DEF OwnEffect, EntryFits, LockFits, Stray, Free
  <1>8. CASE LockRefused(l) \/ AdmissionThrows(l)
    <2>1. job'[l] \in {"done", "sealing", "failing"} /\ UNCHANGED dag
      BY <1>8, ConcludeOwn DEF LockRefused, AdmissionThrows, Refused
    <2>2. (l \notin locks' /\ UNCHANGED faults) \/ faults' = faults + 1
      BY <1>8 DEF LockRefused, AdmissionThrows, Released, NotReleased
    <2>3. l \in locks' => l \in LockRequired
      BY <1>2, <1>8 DEF LockRefused, AdmissionThrows
    <2>. QED BY <1>1, <1>2, <2>1, <2>2, <2>3
             DEF OwnEffect, EntryFits, LockFits, Stray, InHand, Free
  <1>9. CASE EnterLane(l)
    <2>1. CASE l \notin reentry /\ ~CanMarkRunning(dag, l) /\ Refused(l) /\ UNCHANGED dag
      <3>1. dag[l] = "blocked"
        BY <1>2, <1>9, <2>1
           DEF EnterLane, CanMarkRunning, LocksFit, EntryFits, TypeOK, NodeStates
      <3>2. Overtaken(l) /\ UNCHANGED <<deps, dag, locks, faults>>
        BY <1>1, <1>2, <1>9, <2>1, <3>1, BlockedIsOvertaken DEF EnterLane, parent, authority
      <3>3. Overtaken(l)'
        BY <3>2 DEF Overtaken
      <3>4. job'[l] \in {"done", "sealing", "failing"}
        BY <2>1, ConcludeOwn DEF Refused
      <3>. QED BY <1>1, <1>2, <3>2, <3>3, <3>4
               DEF OwnEffect, EntryFits, LockFits, Stray, InHand, Free
    <2>2. CASE /\ l \in reentry \/ CanMarkRunning(dag, l)
               /\ dag' = IF l \in reentry THEN dag ELSE markRunning(dag, l)
               /\ Goes(l, Releasing(status[l])) \/ Goes(l, "attempt")
      <3>1. dag'[l] = "running" /\ UNCHANGED <<locks, faults>>
        BY <1>9, <2>2 DEF EnterLane, markRunning, TypeOK, LocksFit, EntryFits, authority
      <3>2. job'[l] \in {"attempt", "sealing", "failing"}
        BY <2>2 DEF Goes, Releasing, TypeOK
      <3>. QED BY <1>1, <1>2, <3>1, <3>2 DEF OwnEffect, EntryFits, LockFits, Stray, Free
    <2>. QED BY <1>9, <2>1, <2>2 DEF EnterLane
  <1>. QED BY <1>4, <1>5, <1>6, <1>7, <1>8, <1>9 DEF Acquire

LEMMA AttemptOwn ==
  ASSUME Inv, ResultsFit, LocksFit, NEW l \in Lane, Attempt(l) \/ AttemptSettles(l)
  PROVE  OwnEffect(l)
  <1>. USE DEF Inv
  <1>1. job[l] \in {"attempt", "grace", "backoff"}
    BY DEF Attempt, AttemptTimesOut, GraceSettled, GraceExpired, BackoffEnds, AttemptSettles
  <1>2. /\ dag[l] \notin {"sealed", "failed"} /\ ~Withdrawn(l)
        /\ job[l] # "backoff" => claim[l] # "none"
        /\ l \in locks => l \in LockRequired /\ job[l] # "backoff"
    BY <1>1 DEF ResultsFit, CallFits, LocksFit, LockFits, HandFits, InHand, Free, Withdrawn
  <1>3. CASE FailAttempt(l) /\ job[l] # "backoff" /\ UNCHANGED <<locks, dag, faults>>
    <2>1. /\ job'[l] \in {"sealing", "failing", "unlocking", "backoff"}
          /\ job'[l] = "backoff" => l \notin LockRequired
      BY <1>2, <1>3, FailAttemptOwn
    <2>. QED BY <1>1, <1>2, <1>3, <2>1 DEF OwnEffect, EntryFits, LockFits, Stray, InHand, Free
  <1>4. CASE AttemptTimesOut(l)
    <2>1. job'[l] = "grace" /\ UNCHANGED <<locks, dag, faults>>
      BY <1>4 DEF AttemptTimesOut, Goes, TypeOK, authority
    <2>. QED BY <1>1, <1>2, <2>1 DEF OwnEffect, EntryFits, LockFits, Stray, Free
  <1>5. CASE GraceSettled(l)
    <2>1. CASE Conclude(l, "completed", FALSE) /\ dag' = markSealed(deps, dag, {l})
      <3>1. job[l] = "grace" /\ UNCHANGED <<locks, faults>>
        BY <1>5 DEF GraceSettled, authority
      <3>2. job'[l] \in {"sealing", "failing"}
        BY <1>2, <2>1, <3>1, ConcludeOwn
      <3>3. dag'[l] = "sealed"
        BY <2>1, Marked
      <3>. QED BY <1>1, <1>2, <3>1, <3>2, <3>3 DEF OwnEffect, EntryFits, LockFits, Stray, InHand, Free
    <2>2. CASE FailAttempt(l) /\ UNCHANGED dag
      BY <1>3, <1>5, <2>2 DEF GraceSettled, authority
    <2>. QED BY <1>5, <2>1, <2>2 DEF GraceSettled
  <1>6. CASE GraceExpired(l)
    <2>1. dag'[l] = "failed" /\ l \in deferred' /\ UNCHANGED <<locks, faults>>
      BY <1>6, Marked DEF GraceExpired, authority
    <2>2. job'[l] = "done"
      BY <1>6 DEF GraceExpired, Finally, EndJob, TypeOK
    <2>. QED BY <1>1, <1>2, <1>6, <2>1, <2>2
             DEF GraceExpired, OwnEffect, EntryFits, LockFits, Stray, InHand, Free
  <1>7. CASE BackoffEnds(l)
    <2>1. /\ job'[l] \in {"slot", "done", "sealing", "failing"} /\ l \notin locks
          /\ UNCHANGED <<locks, dag, faults>>
      BY <1>2, <1>7, TryAttemptOwn DEF BackoffEnds, authority
    <2>. QED BY <1>1, <1>2, <2>1 DEF OwnEffect, EntryFits, LockFits, Stray, InHand
  <1>8. CASE AttemptSettles(l)
    <2>1. CASE Conclude(l, "completed", FALSE)
      <3>1. job'[l] \in {"sealing", "failing"} /\ UNCHANGED <<locks, dag, faults>>
        BY <1>2, <1>8, <2>1, ConcludeOwn DEF AttemptSettles, authority
      <3>. QED BY <1>1, <1>2, <3>1 DEF OwnEffect, EntryFits, LockFits, Stray, InHand, Free
    <2>. QED BY <1>3, <1>8, <2>1 DEF AttemptSettles, authority
  <1>. QED BY <1>4, <1>5, <1>6, <1>7, <1>8 DEF Attempt

LEMMA ReleaseOwn ==
  ASSUME Inv, InSequence, LocksFit, NEW l \in Lane, Release(l) \/ RunnerSettles(l)
  PROVE  OwnEffect(l)
  <1>. USE DEF Inv
  <1>1. CASE Unlock(l)
    <2>1. /\ dag[l] \notin {"sealed", "failed"} /\ ~Withdrawn(l) /\ job[l] = "unlocking"
          /\ UNCHANGED dag
      BY <1>1 DEF Unlock, LocksFit, HandFits, InHand, Withdrawn
    <2>2. CASE Released(l) /\ (EndJob(l) \/ Goes(l, "backoff"))
      <3>1. l \notin locks' /\ UNCHANGED faults /\ job'[l] \in {"done", "backoff"}
        BY <2>2 DEF Released, EndJob, Goes, TypeOK
      <3>. QED BY <2>1, <3>1 DEF OwnEffect, EntryFits, LockFits, Stray
    <2>3. CASE NotReleased(l) /\ Conclude(l, "failed", FALSE)
      <3>1. job'[l] \in {"done", "sealing", "failing"}
        BY <2>3, ConcludeOwn
      <3>2. l \in LockRequired /\ faults' = faults + 1
        BY <2>3 DEF NotReleased
      <3>. QED BY <2>1, <3>1, <3>2 DEF OwnEffect, EntryFits, LockFits, Free, InHand
    <2>. QED BY <1>1, <2>2, <2>3 DEF Unlock
  <1>2. CASE ReleaseLane(l)
    <2>1. job[l] \in {"sealing", "failing"} /\ job'[l] = "done" /\ ~Withdrawn(l)
      BY <1>2 DEF ReleaseLane, EndJob, TypeOK, Withdrawn
    <2>2. CASE Released(l) /\ dag' = markSealed(deps, dag, {l})
      <3>1. dag'[l] = "sealed" /\ l \notin locks' /\ UNCHANGED faults
        BY <2>2, Marked DEF Released
      <3>. QED BY <2>1, <3>1 DEF OwnEffect, EntryFits, LockFits, Stray, InHand
    <2>3. CASE dag' = markFailed(deps, dag, {l}) /\ (Released(l) \/ NotReleased(l))
      <3>1. dag'[l] = "failed"
        BY <2>3, Marked
      <3>2. \/ l \notin locks' /\ UNCHANGED faults
            \/ l \in LockRequired /\ faults' = faults + 1
        BY <2>3 DEF Released, NotReleased
      <3>3. dag[l] = "sealed" => Withdrawn(l)'
        BY <2>1, <3>1 DEF InSequence, NodeFits, Withdrawn
      <3>. QED BY <2>1, <3>1, <3>2, <3>3 DEF OwnEffect, EntryFits, LockFits, Stray, Free, InHand
    <2>. QED BY <1>2, <2>2, <2>3 DEF ReleaseLane
  <1>3. CASE DeferredRelease(l)
    <2>1. job[l] = "done" /\ job'[l] = "done" /\ dag[l] = "failed"
      BY <1>3 DEF DeferredRelease, Watched, DeferredAreDone, InSequence, NodeFits
    <2>2. dag'[l] = "failed"
      BY <1>3, Marked DEF DeferredRelease
    <2>3. \/ l \notin locks' /\ UNCHANGED faults
          \/ l \in LockRequired /\ faults' = faults + 1
      BY <1>3 DEF DeferredRelease, Released, NotReleased
    <2>. QED BY <2>1, <2>2, <2>3
             DEF OwnEffect, EntryFits, LockFits, Stray, Free, InHand, Withdrawn
  <1>4. CASE SkipEnds(l)
    <2>1. /\ job[l] = "skipping" /\ job'[l] = "done" /\ UNCHANGED <<locks, dag, faults>>
          /\ l \notin locks
      BY <1>4 DEF SkipEnds, EndJob, TypeOK, authority, LocksFit, LockFits, Free
    <2>. QED BY <2>1 DEF OwnEffect, EntryFits, LockFits, Stray, InHand, Withdrawn
  <1>5. CASE RunnerSettles(l)
    <2>1. UNCHANGED <<job, dag, deps, locks, faults, reentry, deferred>>
      BY <1>5 DEF RunnerSettles, parent, authority
    <2>2. job[l] # "none" /\ (job[l] \in InHand => dag[l] \notin {"sealed", "failed"})
      BY <1>5 DEF RunnerSettles, Watched, RunnersAreWatched, DeferredAreDone, LocksFit, HandFits
    <2>. QED BY <2>1, <2>2
             DEF OwnEffect, EntryFits, LocksFit, LockFits, Stray, Withdrawn, Overtaken
  <1>. QED BY <1>1, <1>2, <1>3, <1>4, <1>5 DEF Release

\* The scheduler starts lanes that wait for nothing any more, and gives lanes up
\* that never had a lock.
LEMMA TurnLocks ==
  ASSUME Inv, Inv', InSequence, LocksFit, SchedulerTurn
  PROVE  LocksFit'
  <1>1. /\ UNCHANGED <<deps, locks, deferred, reentry, faults>>
        /\ \A l \in Lane : deps[l] \subseteq Lane
    BY DEF SchedulerTurn, parent, authority, Inv, TypeOK
  <1>2. CASE UNCHANGED <<dag, job>>
    BY <1>1, <1>2 DEF LocksFit, LockFits, HandFits, EntryFits, StrayFits, Stray, Withdrawn,
                      Overtaken
  <1>3. CASE Iterate
    <2>1. PICK started, failing \in SUBSET pending :
            /\ started \cap failing = {}
            /\ \A l \in Lane : job'[l] = IF l \in started \cap Reused THEN "skipping"
                                         ELSE IF l \in started THEN "setup" ELSE job[l]
            /\ \A l \in started \cap Reused : dag'[l] = "sealed"
            /\ Alike(dag, dag', failing \cup (started \cap Reused))
            /\ \A l \in started : \A d \in deps[l] : dag[d] = "sealed"
            /\ InOrder(deps, dag')
      BY <1>3, TurnNodes
    <2>2. /\ pending \subseteq Lane
          /\ \A l \in pending : job[l] = "none" /\ l \notin locks /\ dag[l] \in {"ready", "blocked"}
      BY DEF Inv, TypeOK, Watched, PendingNotStarted, LocksFit, LockFits, Free, InSequence, NodeFits
    <2>3. \A l \in Lane \ pending : /\ job'[l] = job[l]
                                    /\ dag'[l] = "sealed" <=> dag[l] = "sealed"
                                    /\ dag'[l] = "running" <=> dag[l] = "running"
                                    /\ dag'[l] = "failed" <=> dag[l] = "failed"
      BY <2>1 DEF Alike
    <2>4. \A d \in Lane : dag[d] = "sealed" \/ Withdrawn(d) =>
            d \notin pending /\ (dag'[d] = "sealed" \/ Withdrawn(d)')
      BY <2>2, <2>3 DEF Withdrawn
    <2>5. ASSUME NEW l \in Lane PROVE HandFits(l)' /\ EntryFits(l)' /\ LockFits(l)'
      <3>1. CASE l \in started
        <4>1. /\ job'[l] \in {"skipping", "setup"} /\ l \notin locks'
              /\ job'[l] = "setup" => dag'[l] \notin {"sealed", "failed"}
          BY <1>1, <2>1, <2>2, <3>1 DEF Alike
        <4>2. \A d \in deps[l] : dag'[d] = "sealed" \/ Withdrawn(d)'
          BY <1>1, <2>1, <2>4, <3>1
        <4>. QED BY <1>1, <4>1, <4>2 DEF HandFits, EntryFits, LockFits, InHand
      <3>2. CASE l \in pending \ started
        <4>1. job'[l] = "none" /\ l \notin locks'
          BY <1>1, <2>1, <2>2, <3>2
        <4>. QED BY <4>1 DEF HandFits, EntryFits, LockFits, InHand
      <3>3. CASE l \notin pending
        <4>1. /\ job'[l] = job[l]
              /\ dag'[l] = "sealed" <=> dag[l] = "sealed"
              /\ dag'[l] = "running" <=> dag[l] = "running"
              /\ dag'[l] = "failed" <=> dag[l] = "failed"
              /\ LockFits(l) /\ EntryFits(l) /\ HandFits(l)
          BY <2>3, <3>3 DEF LocksFit
        <4>2. job'[l] # "none" => \A d \in deps'[l] : dag'[d] = "sealed" \/ Withdrawn(d)'
          BY <1>1, <2>4, <4>1 DEF HandFits
        <4>. QED BY <1>1, <4>1, <4>2 DEF LockFits, EntryFits, HandFits
      <3>. QED BY <2>1, <3>1, <3>2, <3>3
    <2>6. ASSUME NEW l \in Stray' PROVE l \in Stray
      <3>1. /\ l \in Lane \ pending /\ l \in locks /\ job[l] = "done" /\ l \notin deferred
            /\ ~Overtaken(l)'
        BY <1>1, <2>2, <2>3, <2>6 DEF Stray, Inv, TypeOK
      <3>2. ASSUME Overtaken(l) PROVE Overtaken(l)'
        <4>1. PICK d \in deps[l] \cap Advisory : dag[d] = "failed"
          BY <3>2 DEF Overtaken
        <4>2. d \in Lane \ pending
          BY <2>2, <3>1, <4>1 DEF Inv, TypeOK
        <4>3. dag'[d] = "failed"
          BY <2>3, <4>1, <4>2
        <4>4. dag'[l] \in {"ready", "blocked"}
          BY <2>3, <3>1, <3>2 DEF Overtaken, Inv, TypeOK, NodeStates
        <4>5. dag'[l] = "blocked"
          BY <2>1, <3>1, <4>1, <4>3, <4>4 DEF InOrder
        <4>. QED BY <1>1, <4>1, <4>3, <4>5 DEF Overtaken
      <3>. QED BY <3>1, <3>2 DEF Stray
    <2>7. StrayFits'
      BY <1>1, <2>6, StraysCounted DEF LocksFit, Inv, TypeOK
    <2>. QED BY <2>5, <2>7 DEF LocksFit
  <1>. QED BY <1>2, <1>3 DEF SchedulerTurn

LEMMA StepLocks ==
  ASSUME Inv, Inv', InSequence, InSequence', ResultsFit, LocksFit, [Next]_vars
  PROVE  LocksFit'
  <1>1. CASE SchedulerTurn
    BY <1>1, TurnLocks
  <1>2. ASSUME NEW l \in Lane, LaneStep(l) \/ AttemptSettles(l) \/ RunnerSettles(l)
        PROVE  LocksFit'
    <2>1. OwnEffect(l)
      BY <1>2, AcquireOwn, AttemptOwn, ReleaseOwn DEF LaneStep
    <2>2. Alike(dag, dag', {l}) /\ Elsewhere(l)
      BY <1>2, LaneSequence, LaneElsewhere
    <2>. QED BY <2>1, <2>2, EffectKeepsLocks
  <1>3. CASE RequestStop \/ Deadline \/ SwarmTimesOut \/ Close \/ Finalize \/ UNCHANGED vars
    <2>1. UNCHANGED <<deps, dag, job, reentry, locks, deferred, faults>>
      BY <1>3 DEF RequestStop, Deadline, SwarmTimesOut, Close, Finalize, vars, parent, authority
    <2>. QED BY <2>1 DEF LocksFit, LockFits, HandFits, EntryFits, StrayFits, Stray, Withdrawn,
                         Overtaken
  <1>. QED BY <1>1, <1>2, <1>3 DEF Next

\* No refusal, retry, timeout, stop or late runner loses track of a lock: only
\* advisory lanes are ever sealed under one, a node that waits has one only if its
\* lane was overtaken, and what is left at the end is what overtaken lanes, failed
\* releases and throws of the admission left.
THEOREM LocksGivenBack == Spec => []LocksAreGivenBack
  <1>1. ASSUME Init PROVE LocksFit
    <2>1. Stray = {} /\ faults = 0
      BY <1>1 DEF Init, Stray
    <2>2. StrayFits
      BY <2>1, FS_EmptySet DEF StrayFits
    <2>. QED BY <1>1, <2>2 DEF Init, LocksFit, LockFits, HandFits, EntryFits, InHand
  <1>2. Inv /\ InSequence /\ LocksFit => LocksAreGivenBack
    <2>. SUFFICES ASSUME Inv, InSequence, LocksFit PROVE LocksAreGivenBack
      OBVIOUS
    <2>1. ASSUME NEW l \in locks
          PROVE  (dag[l] = "sealed" => l \in Advisory) /\ (dag[l] = "blocked" => Overtaken(l))
      <3>1. l \in Lane /\ LockFits(l) /\ HandFits(l) /\ NodeFits(l)
        BY DEF Inv, TypeOK, LocksFit, InSequence
      <3>2. job[l] # "none"
        BY <3>1 DEF LockFits, Free
      <3>. QED BY <3>1, <3>2, BlockedIsOvertaken DEF LockFits, NodeFits
    <2>2. ASSUME running = {}, deferred = {}
          PROVE  Cardinality({l \in locks : ~Overtaken(l)}) <= faults
      <3>1. \A l \in locks : job[l] = "done"
        BY <2>2 DEF Inv, TypeOK, LocksFit, LockFits, Free, running, Ended
      <3>2. {l \in locks : ~Overtaken(l)} = Stray
        BY <2>2, <3>1 DEF Stray
      <3>. QED BY <3>2 DEF LocksFit, StrayFits
    <2>. QED BY <2>1, <2>2 DEF LocksAreGivenBack
  <1>3. Inv /\ Inv' /\ InSequence /\ InSequence' /\ ResultsFit /\ LocksFit /\ [Next]_vars => LocksFit'
    BY StepLocks
  <1>. QED BY <1>1, <1>2, <1>3, InitInv, InitSequence, InitResults, StepInv, StepSequence,
              StepResults, PTL DEF Spec

=============================================================================

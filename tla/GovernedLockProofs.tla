------------------------- MODULE GovernedLockProofs -------------------------
(***************************************************************************)
(* Proofs about GovernedLock for every set of actors and processes, every  *)
(* placement of the actors, every lease length and every bound.  Nothing   *)
(* is assumed of how reconcilers, administrators and crashes interleave.   *)
(***************************************************************************)
EXTENDS GovernedLock, TLAPS

-----------------------------------------------------------------------------
(* The inductive invariant *)

\* Tokens are handed out in order: no row is ahead of the generation.
RowBelowTop == database # None => database.token <= top

\* An actor holds only its own leases, and only between calls.
ClaimsAreOwn ==
  \A a \in Actor : claim[a] # None => claim[a].owner = a /\ job[a].kind = "idle"

\* The lease an acquire, abandon or release is about is its caller's own.
CallsAreOwn ==
  \A a \in Actor : job[a].kind \in {"acquire", "abandon", "release"} =>
                     job[a].lease # None /\ job[a].lease.owner = a

\* Until its lease expires, an acquisition in progress has the row.
AcquiringHasRow ==
  \A a \in Actor :
    job[a].kind = "acquire" /\ IsLive(job[a].lease) /\ job[a].lease.token \notin lost =>
      database = job[a].lease

\* l is a row read some time ago: if its token is still the row's, it is the row.
SeenRow(l) == /\ l.token <= top
              /\ database # None /\ database.token = l.token => database = l

SnapshotRow(a) == job[a].snapshot["database"]

ObservedWasRow ==
  \A a \in Actor : job[a].kind = "reconcile" =>
    /\ SnapshotRow(a) \in Lease \cup {None}
    /\ SnapshotRow(a) # None => SeenRow(SnapshotRow(a))

\* What reconcile is about to delete had expired when it was read.
ReclaimedHadExpired ==
  \A a \in Actor : job[a].kind = "reclaim" /\ job[a].lease # None =>
    SeenRow(job[a].lease) /\ job[a].lease.expiresAt < now

RepairHasLease == \A a \in Actor : job[a].kind = "repair" => job[a].lease # None

Owned ==
  /\ RowBelowTop /\ ClaimsAreOwn /\ CallsAreOwn /\ AcquiringHasRow
  /\ ObservedWasRow /\ ReclaimedHadExpired /\ RepairHasLease
  /\ LiveClaimIsLease

Inv == TypeOK /\ Owned

-----------------------------------------------------------------------------
(* How a call moves on *)

\* Actor a's call goes on under the same lease and snapshot, is abandoned, or
\* returns; no other call moves.
Advances(a) ==
  /\ job' \in [Actor -> CallType]
  /\ DOMAIN plan' = Actor
  /\ \A b \in Actor \ {a} : job'[b] = job[b]
  /\ \/ job'[a] = Idle
     \/ /\ job'[a].kind = job[a].kind
        /\ job'[a].lease = job[a].lease
        /\ job'[a].snapshot = job[a].snapshot
     \/ /\ job[a].kind = "acquire" /\ job'[a].kind = "abandon"
        /\ job'[a].lease = job[a].lease

\* Every call made of typed parts is a call.
LEMMA CallHasType ==
  ASSUME NEW kind \in Kinds, NEW lease \in Lease \cup {None},
         NEW snapshot \in [Backends -> Lease \cup {None, Corrupt}]
  PROVE  /\ Call(kind, lease, snapshot) \in CallType
         /\ Call(kind, lease, snapshot).kind = kind
         /\ Call(kind, lease, snapshot).lease = lease
         /\ Call(kind, lease, snapshot).snapshot = snapshot
  BY DEF Call, CallType

LEMMA IdleHasType ==
  /\ Idle \in CallType /\ Idle.kind = "idle"
  /\ NoSnapshot \in [Backends -> Lease \cup {None, Corrupt}]
  /\ NoSnapshot["database"] = None
  <1>1. NoSnapshot \in [Backends -> Lease \cup {None, Corrupt}]
    BY DEF NoSnapshot
  <1>2. "idle" \in Kinds /\ None \in Lease \cup {None}
    BY DEF Kinds
  <1>3. NoSnapshot["database"] = None
    BY DEF NoSnapshot, Backends
  <1> QED
    BY <1>1, <1>2, <1>3, CallHasType DEF Idle

\* Beginning a well-typed call keeps the calls well typed.
LEMMA BeginKeepsType ==
  ASSUME TypeOK, NEW a \in Actor, NEW call \in CallType, NEW tasks, Begin(a, call, tasks)
  PROVE  /\ job' \in [Actor -> CallType]
         /\ DOMAIN plan' = Actor
         /\ \A b \in Actor \ {a} : job'[b] = job[b]
         /\ job'[a] = Idle \/ job'[a] = call
  BY IdleHasType DEF TypeOK, Begin

LEMMA AtAdvances ==
  ASSUME TypeOK, NEW a \in Actor, NEW step \in {"start", "content", "read", "check", "unlink"},
         NEW seen \in Lease \cup {None}, At(a, step, seen)
  PROVE  Advances(a)
  BY ZenonT(90) DEF TypeOK, At, Advances, CallType

LEMMA ContinueAdvances ==
  ASSUME TypeOK, NEW a \in Actor, NEW tasks, Continue(a, tasks)
  PROVE  Advances(a)
  <1> DEFINE call == [job[a] EXCEPT !.at = "start", !.seen = None]
  <1>1. /\ call \in CallType /\ call.kind = job[a].kind /\ call.lease = job[a].lease
        /\ call.snapshot = job[a].snapshot
    BY ZenonT(90) DEF TypeOK, CallType
  <1>2. Begin(a, call, tasks)
    BY DEF Continue
  <1> HIDE DEF call
  <1> QED
    BY <1>1, <1>2, BeginKeepsType DEF Advances

LEMMA SucceedAdvances ==
  ASSUME TypeOK, NEW a \in Actor, Succeed(a)
  PROVE  Advances(a)
  BY ContinueAdvances DEF Succeed

LEMMA FailAdvances ==
  ASSUME TypeOK, NEW a \in Actor, Fail(a)
  PROVE  Advances(a)
  <1>1. CASE job[a].kind = "acquire"
    <2> DEFINE call == Call("abandon", job[a].lease, NoSnapshot)
    <2>1. Begin(a, call, AbandonPlan(Task(a)))
      BY <1>1 DEF Fail
    <2>2. job[a].lease \in Lease \cup {None} /\ "abandon" \in Kinds
      BY DEF TypeOK, CallType, Kinds
    <2>3. call \in CallType /\ call.kind = "abandon" /\ call.lease = job[a].lease
      BY <2>2, IdleHasType, CallHasType
    <2> HIDE DEF call
    <2> QED
      BY <1>1, <2>1, <2>3, BeginKeepsType DEF Advances
  <1>2. CASE job[a].kind # "acquire" /\ job[a].kind = "repair" /\ Doing(a, "remove")
    <2>1. Continue(a, Tail(Tail(plan[a])))
      BY <1>2 DEF Fail
    <2> QED
      BY <2>1, ContinueAdvances
  <1>3. CASE job[a].kind # "acquire" /\ ~(job[a].kind = "repair" /\ Doing(a, "remove"))
    <2>1. Succeed(a)
      BY <1>3 DEF Fail
    <2> QED
      BY <2>1, SucceedAdvances
  <1> QED
    BY <1>1, <1>2, <1>3

\* A call that moves on without touching row, token, clock, claims or history
\* keeps the invariant about them.
LEMMA AdvanceKeepsOwned ==
  ASSUME TypeOK, Owned, NEW a \in Actor, Advances(a),
         UNCHANGED <<now, database, top, claim, lost>>
  PROVE  Owned'
  <1>1. job[a].snapshot \in [Backends -> Lease \cup {None, Corrupt}]
    BY DEF TypeOK, CallType
  <1>2. RowBelowTop' /\ LiveClaimIsLease'
    BY DEF Owned, RowBelowTop, LiveClaimIsLease, IsLive
  <1>3. ClaimsAreOwn' /\ CallsAreOwn' /\ AcquiringHasRow' /\ RepairHasLease'
    BY IdleHasType DEF Owned, Advances, ClaimsAreOwn, CallsAreOwn, AcquiringHasRow,
                       RepairHasLease, IsLive
  <1>4. ObservedWasRow'
    BY IdleHasType DEF Owned, Advances, ObservedWasRow, SnapshotRow, SeenRow
  <1>5. ReclaimedHadExpired'
    BY IdleHasType DEF Owned, Advances, ReclaimedHadExpired, SeenRow
  <1> QED
    BY <1>2, <1>3, <1>4, <1>5 DEF Owned

-----------------------------------------------------------------------------
(* The type invariant *)

LEMMA TypeInit == Init => TypeOK
  BY IdleHasType, HomeAssumption DEF Init, TypeOK

\* A call that moves on keeps the types, if what else it writes is typed.
LEMMA AdvanceKeepsType ==
  ASSUME TypeOK, NEW a \in Actor, Advances(a),
         database' \in Lease \cup {None}, lost' \subseteq Nat,
         inProcessClaims' \in [Process -> Lease \cup {None}],
         files' \in [Files -> Lease \cup Partial \cup {None}],
         claim' \in [Actor -> Lease \cup {None}],
         UNCHANGED <<now, top, crashes>>
  PROVE  TypeOK'
  BY DEF TypeOK, Advances

\* A call that begins keeps the types, if what else it writes is typed.
LEMMA BeginKeepsAllTypes ==
  ASSUME TypeOK, NEW a \in Actor, NEW call \in CallType, NEW tasks, Begin(a, call, tasks),
         database' \in Lease \cup {None}, top' \in Nat,
         inProcessClaims' \in [Process -> Lease \cup {None}],
         claim' \in [Actor -> Lease \cup {None}],
         UNCHANGED <<now, files, lost, crashes>>
  PROVE  TypeOK'
  <1>1. job' \in [Actor -> CallType] /\ DOMAIN plan' = Actor
    BY BeginKeepsType
  <1> QED
    BY <1>1 DEF TypeOK

-----------------------------------------------------------------------------
(* Steps of a call that leave row, token, clock, claims and history alone *)

Untouched == UNCHANGED <<now, database, top, claim, lost, crashes>>

LEMMA OpenStep ==
  ASSUME Inv, NEW a \in Actor, Open(a)
  PROVE  TypeOK' /\ Advances(a) /\ Untouched
  <1> USE DEF Inv
  <1>1. UNCHANGED <<now, database, top, inProcessClaims, claim, lost, crashes>>
    BY DEF Open
  <1>2. CASE files[Target(a)] = None
    <2> DEFINE f == [writer |-> a, expiresAt |-> now + StaleMs(a)]
    <2>1. files' = [files EXCEPT ![Target(a)] = f] /\ At(a, "content", None)
      BY <1>2 DEF Open
    <2>2. job[a].lease \in Lease \cup {None} /\ now \in Nat
      BY DEF TypeOK, CallType
    <2>3. job[a].kind = "repair" => job[a].lease # None
      BY DEF Owned, RepairHasLease
    <2>4. StaleMs(a) \in Nat
      BY <2>2, <2>3, LengthsAssumption DEF StaleMs, Lease
    <2>5. f \in Partial
      BY <2>2, <2>4 DEF Partial
    <2> HIDE DEF f
    <2>6. Advances(a)
      BY <2>1, AtAdvances
    <2>7. files' \in [Files -> Lease \cup Partial \cup {None}]
      BY <2>1, <2>5 DEF TypeOK
    <2> QED
      BY <1>1, <2>6, <2>7, AdvanceKeepsType DEF TypeOK, Untouched
  <1>3. CASE files[Target(a)] # None
    <2>1. At(a, "read", None) /\ UNCHANGED files
      BY <1>3 DEF Open
    <2>2. Advances(a)
      BY <2>1, AtAdvances
    <2> QED
      BY <1>1, <2>1, <2>2, AdvanceKeepsType DEF TypeOK, Untouched
  <1> QED
    BY <1>2, <1>3

LEMMA ContentStep ==
  ASSUME Inv, NEW a \in Actor, Content(a)
  PROVE  TypeOK' /\ Advances(a) /\ Untouched
  <1> USE DEF Inv
  <1> DEFINE f == files[Target(a)]
             l == [owner |-> job[a].lease.owner, token |-> job[a].lease.token,
                   expiresAt |-> f.expiresAt]
  <1>1. job[a].lease \in Lease
    <2>1. job[a].lease \in Lease \cup {None}
      BY DEF TypeOK, CallType
    <2>2. job[a].kind \in {"acquire", "repair"}
      BY DEF Content, Writing
    <2> QED
      BY <2>1, <2>2 DEF Owned, RepairHasLease, CallsAreOwn
  <1>2. IsPartial(f) => l \in Lease
    BY <1>1 DEF IsPartial, Partial, Lease
  <1>3. files' = IF IsPartial(f) /\ f.writer = a
                 THEN [files EXCEPT ![Target(a)] = l] ELSE files
    BY DEF Content
  <1>4. UNCHANGED <<now, database, top, inProcessClaims, claim, lost, crashes>> /\ Succeed(a)
    BY DEF Content
  <1> HIDE DEF f, l
  <1>5. files' \in [Files -> Lease \cup Partial \cup {None}]
    BY <1>2, <1>3 DEF TypeOK
  <1>6. Advances(a)
    BY <1>4, SucceedAdvances
  <1> QED
    BY <1>4, <1>5, <1>6, AdvanceKeepsType DEF TypeOK, Untouched

LEMMA ReadExistingStep ==
  ASSUME Inv, NEW a \in Actor, ReadExisting(a)
  PROVE  TypeOK' /\ Advances(a) /\ Untouched
  <1> USE DEF Inv
  <1> DEFINE f == files[Target(a)]
  <1>1. UNCHANGED <<now, shared, claim, lost, crashes>>
    BY DEF ReadExisting
  <1>2. \/ At(a, "start", None)
        \/ f \in Lease /\ At(a, "check", f)
        \/ Succeed(a)
        \/ Fail(a)
    BY DEF ReadExisting, IsRecord
  <1> HIDE DEF f
  <1>3. Advances(a)
    BY <1>2, AtAdvances, SucceedAdvances, FailAdvances
  <1> QED
    BY <1>1, <1>3, AdvanceKeepsType DEF TypeOK, Untouched, shared

LEMMA CheckStep ==
  ASSUME Inv, NEW a \in Actor, Check(a)
  PROVE  TypeOK' /\ Advances(a) /\ Untouched
  <1> USE DEF Inv
  <1>1. UNCHANGED <<now, shared, claim, lost, crashes>>
    BY DEF Check
  <1>2. At(a, "unlink", None) \/ Succeed(a) \/ Fail(a)
    BY DEF Check
  <1>3. Advances(a)
    BY <1>2, AtAdvances, SucceedAdvances, FailAdvances
  <1> QED
    BY <1>1, <1>3, AdvanceKeepsType DEF TypeOK, Untouched, shared

LEMMA UnlinkStep ==
  ASSUME Inv, NEW a \in Actor, Unlink(a)
  PROVE  TypeOK' /\ Advances(a) /\ Untouched
  <1> USE DEF Inv
  <1>1. UNCHANGED <<now, database, top, inProcessClaims, claim, lost, crashes>>
    BY DEF Unlink
  <1>2. At(a, "start", None) \/ Succeed(a) \/ Fail(a)
    BY DEF Unlink
  <1>3. files' \in [Files -> Lease \cup Partial \cup {None}]
    BY DEF Unlink, TypeOK
  <1>4. Advances(a)
    BY <1>2, AtAdvances, SucceedAdvances, FailAdvances
  <1> QED
    BY <1>1, <1>3, <1>4, AdvanceKeepsType DEF TypeOK, Untouched

\* Deleting a claim map entry keeps the map well typed.
LEMMA ForgottenType ==
  ASSUME TypeOK, NEW p, NEW l
  PROVE  Forgotten(p, l) \in [Process -> Lease \cup {None}]
  BY DEF TypeOK, Forgotten

LEMMA MemoryStep ==
  ASSUME Inv, NEW a \in Actor, ForgetClaim(a) \/ DropMemory(a)
  PROVE  TypeOK' /\ Advances(a) /\ Untouched
  <1> USE DEF Inv
  <1>1. UNCHANGED <<now, database, top, files, claim, lost, crashes>> /\ Succeed(a)
    BY DEF ForgetClaim, DropMemory
  <1>2. inProcessClaims' \in [Process -> Lease \cup {None}]
    BY ForgottenType DEF ForgetClaim, DropMemory, TypeOK
  <1>3. Advances(a)
    BY <1>1, SucceedAdvances
  <1> QED
    BY <1>1, <1>2, <1>3, AdvanceKeepsType DEF TypeOK, Untouched

LEMMA DropReadStep ==
  ASSUME Inv, NEW a \in Actor, DropRead(a)
  PROVE  TypeOK' /\ Advances(a) /\ Untouched
  <1> USE DEF Inv
  <1>1. UNCHANGED <<now, shared, claim, lost, crashes>>
    BY DEF DropRead
  <1>2. At(a, "unlink", None) \/ Succeed(a)
    BY DEF DropRead
  <1>3. Advances(a)
    BY <1>2, AtAdvances, SucceedAdvances
  <1> QED
    BY <1>1, <1>3, AdvanceKeepsType DEF TypeOK, Untouched, shared

\* The steps above keep the invariant.
LEMMA UntouchedKeepsInv ==
  ASSUME Inv, NEW a \in Actor, TypeOK', Advances(a), Untouched
  PROVE  Inv'
  BY AdvanceKeepsOwned DEF Inv, Untouched

-----------------------------------------------------------------------------
(* Steps that touch the row, a claim or the clock *)

\* The lease an actor has in hand is well typed.
LEMMA LeaseTypes ==
  ASSUME TypeOK, NEW a \in Actor
  PROVE  /\ claim[a] \in Lease \cup {None} /\ job[a].lease \in Lease \cup {None}
         /\ job[a].snapshot \in [Backends -> Lease \cup {None, Corrupt}]
         /\ job[a].kind \in Kinds
  BY DEF TypeOK, CallType

LEMMA AcquireDatabaseStep ==
  ASSUME Inv, NEW a \in Actor, AcquireDatabase(a)
  PROVE  Inv'
  <1> USE DEF Inv
  <1> DEFINE lease == [owner |-> a, token |-> top + 1, expiresAt |-> now + LeaseMs]
             call == Call("acquire", lease, NoSnapshot)
  <1>1. /\ lease \in Lease /\ lease.owner = a /\ lease.token = top + 1
        /\ top \in Nat /\ now \in Nat
    BY LengthsAssumption DEF TypeOK, Lease
  <1>2. /\ job[a] = Idle /\ claim[a] = None /\ ~IsBusy(database)
        /\ database' = lease /\ top' = top + 1
        /\ Begin(a, call, AcquirePlan)
        /\ UNCHANGED <<now, inProcessClaims, files, claim, lost, crashes>>
    BY DEF AcquireDatabase
  <1> HIDE DEF lease
  <1>3. call \in CallType /\ call.kind = "acquire" /\ call.lease = lease
    BY <1>1, IdleHasType, CallHasType DEF Kinds
  <1> HIDE DEF call
  <1>4. TypeOK'
    BY <1>1, <1>2, <1>3, BeginKeepsAllTypes DEF TypeOK
  <1>5. /\ \A b \in Actor \ {a} : job'[b] = job[b]
        /\ job'[a] = Idle \/ job'[a] = call
    BY <1>2, <1>3, BeginKeepsType
  <1>6. \A l \in Lease : l = database => ~IsLive(l)
    BY <1>2, NoneAssumption DEF IsBusy, IsLive
  <1>7. RowBelowTop' /\ ClaimsAreOwn' /\ CallsAreOwn' /\ RepairHasLease'
    BY <1>1, <1>2, <1>3, <1>5, IdleHasType, NoneAssumption
    DEF Owned, RowBelowTop, ClaimsAreOwn, CallsAreOwn, RepairHasLease
  <1>8. AcquiringHasRow' /\ LiveClaimIsLease'
    BY <1>2, <1>3, <1>5, <1>6, LeaseTypes, IdleHasType
    DEF Owned, AcquiringHasRow, LiveClaimIsLease, IsLive
  <1>9. ASSUME NEW l \in Lease, SeenRow(l) PROVE SeenRow(l)'
    BY <1>1, <1>2, <1>9 DEF SeenRow, Lease
  <1>10. ObservedWasRow'
    BY <1>3, <1>5, <1>9, IdleHasType DEF Owned, ObservedWasRow, SnapshotRow
  <1>11. ReclaimedHadExpired'
    BY <1>2, <1>3, <1>5, <1>9, IdleHasType, LeaseTypes DEF Owned, ReclaimedHadExpired
  <1> QED
    BY <1>4, <1>7, <1>8, <1>10, <1>11 DEF Owned

\* The row a release deletes is either the caller's own or one that expired.
LEMMA ReleasedRow ==
  ASSUME Inv, NEW a \in Actor, ReleaseDatabase(a), database' # database
  PROVE  /\ database # None /\ database' = None
         /\ \/ job[a].kind \in {"release", "abandon"} /\ database.owner = a
            \/ database.expiresAt < now
  <1> USE DEF Inv
  <1>1. /\ database # None /\ database' = None /\ sameIdentity(database, job[a].lease)
        /\ job[a].kind \in {"release", "abandon", "reclaim"}
    BY DEF ReleaseDatabase, Releasing
  <1>2. CASE job[a].kind \in {"release", "abandon"}
    BY <1>1, <1>2 DEF Owned, CallsAreOwn, sameIdentity
  <1>3. CASE job[a].kind = "reclaim"
    <2>1. database \in Lease /\ None \notin Lease
      BY <1>1, NoneAssumption DEF TypeOK
    <2>2. job[a].lease = None \/ database = job[a].lease
      BY <1>1, <1>3, <2>1, LeaseTypes DEF Owned, ReclaimedHadExpired, SeenRow, sameIdentity
    <2>3. job[a].lease # None
      BY DEF ReleaseDatabase, Releasing
    <2> QED
      BY <1>1, <1>3, <2>2, <2>3 DEF Owned, ReclaimedHadExpired
  <1> QED
    BY <1>1, <1>2, <1>3

LEMMA ReleaseDatabaseStep ==
  ASSUME Inv, NEW a \in Actor, ReleaseDatabase(a)
  PROVE  Inv'
  <1> USE DEF Inv
  <1>1. /\ job[a].kind \in {"release", "abandon", "reclaim"}
        /\ Succeed(a) \/ Continue(a, << >>)
        /\ UNCHANGED <<now, top, inProcessClaims, files, claim, lost, crashes>>
        /\ database' = database \/ database' = None
    BY DEF ReleaseDatabase, Releasing
  <1>2. Advances(a)
    BY <1>1, SucceedAdvances, ContinueAdvances
  <1>3. TypeOK'
    BY <1>1, <1>2, AdvanceKeepsType DEF TypeOK
  <1>4. CASE database' = database
    BY <1>1, <1>2, <1>3, <1>4, AdvanceKeepsOwned
  <1>5. CASE database' # database
    <2>1. /\ database # None /\ database' = None
          /\ database.owner = a \/ database.expiresAt < now
      BY <1>5, ReleasedRow
    <2>2. \A b \in Actor : \/ /\ job'[b].kind = job[b].kind
                              /\ job'[b].lease = job[b].lease
                              /\ job'[b].snapshot = job[b].snapshot
                           \/ b = a /\ job'[b] = Idle
      BY <1>1, <1>2 DEF Advances
    <2>3. \A b \in Actor : claim[b] = database \/ (job[b].kind = "acquire" /\ job[b].lease = database)
                            => ~IsLive(database)
      <3>1. CASE database.expiresAt < now
        <4>1. database.expiresAt \in Nat /\ now \in Nat
          BY <2>1 DEF TypeOK, Lease
        <4> QED
          BY <3>1, <4>1 DEF IsLive
      <3>2. CASE ~(database.expiresAt < now)
        <4>1. job[a].kind \in {"release", "abandon"} /\ database.owner = a
          BY <1>5, <3>2, ReleasedRow
        <4> QED
          BY <2>1, <4>1 DEF Owned, ClaimsAreOwn, CallsAreOwn
      <3> QED
        BY <3>1, <3>2
    <2>4. RowBelowTop' /\ ClaimsAreOwn' /\ CallsAreOwn' /\ RepairHasLease'
      BY <1>1, <2>1, <2>2, IdleHasType
      DEF Owned, RowBelowTop, ClaimsAreOwn, CallsAreOwn, RepairHasLease
    <2>5. AcquiringHasRow' /\ LiveClaimIsLease'
      BY <1>1, <2>1, <2>2, <2>3, IdleHasType DEF Owned, AcquiringHasRow, LiveClaimIsLease, IsLive
    <2>6. ObservedWasRow' /\ ReclaimedHadExpired'
      BY <1>1, <2>1, <2>2, IdleHasType
      DEF Owned, ObservedWasRow, ReclaimedHadExpired, SeenRow, SnapshotRow
    <2> QED
      BY <1>3, <2>4, <2>5, <2>6 DEF Owned
  <1> QED
    BY <1>4, <1>5

LEMMA CommitClaimStep ==
  ASSUME Inv, NEW a \in Actor, CommitClaim(a)
  PROVE  Inv'
  <1> USE DEF Inv
  <1>1. job[a].kind = "acquire" /\ UNCHANGED <<now, database, top, files, lost, crashes>>
    BY DEF CommitClaim
  <1>2. CASE UNCHANGED <<inProcessClaims, claim>> /\ Fail(a)
    <2>1. Advances(a)
      BY <1>2, FailAdvances
    <2>2. TypeOK'
      BY <1>1, <1>2, <2>1, AdvanceKeepsType DEF TypeOK
    <2> QED
      BY <1>1, <1>2, <2>1, <2>2, AdvanceKeepsOwned
  <1>3. CASE /\ inProcessClaims' = [inProcessClaims EXCEPT ![Home[a]] = job[a].lease]
             /\ claim' = [claim EXCEPT ![a] = job[a].lease]
             /\ Continue(a, << >>)
    <2>1. job[a].lease \in Lease /\ job[a].lease.owner = a
      BY <1>1, LeaseTypes DEF Owned, CallsAreOwn
    <2>2. Advances(a)
      BY <1>3, ContinueAdvances
    <2>3. TypeOK'
      BY <1>1, <1>3, <2>1, <2>2, AdvanceKeepsType DEF TypeOK
    <2>4. job'[a] = Idle
      BY <1>3 DEF Continue, Begin, TypeOK
    <2>5. \A b \in Actor \ {a} : job'[b] = job[b] /\ claim'[b] = claim[b]
      BY <1>3, <2>2 DEF Advances, TypeOK
    <2>6. claim'[a] = job[a].lease
      BY <1>3 DEF TypeOK
    <2>7. RowBelowTop' /\ ClaimsAreOwn' /\ CallsAreOwn' /\ RepairHasLease'
      BY <1>1, <2>1, <2>4, <2>5, <2>6, IdleHasType
      DEF Owned, RowBelowTop, ClaimsAreOwn, CallsAreOwn, RepairHasLease
    <2>8. AcquiringHasRow' /\ LiveClaimIsLease'
      BY <1>1, <2>4, <2>5, <2>6, IdleHasType
      DEF Owned, AcquiringHasRow, LiveClaimIsLease, IsLive
    <2>9. ObservedWasRow' /\ ReclaimedHadExpired'
      BY <1>1, <2>4, <2>5, IdleHasType
      DEF Owned, ObservedWasRow, ReclaimedHadExpired, SeenRow, SnapshotRow
    <2> QED
      BY <2>3, <2>7, <2>8, <2>9 DEF Owned
  <1> QED
    BY <1>2, <1>3 DEF CommitClaim

LEMMA StartReleaseStep ==
  ASSUME Inv, NEW a \in Actor, StartRelease(a)
  PROVE  Inv'
  <1> USE DEF Inv
  <1> DEFINE call == Call("release", claim[a], NoSnapshot)
  <1>1. /\ claim[a] \in Lease /\ claim[a].owner = a
        /\ claim' = [claim EXCEPT ![a] = None]
        /\ Begin(a, call, ReleasePlan)
        /\ UNCHANGED <<now, database, top, inProcessClaims, files, lost, crashes>>
    BY LeaseTypes DEF StartRelease, shared, Owned, ClaimsAreOwn
  <1>2. call \in CallType /\ call.kind = "release" /\ call.lease = claim[a]
    BY <1>1, IdleHasType, CallHasType DEF Kinds
  <1> HIDE DEF call
  <1>3. TypeOK'
    BY <1>1, <1>2, BeginKeepsAllTypes DEF TypeOK
  <1>4. /\ \A b \in Actor \ {a} : job'[b] = job[b] /\ claim'[b] = claim[b]
        /\ job'[a] = Idle \/ job'[a] = call
        /\ claim'[a] = None
    BY <1>1, <1>2, BeginKeepsType DEF TypeOK
  <1>5. RowBelowTop' /\ ClaimsAreOwn' /\ CallsAreOwn' /\ RepairHasLease'
    BY <1>1, <1>2, <1>4, IdleHasType, NoneAssumption
    DEF Owned, RowBelowTop, ClaimsAreOwn, CallsAreOwn, RepairHasLease
  <1>6. AcquiringHasRow' /\ LiveClaimIsLease'
    BY <1>1, <1>2, <1>4, IdleHasType DEF Owned, AcquiringHasRow, LiveClaimIsLease, IsLive
  <1>7. ObservedWasRow' /\ ReclaimedHadExpired'
    BY <1>1, <1>2, <1>4, IdleHasType
    DEF Owned, ObservedWasRow, ReclaimedHadExpired, SeenRow, SnapshotRow
  <1> QED
    BY <1>3, <1>5, <1>6, <1>7 DEF Owned

\* A call that owns no lease begins: a new one between calls, or a reconcile
\* that goes on with a snapshot whose row it has really seen.
LEMMA OtherCallKeepsInv ==
  ASSUME Inv, NEW a \in Actor, NEW call \in CallType, NEW tasks, Begin(a, call, tasks),
         claim[a] = None,
         call.kind \in {"reconcile", "reclaim", "repair", "panic"},
         call.kind = "reconcile" =>
           /\ call.snapshot["database"] \in Lease \cup {None}
           /\ call.snapshot["database"] # None => SeenRow(call.snapshot["database"]),
         call.kind = "reclaim" /\ call.lease # None =>
           SeenRow(call.lease) /\ call.lease.expiresAt < now,
         call.kind = "repair" => call.lease # None,
         inProcessClaims' \in [Process -> Lease \cup {None}],
         UNCHANGED <<now, database, top, files, claim, lost, crashes>>
  PROVE  Inv'
  <1> USE DEF Inv
  <1>1. TypeOK'
    BY BeginKeepsAllTypes DEF TypeOK
  <1>2. /\ \A b \in Actor \ {a} : job'[b] = job[b]
        /\ job'[a] = Idle \/ job'[a] = call
    BY BeginKeepsType
  <1>3. RowBelowTop' /\ ClaimsAreOwn' /\ CallsAreOwn' /\ RepairHasLease'
    BY <1>2, IdleHasType
    DEF Owned, RowBelowTop, ClaimsAreOwn, CallsAreOwn, RepairHasLease
  <1>4. AcquiringHasRow' /\ LiveClaimIsLease'
    BY <1>2, IdleHasType DEF Owned, AcquiringHasRow, LiveClaimIsLease, IsLive
  <1>5. ObservedWasRow'
    BY <1>2, IdleHasType DEF Owned, ObservedWasRow, SeenRow, SnapshotRow
  <1>6. ReclaimedHadExpired'
    BY <1>2, IdleHasType DEF Owned, ReclaimedHadExpired, SeenRow
  <1> QED
    BY <1>1, <1>3, <1>4, <1>5, <1>6 DEF Owned

LEMMA StartOtherStep ==
  ASSUME Inv, NEW a \in Actor, StartReconcile(a) \/ StartPanic(a)
  PROVE  Inv'
  <1> USE DEF Inv
  <1>1. claim[a] = None /\ UNCHANGED <<now, shared, claim, lost, crashes>>
    BY DEF StartReconcile, StartPanic
  <1>2. inProcessClaims' \in [Process -> Lease \cup {None}]
    BY <1>1 DEF shared, TypeOK
  <1>3. CASE StartReconcile(a)
    <2> DEFINE call == Call("reconcile", None, NoSnapshot)
    <2>1. call \in CallType /\ call.kind = "reconcile" /\ call.snapshot = NoSnapshot
      BY IdleHasType, CallHasType DEF Kinds
    <2>2. Begin(a, call, ObservePlan)
      BY <1>3 DEF StartReconcile
    <2> HIDE DEF call
    <2> QED
      BY <1>1, <1>2, <2>1, <2>2, IdleHasType, OtherCallKeepsInv DEF shared
  <1>4. CASE StartPanic(a)
    <2> DEFINE call == Call("panic", None, NoSnapshot)
    <2>1. call \in CallType /\ call.kind = "panic"
      BY IdleHasType, CallHasType DEF Kinds
    <2>2. Begin(a, call, PanicPlan)
      BY <1>4 DEF StartPanic
    <2> HIDE DEF call
    <2> QED
      BY <1>1, <1>2, <2>1, <2>2, OtherCallKeepsInv DEF shared
  <1> QED
    BY <1>3, <1>4

\* What a snapshot records of a backend is well typed, and the row it records
\* is the row.
LEMMA ObservedType ==
  ASSUME Inv, NEW a \in Actor, NEW b \in Backends
  PROVE  /\ Observed(a, b) \in Lease \cup {None, Corrupt}
         /\ b = "database" => /\ Observed(a, b) \in Lease \cup {None}
                              /\ Observed(a, b) # None => SeenRow(Observed(a, b))
  <1> USE DEF Inv
  <1>1. CASE b = "database"
    BY <1>1 DEF Observed, TypeOK, Owned, RowBelowTop, SeenRow
  <1>2. CASE b = "memory"
    BY <1>2, HomeAssumption DEF Observed, TypeOK
  <1>3. CASE b \in Files
    BY <1>3 DEF Observed, TypeOK, Reading, IsPartial, Files
  <1> QED
    BY <1>1, <1>2, <1>3 DEF Backends

LEMMA ObserveBackendStep ==
  ASSUME Inv, NEW a \in Actor, ObserveBackend(a)
  PROVE  Inv'
  <1> USE DEF Inv
  <1> DEFINE b == Target(a)
             s == [job[a].snapshot EXCEPT ![b] = Observed(a, b)]
             call == Call("reconcile", None, s)
  <1>1. /\ job[a].kind = "reconcile" /\ b \in Backends
        /\ Begin(a, call, Tail(plan[a]))
        /\ UNCHANGED <<now, shared, claim, lost, crashes>>
    BY DEF ObserveBackend, Observing
  <1>2. claim[a] = None
    BY <1>1 DEF Owned, ClaimsAreOwn
  <1> HIDE DEF b
  <1>3. s \in [Backends -> Lease \cup {None, Corrupt}]
    BY <1>1, ObservedType, LeaseTypes
  <1>4. /\ s["database"] \in Lease \cup {None}
        /\ s["database"] # None => SeenRow(s["database"])
    <2>1. CASE b = "database"
      <3>1. s["database"] = Observed(a, "database")
        BY <2>1, LeaseTypes DEF Backends
      <3> QED
        BY <1>1, <2>1, <3>1, ObservedType
    <2>2. CASE b # "database"
      <3>1. s["database"] = SnapshotRow(a)
        BY <2>2, LeaseTypes DEF Backends, SnapshotRow
      <3> QED
        BY <1>1, <3>1 DEF Owned, ObservedWasRow
    <2> QED
      BY <2>1, <2>2
  <1> HIDE DEF s
  <1>5. call \in CallType /\ call.kind = "reconcile" /\ call.snapshot = s
    BY <1>3, CallHasType DEF Kinds
  <1> HIDE DEF call
  <1>6. inProcessClaims' \in [Process -> Lease \cup {None}]
    BY <1>1 DEF shared, TypeOK
  <1> QED
    BY <1>1, <1>2, <1>4, <1>5, <1>6, OtherCallKeepsInv DEF shared

LEMMA DecideStep ==
  ASSUME Inv, NEW a \in Actor, Decide(a)
  PROVE  Inv'
  <1> USE DEF Inv
  <1> DEFINE s == [job[a].snapshot EXCEPT !["broccoli"] = Observed(a, "broccoli")]
             row == s["database"]
  <1>1. /\ job[a].kind = "reconcile"
        /\ \/ Continue(a, << >>) /\ UNCHANGED inProcessClaims
           \/ ReclaimOrphans(a, s) \/ ReclaimExpired(a, s) \/ RepairProjections(a, s)
        /\ UNCHANGED <<now, database, top, files, claim, lost, crashes>>
    BY DEF Decide, Observing
  <1>2. claim[a] = None
    BY <1>1 DEF Owned, ClaimsAreOwn
  <1>3. s \in [Backends -> Lease \cup {None, Corrupt}]
    BY ObservedType, LeaseTypes DEF Backends, Files
  <1>4. row = SnapshotRow(a)
    BY LeaseTypes DEF Backends, SnapshotRow
  <1>5. row \in Lease \cup {None} /\ (row # None => SeenRow(row))
    BY <1>1, <1>4 DEF Owned, ObservedWasRow
  <1> HIDE DEF s
  <1>6. Keep(s) \in [Backends -> Lease \cup {None, Corrupt}]
    BY <1>3 DEF Keep
  <1>7. CASE Continue(a, << >>) /\ UNCHANGED inProcessClaims
    <2>1. Advances(a)
      BY <1>7, ContinueAdvances
    <2>2. TypeOK'
      BY <1>1, <1>7, <2>1, AdvanceKeepsType DEF TypeOK
    <2> QED
      BY <1>1, <2>1, <2>2, AdvanceKeepsOwned
  <1>8. CASE ReclaimOrphans(a, s)
    <2> DEFINE call == Call("reclaim", None, Keep(s))
    <2>1. call \in CallType /\ call.kind = "reclaim" /\ call.lease = None
      BY <1>6, CallHasType DEF Kinds
    <2>2. /\ Begin(a, call, CleanPlan(s))
          /\ inProcessClaims' = Forgotten(Home[a], s["memory"])
      BY <1>8 DEF ReclaimOrphans
    <2>3. inProcessClaims' \in [Process -> Lease \cup {None}]
      BY <2>2, ForgottenType
    <2> HIDE DEF call
    <2> QED
      BY <1>1, <1>2, <2>1, <2>2, <2>3, OtherCallKeepsInv
  <1>9. CASE ReclaimExpired(a, s)
    <2> DEFINE call == Call("reclaim", row, Keep(s))
    <2>1. call \in CallType /\ call.kind = "reclaim" /\ call.lease = row
      BY <1>5, <1>6, CallHasType DEF Kinds
    <2>2. /\ Begin(a, call, <<ReleaseRow, Forget>> \o CleanPlan(s))
          /\ row # None /\ Expired(row) /\ UNCHANGED inProcessClaims
      BY <1>9 DEF ReclaimExpired
    <2>3. row.expiresAt < now
      BY <1>5, <2>2 DEF Expired, TypeOK, Lease
    <2>4. inProcessClaims' \in [Process -> Lease \cup {None}]
      BY <2>2 DEF TypeOK
    <2> HIDE DEF call
    <2> QED
      BY <1>1, <1>2, <1>5, <2>1, <2>2, <2>3, <2>4, OtherCallKeepsInv
  <1>10. CASE RepairProjections(a, s)
    <2>1. CASE Continue(a, << >>) /\ UNCHANGED inProcessClaims
      BY <1>7, <2>1
    <2>2. CASE ~(Continue(a, << >>) /\ UNCHANGED inProcessClaims)
      <3> DEFINE call == Call("repair", row, Keep(s))
      <3>1. row # None /\ row \in Lease
        BY <1>5, <1>10 DEF RepairProjections
      <3>2. call \in CallType /\ call.kind = "repair" /\ call.lease = row
        BY <3>1, <1>6, CallHasType DEF Kinds
      <3>3. Begin(a, call, RepairPlan(s))
        BY <1>10, <2>2 DEF RepairProjections
      <3>4. inProcessClaims' \in {inProcessClaims, [inProcessClaims EXCEPT ![Home[a]] = row]}
        BY <1>10, <2>2 DEF RepairProjections
      <3>5. inProcessClaims' \in [Process -> Lease \cup {None}]
        BY <3>1, <3>4 DEF TypeOK
      <3> HIDE DEF call
      <3> QED
        BY <1>1, <1>2, <3>1, <3>2, <3>3, <3>5, OtherCallKeepsInv
    <2> QED
      BY <2>1, <2>2
  <1> QED
    BY <1>1, <1>7, <1>8, <1>9, <1>10

LEMMA DropDeleteStep ==
  ASSUME Inv, NEW a \in Actor, DropDelete(a)
  PROVE  Inv'
  <1> USE DEF Inv
  <1>1. Succeed(a) /\ UNCHANGED <<now, top, inProcessClaims, claim, crashes>>
    BY DEF DropDelete
  <1>2. Advances(a)
    BY <1>1, SucceedAdvances
  <1>3. \/ /\ database' = None /\ UNCHANGED files
           /\ lost' = IF database = None THEN lost ELSE lost \cup {database.token}
        \/ /\ files' = [files EXCEPT ![Target(a)] = None]
           /\ UNCHANGED <<database, lost>>
    BY DEF DropDelete
  <1>4. /\ database' \in Lease \cup {None} /\ lost' \subseteq Nat
        /\ files' \in [Files -> Lease \cup Partial \cup {None}]
    BY <1>3 DEF TypeOK, Lease
  <1>5. TypeOK'
    BY <1>1, <1>2, <1>4, AdvanceKeepsType DEF TypeOK
  <1>6. CASE UNCHANGED <<database, lost>>
    BY <1>1, <1>2, <1>5, <1>6, AdvanceKeepsOwned
  <1>7. CASE /\ database' = None
             /\ lost' = IF database = None THEN lost ELSE lost \cup {database.token}
    <2>1. \A b \in Actor : \/ /\ job'[b].kind = job[b].kind
                              /\ job'[b].lease = job[b].lease
                              /\ job'[b].snapshot = job[b].snapshot
                           \/ job'[b] = Idle
                           \/ /\ job[b].kind = "acquire" /\ job'[b].kind = "abandon"
                              /\ job'[b].lease = job[b].lease
      BY <1>2 DEF Advances
    <2>2. RowBelowTop' /\ ClaimsAreOwn' /\ CallsAreOwn' /\ RepairHasLease'
      BY <1>1, <1>7, <1>2, IdleHasType
      DEF Owned, RowBelowTop, ClaimsAreOwn, CallsAreOwn, RepairHasLease, Advances
    <2>3. AcquiringHasRow' /\ LiveClaimIsLease'
      BY <1>1, <1>7, <2>1, IdleHasType
      DEF Owned, AcquiringHasRow, LiveClaimIsLease, IsLive
    <2>4. ObservedWasRow' /\ ReclaimedHadExpired'
      BY <1>1, <1>7, <2>1, IdleHasType
      DEF Owned, ObservedWasRow, ReclaimedHadExpired, SeenRow, SnapshotRow
    <2> QED
      BY <1>5, <2>2, <2>3, <2>4 DEF Owned
  <1> QED
    BY <1>3, <1>6, <1>7

LEMMA TickStep ==
  ASSUME Inv, Tick
  PROVE  Inv'
  <1> USE DEF Inv
  <1>1. now' = now + 1 /\ UNCHANGED <<shared, claim, job, plan, lost, crashes>> /\ now \in Nat
    BY DEF Tick, TypeOK
  <1>2. TypeOK'
    BY <1>1 DEF shared, TypeOK
  <1>3. \A l \in Lease \cup {None} : IsLive(l)' => IsLive(l)
    BY <1>1, NoneAssumption DEF IsLive, Lease
  <1>4. AcquiringHasRow' /\ LiveClaimIsLease'
    BY <1>1, <1>3, LeaseTypes DEF Owned, AcquiringHasRow, LiveClaimIsLease, IsLive, shared
  <1>5. ReclaimedHadExpired'
    <2>1. \A a \in Actor : job[a].lease \in Lease \cup {None}
      BY LeaseTypes
    <2> QED
      BY <1>1, <2>1 DEF Owned, ReclaimedHadExpired, SeenRow, shared, Lease
  <1>6. RowBelowTop' /\ ClaimsAreOwn' /\ CallsAreOwn' /\ RepairHasLease' /\ ObservedWasRow'
    BY <1>1 DEF Owned, RowBelowTop, ClaimsAreOwn, CallsAreOwn, RepairHasLease,
                ObservedWasRow, SeenRow, SnapshotRow, shared
  <1> QED
    BY <1>2, <1>4, <1>5, <1>6 DEF Owned

LEMMA PruneStep ==
  ASSUME Inv, PruneStaleLocks
  PROVE  Inv'
  <1> USE DEF Inv
  <1>1. /\ database \in Lease /\ database.expiresAt < now /\ database' = None
        /\ UNCHANGED <<now, top, inProcessClaims, files, claim, job, plan, lost, crashes>>
        /\ now \in Nat
    BY DEF PruneStaleLocks, TypeOK
  <1>2. TypeOK'
    BY <1>1 DEF TypeOK
  <1>3. ~IsLive(database)
    BY <1>1 DEF IsLive, Lease
  <1>4. AcquiringHasRow' /\ LiveClaimIsLease'
    BY <1>1, <1>3 DEF Owned, AcquiringHasRow, LiveClaimIsLease, IsLive
  <1>5. /\ RowBelowTop' /\ ClaimsAreOwn' /\ CallsAreOwn' /\ RepairHasLease'
        /\ ObservedWasRow' /\ ReclaimedHadExpired'
    BY <1>1 DEF Owned, RowBelowTop, ClaimsAreOwn, CallsAreOwn, RepairHasLease,
                ObservedWasRow, ReclaimedHadExpired, SeenRow, SnapshotRow
  <1> QED
    BY <1>2, <1>4, <1>5 DEF Owned

LEMMA CrashStep ==
  ASSUME Inv, NEW p \in Process, Crash(p)
  PROVE  Inv'
  <1> USE DEF Inv
  <1>1. /\ claim' = [a \in Actor |-> IF Home[a] = p THEN None ELSE claim[a]]
        /\ job' = [a \in Actor |-> IF Home[a] = p THEN Idle ELSE job[a]]
        /\ plan' = [a \in Actor |-> IF Home[a] = p THEN << >> ELSE plan[a]]
        /\ inProcessClaims' = [inProcessClaims EXCEPT ![p] = None]
        /\ crashes' = crashes + 1
        /\ UNCHANGED <<now, database, top, files>>
    BY DEF Crash
  <1>2. lost \subseteq lost' /\ lost' \subseteq Nat
    <2>1. \A a \in Actor : InHand(a) \ {None} \subseteq Lease
      BY LeaseTypes DEF InHand
    <2> DEFINE gone == (UNION {InHand(a) : a \in Resident(p)}) \ {None}
    <2>2. gone \subseteq Lease
      BY <2>1 DEF Resident
    <2>3. lost' = lost \cup {l.token : l \in gone}
      BY DEF Crash
    <2> HIDE DEF gone
    <2> QED
      BY <2>2, <2>3 DEF TypeOK, Lease
  <1>3. TypeOK'
    BY <1>1, <1>2, IdleHasType DEF TypeOK
  <1>4. \A a \in Actor : \/ claim'[a] = None /\ job'[a] = Idle
                         \/ claim'[a] = claim[a] /\ job'[a] = job[a]
    BY <1>1
  <1>5. RowBelowTop' /\ ClaimsAreOwn' /\ CallsAreOwn' /\ RepairHasLease'
    BY <1>1, <1>4, IdleHasType
    DEF Owned, RowBelowTop, ClaimsAreOwn, CallsAreOwn, RepairHasLease
  <1>6. AcquiringHasRow' /\ LiveClaimIsLease'
    BY <1>1, <1>2, <1>4, IdleHasType DEF Owned, AcquiringHasRow, LiveClaimIsLease, IsLive
  <1>7. ObservedWasRow' /\ ReclaimedHadExpired'
    BY <1>1, <1>4, IdleHasType
    DEF Owned, ObservedWasRow, ReclaimedHadExpired, SeenRow, SnapshotRow
  <1> QED
    BY <1>3, <1>5, <1>6, <1>7 DEF Owned

-----------------------------------------------------------------------------
(* The theorems *)

LEMMA InvInit == Init => Inv
  <1> SUFFICES ASSUME Init PROVE Inv
    OBVIOUS
  <1>1. TypeOK
    BY TypeInit
  <1>2. /\ database = None
        /\ \A a \in Actor : claim[a] = None /\ job[a] = Idle
    BY DEF Init
  <1>3. Owned
    BY <1>2, IdleHasType
    DEF Owned, RowBelowTop, ClaimsAreOwn, CallsAreOwn, AcquiringHasRow, ObservedWasRow,
        ReclaimedHadExpired, RepairHasLease, LiveClaimIsLease, IsLive
  <1> QED
    BY <1>1, <1>3 DEF Inv

LEMMA InvNext == Inv /\ [Next]_vars => Inv'
  <1> SUFFICES ASSUME Inv, [Next]_vars PROVE Inv'
    OBVIOUS
  <1>1. ASSUME NEW a \in Actor, Start(a) PROVE Inv'
    BY <1>1, AcquireDatabaseStep, StartReleaseStep, StartOtherStep DEF Start
  <1>2. ASSUME NEW a \in Actor, FileStep(a) PROVE Inv'
    BY <1>2, OpenStep, ContentStep, ReadExistingStep, CheckStep, UnlinkStep, UntouchedKeepsInv
    DEF FileStep
  <1>3. ASSUME NEW a \in Actor, Step(a) PROVE Inv'
    BY <1>2, <1>3, ReleaseDatabaseStep, CommitClaimStep, MemoryStep, ObserveBackendStep,
       DecideStep, DropReadStep, DropDeleteStep, UntouchedKeepsInv DEF Step
  <1>4. CASE UNCHANGED vars
    BY <1>4 DEF vars, Inv, TypeOK, Owned, RowBelowTop, ClaimsAreOwn, CallsAreOwn,
                AcquiringHasRow, ObservedWasRow, ReclaimedHadExpired, RepairHasLease,
                LiveClaimIsLease, IsLive, SeenRow, SnapshotRow
  <1> QED
    BY <1>1, <1>3, <1>4, CrashStep, TickStep, PruneStep DEF Next

LEMMA InvHolds == Spec => []Inv
  BY InvInit, InvNext, PTL DEF Spec

\* Every call keeps the row, its projections, the claims and the calls in
\* their types, whatever is interleaved.
THEOREM TypeCorrect == Spec => []TypeOK
  <1>1. Inv => TypeOK
    BY DEF Inv
  <1> QED
    BY <1>1, InvHolds, PTL

\* Whatever acquirers, releasers, reconcilers and the pruning do, and wherever
\* processes crash, a live claim that no administrator overrode is the
\* lane's row in BroccoliDB.
THEOREM LiveClaims == Spec => []LiveClaimIsLease
  <1>1. Inv => LiveClaimIsLease
    BY DEF Inv, Owned
  <1> QED
    BY <1>1, InvHolds, PTL

\* The step LeaseEndsByItsOwner is about.
EndsByOwner ==
  database # None /\ database.expiresAt > now /\ database' # database =>
    \/ job[database.owner].kind \in {"abandon", "release"}
    \/ database.token \in lost'

\* The row changes in four ways only; every other step leaves row and token.
RowChanges ==
  \/ UNCHANGED <<database, top>> /\ now' \in {now, now + 1}
  \/ \E a \in Actor : AcquireDatabase(a) \/ ReleaseDatabase(a) \/ DropDelete(a)
  \/ PruneStaleLocks

LEMMA NextChangesRow ==
  ASSUME Inv, [Next]_vars
  PROVE  RowChanges
  <1>1. ASSUME NEW a \in Actor, Start(a) PROVE RowChanges
    BY <1>1 DEF Start, StartRelease, StartReconcile, StartPanic, shared, RowChanges
  <1>2. ASSUME NEW a \in Actor, FileStep(a) PROVE RowChanges
    BY <1>2 DEF FileStep, Open, Content, ReadExisting, Check, Unlink, shared, RowChanges
  <1>3. ASSUME NEW a \in Actor, Step(a) PROVE RowChanges
    BY <1>2, <1>3 DEF Step, CommitClaim, ForgetClaim, ObserveBackend, Decide, DropMemory,
                      DropRead, shared, RowChanges
  <1> QED
    BY <1>1, <1>3 DEF Next, Crash, Tick, shared, vars, RowChanges

\* Before it expires, the row is only ever deleted by its own owner's release
\* or abandoned acquisition, or by an administrator: a reconciler working from
\* an old snapshot cannot end it.
THEOREM OwnerEndsLease == Spec => LeaseEndsByItsOwner
  <1>1. Inv /\ [Next]_vars => EndsByOwner
    <2> SUFFICES ASSUME Inv, [Next]_vars,
                        database # None, database.expiresAt > now, database' # database
                 PROVE  \/ job[database.owner].kind \in {"abandon", "release"}
                        \/ database.token \in lost'
      BY DEF EndsByOwner
    <2>1. database \in Lease /\ now \in Nat
      BY DEF Inv, TypeOK
    <2>2. ~(database.expiresAt < now)
      BY <2>1 DEF Lease
    <2>3. ASSUME NEW a \in Actor, AcquireDatabase(a) PROVE FALSE
      BY <2>3 DEF AcquireDatabase, IsBusy
    <2>4. ASSUME NEW a \in Actor, ReleaseDatabase(a)
          PROVE  job[database.owner].kind \in {"abandon", "release"}
      BY <2>2, <2>4, ReleasedRow
    <2>5. ASSUME NEW a \in Actor, DropDelete(a) PROVE database.token \in lost'
      BY <2>5 DEF DropDelete
    <2>6. CASE PruneStaleLocks
      BY <2>2, <2>6 DEF PruneStaleLocks
    <2> QED
      BY <2>3, <2>4, <2>5, <2>6, NextChangesRow DEF RowChanges
  <1>2. Inv /\ [Next]_vars => [EndsByOwner]_vars
    BY <1>1
  <1>3. Spec => [][EndsByOwner]_vars
    BY <1>2, InvHolds, PTL DEF Spec
  <1> QED
    BY <1>3, PTL DEF LeaseEndsByItsOwner, EndsByOwner

\* The abstract owner of the lane.
LaneOwner == [r \in {"lane"} |-> IF IsBusy(database) THEN database.owner ELSE None]
LaneFence == [r \in {"lane"} |-> top]

LEMMA RefineInit == Init => LaneLease!Init
  BY DEF Init, LaneLease!Init, IsBusy

LEMMA AcquireIsGrant ==
  ASSUME Inv, NEW a \in Actor, AcquireDatabase(a)
  PROVE  LaneLease!Next
  <1>1. /\ ~IsBusy(database) /\ top \in Nat /\ now \in Nat /\ top' = top + 1 /\ now' = now
        /\ database' = [owner |-> a, token |-> top + 1, expiresAt |-> now + LeaseMs]
    BY DEF AcquireDatabase, Inv, TypeOK
  <1>2. database' \in Lease /\ database'.owner = a /\ database'.expiresAt > now'
    BY <1>1, LengthsAssumption DEF Lease
  <1>3. IsBusy(database)'
    BY <1>2, NoneAssumption DEF IsBusy
  <1>4. LaneOwner["lane"] = None /\ LaneOwner' = [LaneOwner EXCEPT !["lane"] = a]
    BY <1>1, <1>2, <1>3 DEF LaneOwner
  <1>5. LaneFence' \in [{"lane"} -> Nat] /\ LaneFence'["lane"] > LaneFence["lane"]
    BY <1>1 DEF LaneFence
  <1>6. LaneLease!Grant("lane", a)
    BY <1>4, <1>5 DEF LaneLease!Grant, LaneOwner, LaneFence
  <1> QED
    BY <1>6 DEF LaneLease!Next

LEMMA OthersLose ==
  ASSUME Inv, [Next]_vars, \A a \in Actor : ~AcquireDatabase(a)
  PROVE  LaneLease!Next
  <1>1. \/ UNCHANGED <<database, top>> /\ now' \in {now, now + 1}
        \/ database' = None /\ UNCHANGED <<top, now>>
        \/ UNCHANGED <<database, top, now>>
    BY NextChangesRow DEF RowChanges, ReleaseDatabase, DropDelete, PruneStaleLocks
  <1>2. now \in Nat /\ (database # None => database.expiresAt \in Nat)
    BY DEF Inv, TypeOK, Lease
  <1>3. LaneOwner' = LaneOwner \/ LaneOwner' = [r \in {"lane"} |-> None]
    <2>1. CASE database' = None
      BY <2>1 DEF LaneOwner, IsBusy
    <2>2. CASE database' = database /\ now' \in {now, now + 1}
      BY <1>2, <2>2 DEF LaneOwner, IsBusy
    <2> QED
      BY <1>1, <2>1, <2>2
  <1>4. LaneFence' = LaneFence
    BY <1>1 DEF LaneFence
  <1>5. \E R \in SUBSET {"lane"} :
          LaneOwner' = [r \in {"lane"} |-> IF r \in R THEN None ELSE LaneOwner[r]]
    <2>1. LaneOwner = [r \in {"lane"} |-> LaneOwner[r]]
      BY DEF LaneOwner
    <2>2. CASE LaneOwner' = LaneOwner
      <3>1. LaneOwner' = [r \in {"lane"} |-> IF r \in {} THEN None ELSE LaneOwner[r]]
        BY <2>1, <2>2
      <3>2. {} \in SUBSET {"lane"}
        OBVIOUS
      <3> QED
        BY <3>1, <3>2, Zenon
    <2>3. CASE LaneOwner' = [r \in {"lane"} |-> None]
      <3>1. LaneOwner' = [r \in {"lane"} |-> IF r \in {"lane"} THEN None ELSE LaneOwner[r]]
        BY <2>3
      <3> QED
        BY <3>1, Zenon
    <2> QED
      BY <1>3, <2>2, <2>3
  <1>6. \E R \in SUBSET {"lane"} : LaneLease!Lose(R)
    BY <1>4, <1>5 DEF LaneLease!Lose, LaneOwner, LaneFence
  <1> QED
    BY <1>6 DEF LaneLease!Next

\* Four writers of one row -- acquirers, releasers, reconcilers and
\* administrators -- and the clock together implement a fenced lease.
THEOREM Refinement == Spec => RefinesFencedLease
  <1>1. Inv /\ [Next]_vars => LaneLease!Next
    BY AcquireIsGrant, OthersLose
  <1> QED
    BY <1>1, RefineInit, InvHolds, PTL DEF Spec, RefinesFencedLease, LaneLease!Spec

=============================================================================

-------------------------- MODULE SwarmLeaseProofs --------------------------
(***************************************************************************)
(* Proofs about SwarmLease for every set of resources, owners, timeouts,   *)
(* engines and cleaners and every bound.                                   *)
(*                                                                         *)
(* All of them hold however many maintenance engines run.  What a run that *)
(* deletes generation rows forgets is kept apart in the history: leases    *)
(* handed out since then are identified by their tokens, and only a claim  *)
(* from before then can take an unexpired lease from its owner.            *)
(***************************************************************************)
EXTENDS SwarmLease, TLAPS

-----------------------------------------------------------------------------
(* Facts about the helpers *)

\* The counters acquireLease reads back are natural numbers.
LEMMA StoredGenerationType ==
  ASSUME TypeOK, NEW r \in Resource
  PROVE  StoredGeneration(r) \in Generation
  BY DEF TypeOK, StoredGeneration, Generation

\* The counters acquireLease allocates are above both the stored generation
\* and the lease row it replaces.
LEMMA NextCounters ==
  ASSUME TypeOK, NEW r \in Resource
  PROVE  /\ NextEpoch(r) \in Nat \ {0}
         /\ NextToken(r) \in Nat \ {0}
         /\ NextToken(r) > StoredGeneration(r).highestFencingToken
         /\ NextEpoch(r) > StoredGeneration(r).highestLeaseEpoch
  <1>1. StoredGeneration(r) \in Generation
    BY StoredGenerationType
  <1>2. HasLease(r) => swarm_locks[r] \in Lease
    BY DEF TypeOK, HasLease
  <1> QED
    BY <1>1, <1>2 DEF NextEpoch, NextToken, Larger, Generation, Lease

\* Deleting expired rows keeps the table well typed and never adds a row.
LEMMA WithoutExpiredRows ==
  ASSUME TypeOK, NEW cutoff \in Nat
  PROVE  /\ WithoutExpired(cutoff) \in [Resource -> Lease \cup {NoRow}]
         /\ \A r \in Resource :
              WithoutExpired(cutoff)[r] # NoRow =>
                WithoutExpired(cutoff)[r] = swarm_locks[r]
         /\ \A r \in Resource :
              HasLease(r) /\ ~(swarm_locks[r].expiresAt < cutoff) =>
                WithoutExpired(cutoff)[r] = swarm_locks[r]
  BY DEF TypeOK, WithoutExpired, HasLease

-----------------------------------------------------------------------------
(* Type correctness *)

LEMMA TypeInit == Init => TypeOK
  BY BoundsAssumption DEF Init, TypeOK, HasLease, EngineState, Idle

LEMMA TypeNext == TypeOK /\ [Next]_vars => TypeOK'
  <1> SUFFICES ASSUME TypeOK, [Next]_vars PROVE TypeOK'
    OBVIOUS
  <1>1. ASSUME NEW r \in Resource, NEW o \in Owner, NEW t \in Timeout,
               AcquireLease(r, o, t)
        PROVE  TypeOK'
    <2> DEFINE lease == [resource |-> r, ownerId |-> o, expiresAt |-> now + t,
                         leaseEpoch |-> NextEpoch(r), fencingToken |-> NextToken(r)]
               gen == [highestLeaseEpoch |-> lease.leaseEpoch,
                       highestFencingToken |-> lease.fencingToken]
    <2>1. lease \in Lease
      BY NextCounters, TimeoutAssumption DEF TypeOK, Lease
    <2>2. gen \in Generation
      BY NextCounters DEF Generation
    <2>3. swarm_locks' = [swarm_locks EXCEPT ![r] = lease] /\ issued' = issued \cup {lease}
          /\ claims' = claims \cup {lease}
          /\ swarm_lock_generations' = [swarm_lock_generations EXCEPT ![r] = gen]
          /\ forgotten' = forgotten \ {lease} /\ overridden' = overridden \ {lease}
          /\ mistaken' = mistaken \ {lease}
          /\ UNCHANGED <<now, engine, cleaner>>
      BY <1>1 DEF AcquireLease
    <2>4. lease.resource = r
      OBVIOUS
    <2> HIDE DEF lease, gen
    <2>5. /\ issued' \subseteq Lease /\ forgotten' \subseteq Lease
          /\ overridden' \cup mistaken' \subseteq claims'
          /\ claims' \subseteq issued' \cup forgotten'
      BY <2>1, <2>3 DEF TypeOK
    <2>6. /\ swarm_locks' \in [Resource -> Lease \cup {NoRow}]
          /\ \A q \in Resource :
               HasLease(q)' => swarm_locks'[q].resource = q /\ swarm_locks'[q] \in issued' \cap claims'
      BY <2>1, <2>3, <2>4 DEF TypeOK, HasLease
    <2> QED
      BY <2>2, <2>3, <2>5, <2>6 DEF TypeOK, HasLease
  <1>2. ASSUME NEW l \in claims, Release(l) PROVE TypeOK'
    <2>1. l.resource \in Resource /\ l \in Lease
      BY DEF TypeOK, Lease
    <2>2. /\ \A q \in Resource : HasLease(q)' => swarm_locks'[q] = swarm_locks[q] /\ HasLease(q)
          /\ swarm_locks' \in [Resource -> Lease \cup {NoRow}]
      BY <1>2, <2>1 DEF Release, HasLease, TypeOK
    <2>3. ASSUME NEW q \in Resource, HasLease(q)' PROVE swarm_locks[q] # l
      <3>1. CASE Matches(l)
        <4>1. q # l.resource
          BY <1>2, <2>1, <2>3, <3>1 DEF Release, HasLease, TypeOK
        <4>. QED BY <2>2, <2>3, <4>1 DEF TypeOK
      <3>2. CASE ~Matches(l)
        <4>1. HasLease(q) /\ swarm_locks[q].resource = q
          BY <2>2, <2>3 DEF TypeOK
        <4>. QED BY <3>2, <4>1 DEF Matches
      <3>. QED BY <3>1, <3>2
    <2>4. \A q \in Resource :
            HasLease(q)' => swarm_locks'[q].resource = q /\ swarm_locks'[q] \in issued' \cap claims'
      BY <1>2, <2>2, <2>3 DEF Release, TypeOK
    <2>5. Matches(l) => swarm_locks[l.resource] \in claims
      BY <2>1 DEF Matches, TypeOK
    <2>6. /\ overridden' \cup mistaken' \subseteq claims'
          /\ claims' \subseteq issued' \cup forgotten'
      BY <1>2, <2>5 DEF Release, TypeOK
    <2> QED
      BY <1>2, <2>2, <2>4, <2>6 DEF TypeOK, Release, HasLease
  <1>3. CASE PruneStaleLocks
    BY <1>3, WithoutExpiredRows DEF TypeOK, PruneStaleLocks, HasLease, history
  <1>4. ASSUME NEW e \in Engine, MaintenanceStart(e) PROVE TypeOK'
    BY <1>4 DEF TypeOK, MaintenanceStart, HasLease, EngineState, history
  <1>5. ASSUME NEW e \in Engine, MaintenanceDeleteLocks(e) PROVE TypeOK'
    <2>1. engine[e].cutoff \in Nat
      BY DEF TypeOK, EngineState
    <2> QED
      BY <1>5, <2>1, WithoutExpiredRows
      DEF TypeOK, MaintenanceDeleteLocks, HasLease, EngineState, history
  <1>6. ASSUME NEW e \in Engine, MaintenancePruneGenerations(e) PROVE TypeOK'
    <2>1. /\ issued' \subseteq Lease /\ forgotten' \subseteq Lease
          /\ overridden' \cup mistaken' \subseteq claims'
          /\ claims' \subseteq issued' \cup forgotten'
          /\ \A q \in Resource : HasLease(q) => swarm_locks[q] \in issued'
      BY <1>6 DEF TypeOK, MaintenancePruneGenerations, Forget
    <2>. QED
      BY <1>6, <2>1 DEF TypeOK, MaintenancePruneGenerations, HasLease, EngineState, Idle
  <1>7. ASSUME NEW c \in Cleaner, NEW r \in Resource, ForceReleaseRead(c, r)
        PROVE  TypeOK'
    BY <1>7 DEF TypeOK, ForceReleaseRead, HasLease, history
  <1>8. ASSUME NEW c \in Cleaner, ForceReleaseDelete(c) PROVE TypeOK'
    <2> DEFINE r == cleaner[c]
    <2>1. r \in Resource
      BY <1>8 DEF TypeOK, ForceReleaseDelete
    <2>2. /\ swarm_locks' = [swarm_locks EXCEPT ![r] = NoRow]
          /\ cleaner' = [cleaner EXCEPT ![c] = NoRow]
          /\ overridden' = IF HasLease(r) THEN overridden \cup {swarm_locks[r]}
                           ELSE overridden
          /\ UNCHANGED <<now, swarm_lock_generations, claims, engine, issued, forgotten, mistaken>>
      BY <1>8 DEF ForceReleaseDelete
    <2>3. HasLease(r) => swarm_locks[r] \in claims
      BY <2>1 DEF TypeOK
    <2> HIDE DEF r
    <2>4. overridden' \subseteq claims'
      BY <2>2, <2>3 DEF TypeOK
    <2>5. swarm_locks' \in [Resource -> Lease \cup {NoRow}]
      BY <2>1, <2>2 DEF TypeOK
    <2>6. \A s \in Resource :
            HasLease(s)' => swarm_locks[s] = swarm_locks'[s] /\ HasLease(s)
      BY <2>1, <2>2 DEF TypeOK, HasLease
    <2>7. cleaner' \in [Cleaner -> Resource \cup {NoRow}]
      BY <2>2 DEF TypeOK
    <2>8. \A s \in Resource :
            HasLease(s)' =>
              swarm_locks'[s].resource = s /\ swarm_locks'[s] \in issued' \cap claims'
      BY <2>2, <2>6 DEF TypeOK
    <2> QED
      BY <2>2, <2>4, <2>5, <2>7, <2>8 DEF TypeOK, HasLease
  <1>9. CASE Tick
    <2>1. \A e \in Engine : engine[e].cutoff \in Nat
      BY DEF TypeOK, EngineState
    <2>2. now' \in Nat /\ \A e \in Engine : engine'[e].cutoff <= now'
      BY <1>9, <2>1 DEF TypeOK, Tick
    <2> QED
      BY <1>9, <2>2 DEF TypeOK, Tick, HasLease, history
  <1>10. CASE UNCHANGED vars
    BY <1>10 DEF TypeOK, vars, HasLease, history
  <1> QED
    BY <1>1, <1>2, <1>3, <1>4, <1>5, <1>6, <1>7, <1>8, <1>9, <1>10 DEF Next

\* The tables, the claims and the histories are well typed in every state.
THEOREM TypeCorrect == Spec => []TypeOK
  BY TypeInit, TypeNext, PTL DEF Spec

-----------------------------------------------------------------------------
(* The generation row of a live lease, with any number of engines *)

LEMMA GenerationInit == Init => GenerationCoversLease
  BY DEF Init, GenerationCoversLease, HasLease

LEMMA GenerationNext ==
  TypeOK /\ GenerationCoversLease /\ [Next]_vars => GenerationCoversLease'
  <1> SUFFICES ASSUME TypeOK, GenerationCoversLease, [Next]_vars
               PROVE  GenerationCoversLease'
    OBVIOUS
  <1> USE DEF GenerationCoversLease, HasLease
  <1>1. ASSUME NEW r \in Resource, NEW o \in Owner, NEW t \in Timeout,
               AcquireLease(r, o, t)
        PROVE  GenerationCoversLease'
    BY <1>1 DEF TypeOK, AcquireLease
  <1>2. ASSUME NEW l \in claims, Release(l) PROVE GenerationCoversLease'
    <2>1. l.resource \in Resource
      BY DEF TypeOK, Lease
    <2> QED
      BY <1>2, <2>1 DEF TypeOK, Release
  <1>3. CASE PruneStaleLocks
    BY <1>3, WithoutExpiredRows DEF TypeOK, PruneStaleLocks
  <1>4. ASSUME NEW e \in Engine, MaintenanceStart(e) PROVE GenerationCoversLease'
    BY <1>4 DEF MaintenanceStart
  <1>5. ASSUME NEW e \in Engine, MaintenanceDeleteLocks(e)
        PROVE  GenerationCoversLease'
    <2>1. engine[e].cutoff \in Nat
      BY DEF TypeOK, EngineState
    <2> QED
      BY <1>5, <2>1, WithoutExpiredRows DEF TypeOK, MaintenanceDeleteLocks
  <1>6. ASSUME NEW e \in Engine, MaintenancePruneGenerations(e)
        PROVE  GenerationCoversLease'
    BY <1>6 DEF TypeOK, MaintenancePruneGenerations
  <1>7. ASSUME NEW c \in Cleaner, NEW r \in Resource, ForceReleaseRead(c, r)
        PROVE  GenerationCoversLease'
    BY <1>7 DEF ForceReleaseRead
  <1>8. ASSUME NEW c \in Cleaner, ForceReleaseDelete(c)
        PROVE  GenerationCoversLease'
    <2>1. cleaner[c] \in Resource
      BY <1>8 DEF TypeOK, ForceReleaseDelete
    <2> QED
      BY <1>8, <2>1 DEF TypeOK, ForceReleaseDelete
  <1>9. CASE Tick
    BY <1>9 DEF Tick
  <1>10. CASE UNCHANGED vars
    BY <1>10 DEF vars
  <1> QED
    BY <1>1, <1>2, <1>3, <1>4, <1>5, <1>6, <1>7, <1>8, <1>9, <1>10 DEF Next

\* A lease row always has its generation row, standing exactly at that lease,
\* however many maintenance engines prune generations.
THEOREM GenerationCovers == Spec => []GenerationCoversLease
  BY TypeInit, TypeNext, GenerationInit, GenerationNext, PTL DEF Spec

-----------------------------------------------------------------------------
(* How an unexpired lease ends, with any number of engines *)

\* Neither pruning nor a maintenance run, however old its cutoff, touches an
\* unexpired row; what does is a release that presents its tuple, or an
\* administrator.
LEMMA UnexpiredStays ==
  ASSUME TypeOK, [Next]_vars, NEW r \in Resource, IsBusy(r), swarm_locks'[r] # swarm_locks[r]
  PROVE  \/ \E l \in claims \ claims' : Matches(l) /\ l.resource = r
         \/ swarm_locks[r] \in overridden'
  <1>. USE DEF IsBusy, HasLease
  <1>1. swarm_locks[r] \in Lease /\ swarm_locks[r].expiresAt \in Nat /\ now \in Nat
    BY DEF TypeOK, Lease
  <1>2. ASSUME NEW s \in Resource, NEW o \in Owner, NEW t \in Timeout, AcquireLease(s, o, t)
        PROVE  FALSE
    BY <1>2 DEF AcquireLease, TypeOK
  <1>3. ASSUME NEW l \in claims, Release(l)
        PROVE  l \in claims \ claims' /\ Matches(l) /\ l.resource = r
    <2>1. l \notin claims'
      BY <1>3 DEF Release
    <2>2. CASE ~Matches(l)
      BY <1>3, <2>2 DEF Release
    <2>3. CASE Matches(l) /\ l.resource # r
      BY <1>3, <2>3 DEF Release, TypeOK
    <2>. QED BY <2>1, <2>2, <2>3
  <1>4. ASSUME NEW cutoff \in Nat, cutoff <= now, swarm_locks' = WithoutExpired(cutoff)
        PROVE  FALSE
    <2>1. ~(swarm_locks[r].expiresAt < cutoff)
      BY <1>1, <1>4
    <2>. QED BY <1>4, <2>1, WithoutExpiredRows
  <1>5. PruneStaleLocks => FALSE
    BY <1>1, <1>4 DEF PruneStaleLocks
  <1>6. ASSUME NEW e \in Engine, MaintenanceDeleteLocks(e) PROVE FALSE
    <2>1. engine[e].cutoff \in Nat /\ engine[e].cutoff <= now
      BY DEF TypeOK, EngineState
    <2>. QED BY <1>4, <1>6, <2>1 DEF MaintenanceDeleteLocks
  <1>7. ASSUME NEW c \in Cleaner, ForceReleaseDelete(c) PROVE swarm_locks[r] \in overridden'
    <2>1. cleaner[c] = r
      BY <1>7 DEF ForceReleaseDelete, TypeOK
    <2>. QED BY <1>7, <2>1 DEF ForceReleaseDelete
  <1>8. swarm_locks' # swarm_locks
    OBVIOUS
  <1>. QED BY <1>2, <1>3, <1>5, <1>6, <1>7, <1>8
           DEF Next, vars, MaintenanceStart, MaintenancePruneGenerations, ForceReleaseRead, Tick

\* Before it expires, a lease goes away only by its own tuple or an override.
THEOREM LeaseEndsByItsTuple == Spec => UnexpiredLeaseEndsByItsTuple
  <1>1. TypeOK /\ [Next]_vars =>
          [\A r \in Resource :
             IsBusy(r) /\ swarm_locks'[r] # swarm_locks[r] =>
               \/ \E l \in claims \ claims' : Matches(l) /\ l.resource = r
               \/ swarm_locks[r] \in overridden']_vars
    BY UnexpiredStays
  <1>. QED BY <1>1, TypeInit, TypeNext, PTL DEF Spec, UnexpiredLeaseEndsByItsTuple

-----------------------------------------------------------------------------
(* Exclusion and fencing *)

\* Every token issued since the generation row was last deleted is covered by the
\* stored generation, and no two leases of a resource issued since then carry the
\* same token.  This makes "same owner, epoch and token" an identity among them.
TokensIdentifyLeases ==
  /\ \A l \in issued :
       l.fencingToken <= StoredGeneration(l.resource).highestFencingToken
  /\ \A k, l \in issued :
       k.resource = l.resource /\ k.fencingToken = l.fencingToken => k = l

LEMMA TokensInit == Init => TokensIdentifyLeases
  BY DEF Init, TokensIdentifyLeases

\* acquireLease allocates a token above every token of the resource.
LEMMA AcquireIsFresh ==
  ASSUME TypeOK, TokensIdentifyLeases, NEW r \in Resource,
         NEW k \in issued, k.resource = r
  PROVE  k.fencingToken < NextToken(r)
  <1>1. k.fencingToken \in Nat /\ StoredGeneration(r).highestFencingToken \in Nat
    BY StoredGenerationType DEF TypeOK, Lease, Generation
  <1> QED
    BY <1>1, NextCounters DEF TokensIdentifyLeases

LEMMA TokensNext ==
  TypeOK /\ TokensIdentifyLeases /\ [Next]_vars => TokensIdentifyLeases'
  <1> SUFFICES ASSUME TypeOK, TokensIdentifyLeases, [Next]_vars
               PROVE  TokensIdentifyLeases'
    OBVIOUS
  <1>1. ASSUME NEW r \in Resource, NEW o \in Owner, NEW t \in Timeout,
               AcquireLease(r, o, t)
        PROVE  TokensIdentifyLeases'
    <2> DEFINE lease == [resource |-> r, ownerId |-> o, expiresAt |-> now + t,
                         leaseEpoch |-> NextEpoch(r), fencingToken |-> NextToken(r)]
    <2>1. /\ issued' = issued \cup {lease}
          /\ swarm_lock_generations' =
               [swarm_lock_generations EXCEPT
                  ![r] = [highestLeaseEpoch |-> NextEpoch(r),
                          highestFencingToken |-> NextToken(r)]]
      BY <1>1 DEF AcquireLease
    <2>2. lease.resource = r /\ lease.fencingToken = NextToken(r)
      OBVIOUS
    <2> HIDE DEF lease
    <2>3. /\ \A s \in Resource \ {r} : StoredGeneration(s)' = StoredGeneration(s)
          /\ StoredGeneration(r)'.highestFencingToken = NextToken(r)
      <3>1. [highestLeaseEpoch |-> NextEpoch(r), highestFencingToken |-> NextToken(r)]
            # NoRow
        BY NextCounters, NoRowAssumption DEF Generation
      <3> QED
        BY <2>1, <3>1 DEF StoredGeneration, TypeOK
    <2>4. \A k \in issued : k.resource \in Resource /\ k.fencingToken \in Nat
      BY DEF TypeOK, Lease
    <2>5. NextToken(r) \in Nat
      BY NextCounters
    <2>6. \A k \in issued : k.resource = r => k.fencingToken < NextToken(r)
      BY AcquireIsFresh
    <2>7. \A k \in issued' :
            k.fencingToken <= StoredGeneration(k.resource)'.highestFencingToken
      BY <2>1, <2>2, <2>3, <2>4, <2>5, <2>6 DEF TokensIdentifyLeases
    <2>8. \A k, l \in issued' :
            k.resource = l.resource /\ k.fencingToken = l.fencingToken => k = l
      BY <2>1, <2>2, <2>4, <2>5, <2>6 DEF TokensIdentifyLeases
    <2> QED
      BY <2>7, <2>8 DEF TokensIdentifyLeases
  <1>2. CASE UNCHANGED <<issued, swarm_lock_generations>>
    BY <1>2 DEF TokensIdentifyLeases, StoredGeneration
  <1>3. ASSUME NEW l \in claims, Release(l)
        PROVE  UNCHANGED <<issued, swarm_lock_generations>>
    BY <1>3 DEF Release
  <1>4. PruneStaleLocks => UNCHANGED <<issued, swarm_lock_generations>>
    BY DEF PruneStaleLocks, history
  <1>5. ASSUME NEW c \in Cleaner, NEW r \in Resource, ForceReleaseRead(c, r)
        PROVE  UNCHANGED <<issued, swarm_lock_generations>>
    BY <1>5 DEF ForceReleaseRead, history
  <1>6. ASSUME NEW c \in Cleaner, ForceReleaseDelete(c)
        PROVE  UNCHANGED <<issued, swarm_lock_generations>>
    BY <1>6 DEF ForceReleaseDelete
  <1>7. Tick \/ UNCHANGED vars => UNCHANGED <<issued, swarm_lock_generations>>
    BY DEF Tick, vars, history
  <1>8. ASSUME NEW e \in Engine, MaintenanceStart(e) \/ MaintenanceDeleteLocks(e)
        PROVE  UNCHANGED <<issued, swarm_lock_generations>>
    BY <1>8 DEF MaintenanceStart, MaintenanceDeleteLocks, history
  <1>9. ASSUME NEW e \in Engine, MaintenancePruneGenerations(e)
        PROVE  TokensIdentifyLeases'
    <2>1. issued' \subseteq issued /\ \A l \in issued' : HasLease(l.resource)
      BY <1>9 DEF MaintenancePruneGenerations, Forget
    <2>2. \A l \in issued' : StoredGeneration(l.resource)' = StoredGeneration(l.resource)
      BY <1>9, <2>1 DEF MaintenancePruneGenerations, StoredGeneration, TypeOK, Lease
    <2>. QED BY <2>1, <2>2 DEF TokensIdentifyLeases
  <1> QED
    BY <1>1, <1>2, <1>3, <1>4, <1>5, <1>6, <1>7, <1>8, <1>9 DEF Next

\* Types and token identity hold together.
LEMMA TokensAlways == Spec => [](TypeOK /\ TokensIdentifyLeases)
  BY TypeInit, TypeNext, TokensInit, TokensNext, PTL DEF Spec

\* A token issued since the generation row was last deleted and accepted by
\* assertCurrentFencingToken belongs to the lease in the table.
THEOREM OnlyHolderPasses == Spec => []OnlyHolderPassesFencing
  <1>1. TypeOK /\ TokensIdentifyLeases => OnlyHolderPassesFencing
    BY DEF TypeOK, TokensIdentifyLeases, OnlyHolderPassesFencing,
           FencingTokenAccepted, HasLease, Lease
  <1> QED
    BY <1>1, TokensAlways, PTL

\* acquireLease hands out strictly growing tokens on every resource for as long
\* as no maintenance run deletes its generation row.
THEOREM TokensGrow == Spec => FencingTokensGrow
  <1> DEFINE Grows == \A l \in issued' \ issued : \A k \in issued :
                        k.resource = l.resource => k.fencingToken < l.fencingToken
  <1>1. TypeOK /\ TokensIdentifyLeases /\ [Next]_vars => [Grows]_vars
    <2> SUFFICES ASSUME TypeOK, TokensIdentifyLeases, Next PROVE Grows
      BY DEF Grows
    <2>1. ASSUME NEW r \in Resource, NEW o \in Owner, NEW t \in Timeout,
                 AcquireLease(r, o, t)
          PROVE  Grows
      <3>1. \A l \in issued' \ issued :
              l.resource = r /\ l.fencingToken = NextToken(r)
        BY <2>1 DEF AcquireLease
      <3> QED
        BY <3>1, AcquireIsFresh
    <2>2. CASE UNCHANGED issued
      BY <2>2
    <2> QED
      BY <2>1, <2>2 DEF Next, Release, PruneStaleLocks, ForceReleaseRead,
                        ForceReleaseDelete, Tick, MaintenanceStart, history,
                        MaintenanceDeleteLocks, MaintenancePruneGenerations, Forget
  <1> QED
    BY <1>1, TokensAlways, PTL DEF Spec, FencingTokensGrow

LEMMA HeldInit == Init => LiveClaimIsHeld
  BY DEF Init, LiveClaimIsHeld

\* The exclusion invariant is inductive together with token identity: a release
\* that matches the row presents the very lease the row holds, or a forgotten one.
LEMMA HeldNext ==
  TypeOK /\ TokensIdentifyLeases /\ LiveClaimIsHeld /\ [Next]_vars
    => LiveClaimIsHeld'
  <1> SUFFICES ASSUME TypeOK, TokensIdentifyLeases, LiveClaimIsHeld, [Next]_vars,
                      NEW l \in claims' \ TakenAway', l.expiresAt > now'
               PROVE  swarm_locks'[l.resource] = l
    BY DEF LiveClaimIsHeld
  <1> USE DEF TakenAway, history
  <1>1. ASSUME NEW r \in Resource, NEW o \in Owner, NEW t \in Timeout,
               AcquireLease(r, o, t)
        PROVE  swarm_locks'[l.resource] = l
    <2> DEFINE lease == [resource |-> r, ownerId |-> o, expiresAt |-> now + t,
                         leaseEpoch |-> NextEpoch(r), fencingToken |-> NextToken(r)]
    <2>1. CASE l # lease
      <3>1. l \in claims \ TakenAway /\ l.expiresAt > now
        BY <1>1, <2>1 DEF AcquireLease
      <3>2. swarm_locks[l.resource] = l /\ l \in Lease
        BY <3>1 DEF LiveClaimIsHeld, TypeOK
      <3>3. l.resource # r
        BY <1>1, <3>1, <3>2, NoRowAssumption DEF AcquireLease, IsBusy, HasLease
      <3> QED
        BY <1>1, <3>2, <3>3 DEF AcquireLease
    <2>2. CASE l = lease
      BY <1>1, <2>2 DEF AcquireLease, TypeOK
    <2> QED
      BY <2>1, <2>2
  <1>2. ASSUME NEW k \in claims, Release(k) PROVE swarm_locks'[l.resource] = l
    <2>1. l \in claims \ TakenAway /\ l # k
      BY <1>2 DEF Release
    <2>2. swarm_locks[l.resource] = l /\ l \in Lease /\ HasLease(l.resource) /\ l \in issued
      <3>1. swarm_locks[l.resource] = l /\ l \in Lease
        BY <1>2, <2>1 DEF LiveClaimIsHeld, Release, TypeOK
      <3>2. l.resource \in Resource /\ l # NoRow
        BY <3>1, NoRowAssumption DEF Lease
      <3>. QED BY <3>1, <3>2 DEF TypeOK, HasLease
    <2>3. CASE Matches(k) /\ k.resource = l.resource
      <3>1. l.fencingToken = k.fencingToken
        BY <2>2, <2>3 DEF Matches
      <3>2. k \in issued
        BY <1>2, <2>1, <2>2, <2>3 DEF Release, TypeOK
      <3> QED
        BY <2>1, <2>2, <2>3, <3>1, <3>2 DEF TokensIdentifyLeases
    <2>4. CASE ~(Matches(k) /\ k.resource = l.resource)
      BY <1>2, <2>2, <2>4 DEF Release
    <2> QED
      BY <2>3, <2>4
  <1>3. CASE PruneStaleLocks
    <2>1. swarm_locks[l.resource] = l /\ l \in Lease /\ now' = now
      BY <1>3 DEF LiveClaimIsHeld, PruneStaleLocks, TypeOK
    <2>2. ~(l.expiresAt < now) /\ l.resource \in Resource /\ HasLease(l.resource)
      BY <2>1, NoRowAssumption DEF TypeOK, Lease, HasLease
    <2> QED
      BY <1>3, <2>1, <2>2, WithoutExpiredRows DEF PruneStaleLocks, TypeOK
  <1>4. ASSUME NEW c \in Cleaner, NEW r \in Resource, ForceReleaseRead(c, r)
        PROVE  swarm_locks'[l.resource] = l
    BY <1>4 DEF ForceReleaseRead, LiveClaimIsHeld
  <1>5. ASSUME NEW c \in Cleaner, ForceReleaseDelete(c)
        PROVE  swarm_locks'[l.resource] = l
    <2>1. swarm_locks[l.resource] = l /\ l \in Lease
      BY <1>5 DEF LiveClaimIsHeld, ForceReleaseDelete, TypeOK
    <2>2. l.resource # cleaner[c]
      BY <1>5, <2>1, NoRowAssumption DEF ForceReleaseDelete, HasLease
    <2> QED
      BY <1>5, <2>1, <2>2 DEF ForceReleaseDelete
  <1>6. CASE Tick
    BY <1>6 DEF Tick, LiveClaimIsHeld, TypeOK, Lease
  <1>7. CASE UNCHANGED vars
    BY <1>7 DEF vars, LiveClaimIsHeld
  <1>8. ASSUME NEW e \in Engine, MaintenanceStart(e) \/ MaintenancePruneGenerations(e)
        PROVE  swarm_locks'[l.resource] = l
    BY <1>8 DEF MaintenanceStart, MaintenancePruneGenerations, Forget, LiveClaimIsHeld
  <1>9. ASSUME NEW e \in Engine, MaintenanceDeleteLocks(e)
        PROVE  swarm_locks'[l.resource] = l
    <2>1. swarm_locks[l.resource] = l /\ l \in Lease /\ l.expiresAt > now
      BY <1>9 DEF LiveClaimIsHeld, MaintenanceDeleteLocks, TypeOK
    <2>2. l.resource \in Resource /\ HasLease(l.resource)
      BY <2>1, NoRowAssumption DEF TypeOK, Lease, HasLease
    <2>3. engine[e].cutoff \in Nat /\ ~(l.expiresAt < engine[e].cutoff)
      BY <2>1 DEF TypeOK, EngineState, Lease
    <2>. QED BY <1>9, <2>1, <2>2, <2>3, WithoutExpiredRows DEF MaintenanceDeleteLocks
  <1> QED
    BY <1>1, <1>2, <1>3, <1>4, <1>5, <1>6, <1>7, <1>8, <1>9 DEF Next

\* Nothing but expiry, its own release, an administrator or a claim that a
\* maintenance run has forgotten ends a lease.
THEOREM LiveClaimHeld == Spec => []LiveClaimIsHeld
  BY TypeInit, TypeNext, TokensInit, TokensNext, HeldInit, HeldNext, PTL DEF Spec

\* Two owners never hold unexpired leases on one resource, none of them taken away.
THEOREM Exclusion == Spec => []MutualExclusion
  <1>1. LiveClaimIsHeld => MutualExclusion
    BY DEF LiveClaimIsHeld, MutualExclusion
  <1> QED
    BY <1>1, LiveClaimHeld, PTL

-----------------------------------------------------------------------------
(* Refinement of the abstract fenced lease *)

OwnerMap == [r \in Resource |-> IF IsBusy(r) THEN swarm_locks[r].ownerId ELSE NoRow]
FenceMap == [r \in Resource |-> StoredGeneration(r).highestFencingToken]

LEMMA RefineInit == Init => Fenced!Init
  BY DEF Init, Fenced!Init, IsBusy, HasLease, StoredGeneration

\* A step that adds no busy resource and leaves the generations alone is a loss
\* of ownership (or a stutter) of the abstract lease.
LEMMA LosesOrStutters ==
  ASSUME UNCHANGED swarm_lock_generations,
         \A r \in Resource :
           OwnerMap'[r] \in {NoRow, OwnerMap[r]}
  PROVE  Fenced!Next
  <1>1. FenceMap' = FenceMap
    BY DEF FenceMap, StoredGeneration
  <1>2. PICK R \in SUBSET Resource :
          OwnerMap' = [r \in Resource |-> IF r \in R THEN NoRow ELSE OwnerMap[r]]
    <2> DEFINE R == {r \in Resource : OwnerMap'[r] = NoRow}
    <2>1. OwnerMap' = [r \in Resource |-> IF r \in R THEN NoRow ELSE OwnerMap[r]]
      BY DEF OwnerMap
    <2> QED
      BY <2>1
  <1>3. Fenced!Lose(R)
    BY <1>1, <1>2 DEF Fenced!Lose, OwnerMap, FenceMap
  <1> QED
    BY <1>3 DEF Fenced!Next

\* acquireLease is the abstract grant: the resource was free, the new row is
\* busy because timeouts are positive, and the stored generation grew.
LEMMA AcquireIsGrant ==
  ASSUME TypeOK, NEW r \in Resource, NEW o \in Owner, NEW t \in Timeout,
         AcquireLease(r, o, t)
  PROVE  Fenced!Next
  <1> DEFINE lease == [resource |-> r, ownerId |-> o, expiresAt |-> now + t,
                       leaseEpoch |-> NextEpoch(r), fencingToken |-> NextToken(r)]
             gen == [highestLeaseEpoch |-> NextEpoch(r),
                     highestFencingToken |-> NextToken(r)]
  <1>1. /\ swarm_locks' = [swarm_locks EXCEPT ![r] = lease]
        /\ swarm_lock_generations' = [swarm_lock_generations EXCEPT ![r] = gen]
        /\ now' = now
        /\ ~IsBusy(r)
    BY DEF AcquireLease
  <1>2. lease # NoRow /\ gen # NoRow /\ lease.expiresAt > now /\ lease.ownerId = o
    BY NextCounters, NoRowAssumption, TimeoutAssumption DEF TypeOK, Lease, Generation
  <1>3. gen.highestFencingToken = NextToken(r)
    OBVIOUS
  <1> HIDE DEF lease, gen
  <1>4. OwnerMap[r] = NoRow /\ OwnerMap' = [OwnerMap EXCEPT ![r] = o]
    BY <1>1, <1>2 DEF OwnerMap, IsBusy, HasLease, TypeOK
  <1>5. FenceMap' = [FenceMap EXCEPT ![r] = NextToken(r)]
    BY <1>1, <1>2, <1>3 DEF FenceMap, StoredGeneration, TypeOK
  <1>6. FenceMap \in [Resource -> Nat]
    BY StoredGenerationType DEF FenceMap, Generation
  <1>7. NextToken(r) \in Nat /\ NextToken(r) > FenceMap[r]
    BY NextCounters DEF FenceMap
  <1>8. Fenced!Grant(r, o)
    <2>1. /\ FenceMap' \in [Resource -> Nat]
          /\ FenceMap'[r] > FenceMap[r]
          /\ \A s \in Resource \ {r} : FenceMap'[s] = FenceMap[s]
      BY <1>5, <1>6, <1>7
    <2> QED
      BY <1>4, <2>1 DEF Fenced!Grant, OwnerMap, FenceMap
  <1> QED
    BY <1>8 DEF Fenced!Next

\* A maintenance run forgets the fences of resources that no one owns.
LEMMA PruneForgets ==
  ASSUME TypeOK, NEW e \in Engine, MaintenancePruneGenerations(e)
  PROVE  \E R \in SUBSET Resource : Fenced!Forget(R)
  <1> DEFINE R == {r \in Resource : ~HasLease(r)}
  <1>1. \A r \in R : OwnerMap[r] = NoRow
    BY DEF OwnerMap, IsBusy
  <1>2. OwnerMap' = OwnerMap
    BY DEF OwnerMap, IsBusy, HasLease, MaintenancePruneGenerations
  <1>3. FenceMap' = [r \in Resource |-> IF r \in R THEN 0 ELSE FenceMap[r]]
    BY DEF FenceMap, StoredGeneration, MaintenancePruneGenerations
  <1>4. Fenced!Forget(R)
    BY <1>1, <1>2, <1>3 DEF Fenced!Forget, OwnerMap, FenceMap
  <1> QED
    BY <1>4

\* Every other step of the service leaves each resource owned as it was or
\* owned by nobody.
LEMMA OthersLose ==
  ASSUME TypeOK, [Next]_vars,
         \A r \in Resource, o \in Owner, t \in Timeout : ~AcquireLease(r, o, t),
         \A e \in Engine : ~MaintenancePruneGenerations(e)
  PROVE  Fenced!Next
  <1> USE DEF history
  <1>1. UNCHANGED swarm_lock_generations
    BY DEF Next, vars, Release, PruneStaleLocks, ForceReleaseRead,
           ForceReleaseDelete, Tick, MaintenanceStart, MaintenanceDeleteLocks
  <1>2. now' \in Nat /\ now \in Nat /\ now <= now'
    BY DEF Next, vars, Release, PruneStaleLocks, ForceReleaseRead,
           ForceReleaseDelete, Tick, MaintenanceStart, MaintenanceDeleteLocks, TypeOK
  <1>3. \A r \in Resource : swarm_locks'[r] \in {swarm_locks[r], NoRow}
    <2>1. ASSUME NEW l \in claims, Release(l)
          PROVE  \A r \in Resource : swarm_locks'[r] \in {swarm_locks[r], NoRow}
      BY <2>1 DEF Release, TypeOK
    <2>2. ASSUME PruneStaleLocks
          PROVE  \A r \in Resource : swarm_locks'[r] \in {swarm_locks[r], NoRow}
      BY <2>2, WithoutExpiredRows DEF PruneStaleLocks, TypeOK
    <2>3. ASSUME NEW c \in Cleaner, ForceReleaseDelete(c)
          PROVE  \A r \in Resource : swarm_locks'[r] \in {swarm_locks[r], NoRow}
      BY <2>3 DEF ForceReleaseDelete, TypeOK
    <2>4. ASSUME NEW e \in Engine, MaintenanceDeleteLocks(e)
          PROVE  \A r \in Resource : swarm_locks'[r] \in {swarm_locks[r], NoRow}
      <3>1. engine[e].cutoff \in Nat
        BY DEF TypeOK, EngineState
      <3>. QED BY <2>4, <3>1, WithoutExpiredRows DEF MaintenanceDeleteLocks
    <2>5. CASE UNCHANGED swarm_locks
      BY <2>5
    <2> QED
      BY <2>1, <2>2, <2>3, <2>4, <2>5
      DEF Next, vars, ForceReleaseRead, Tick, MaintenanceStart
  <1>4. \A r \in Resource : OwnerMap'[r] \in {NoRow, OwnerMap[r]}
    <2> SUFFICES ASSUME NEW r \in Resource,
                        swarm_locks'[r] = swarm_locks[r], swarm_locks[r] # NoRow
                 PROVE  OwnerMap'[r] \in {NoRow, OwnerMap[r]}
      BY <1>3 DEF OwnerMap, IsBusy, HasLease
    <2>1. swarm_locks[r].expiresAt \in Nat
      BY DEF TypeOK, Lease
    <2> QED
      BY <1>2, <2>1 DEF OwnerMap, IsBusy, HasLease
  <1> QED
    BY <1>1, <1>4, LosesOrStutters

\* SwarmMutexService, beside any number of maintenance engines, implements the
\* abstract fenced lease whose fence may be forgotten while no one owns it.
THEOREM Refinement == Spec => RefinesFencedLease
  <1>1. TypeOK /\ [Next]_vars => Fenced!Next \/ \E R \in SUBSET Resource : Fenced!Forget(R)
    BY AcquireIsGrant, OthersLose, PruneForgets
  <1> QED
    BY <1>1, RefineInit, TypeInit, TypeNext, PTL
    DEF Spec, RefinesFencedLease, Fenced!ForgetfulSpec

=============================================================================

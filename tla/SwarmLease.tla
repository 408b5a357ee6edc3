----------------------------- MODULE SwarmLease -----------------------------
(***************************************************************************)
(* The durable lease table of the governed swarm: SwarmMutexService over   *)
(* the BroccoliDB tables swarm_locks and swarm_lock_generations, every     *)
(* other writer of those tables (the maintenance engine, the administra-   *)
(* tive cleaner), and the fencing-token test callers rely on.              *)
(*                                                                         *)
(* Each service call touches the tables in one synchronous block between   *)
(* two awaits, so a call is one action.  The maintenance run and the       *)
(* administrative cleaner await between their accesses and are split       *)
(* there.                                                                  *)
(***************************************************************************)
EXTENDS Naturals, FiniteSets

CONSTANTS
  Resource,      \* lease keys
  Owner,         \* owner ids
  Timeout,       \* lease lengths callers ask for (timeoutMs)
  Engine,        \* processes that run the maintenance engine
  Cleaner,       \* administrators that may run the panic cleanup
  NoRow,         \* no row, in either table; no resource
  MaxTime,       \* bound on the clock
  MaxToken,      \* bound on the counters a lease may be given
  MaxClaims      \* bound on the claims callers have at a time

ASSUME TimeoutAssumption == Timeout \subseteq Nat \ {0}
ASSUME BoundsAssumption == {MaxTime, MaxToken, MaxClaims} \subseteq Nat

\* A row of swarm_locks.  protocolVersion, authorityMode and pid are the same
\* for every row this service writes; createdAt is never read back.
Lease == [resource: Resource, ownerId: Owner, expiresAt: Nat,
          leaseEpoch: Nat \ {0}, fencingToken: Nat \ {0}]

\* A row of swarm_lock_generations.
Generation == [highestLeaseEpoch: Nat, highestFencingToken: Nat]

ASSUME NoRowAssumption == NoRow \notin Lease \cup Generation \cup Resource

VARIABLES
  now,                     \* Date.now()
  swarm_locks,             \* [Resource -> row or NoRow]
  swarm_lock_generations,  \* [Resource -> row or NoRow]
  claims,                  \* leases returned to a caller that has not released them
  engine,                  \* [Engine -> where its runMaintenance stands]
  cleaner,                 \* [Cleaner -> resource it is about to delete, or NoRow]
  issued,                  \* history: leases handed out since the generation
                           \*   row of their resource was last deleted
  forgotten,               \* history: claims handed out before that
  overridden,              \* history: claims whose row an administrator deleted
  mistaken                 \* history: claims whose row a forgotten claim released

history == <<issued, forgotten, overridden, mistaken>>

vars == <<now, swarm_locks, swarm_lock_generations, claims, engine, cleaner, history>>

-----------------------------------------------------------------------------
(* The tables *)

HasLease(r) == swarm_locks[r] # NoRow

\* acquireLease refuses while expiresAt > now: a lease is lost to others at
\* the very millisecond it expires.
IsBusy(r) == HasLease(r) /\ swarm_locks[r].expiresAt > now

\* verify and assertCurrentFencingToken still accept that last millisecond.
IsStale(l) == l.expiresAt < now

\* Mutant: the counter continues from the smaller of the two.
Larger_Smaller(a, b) == IF a < b THEN a ELSE b

Larger(a, b) == IF a > b THEN a ELSE b

\* INSERT OR IGNORE ... ('0', '0'), then the SELECT that follows it.
StoredGeneration(r) ==
  IF swarm_lock_generations[r] = NoRow
  THEN [highestLeaseEpoch |-> 0, highestFencingToken |-> 0]
  ELSE swarm_lock_generations[r]

\* Mutant: the counter is read back but not advanced.
NextEpoch_NotAdvanced(r) ==
  Larger(StoredGeneration(r).highestLeaseEpoch,
         IF HasLease(r) THEN swarm_locks[r].leaseEpoch ELSE 0)

NextEpoch(r) ==
  1 + Larger(StoredGeneration(r).highestLeaseEpoch,
             IF HasLease(r) THEN swarm_locks[r].leaseEpoch ELSE 0)

\* Mutant: the token continues from the lease row alone, which a release deletes.
NextToken_FromRowOnly(r) ==
  1 + (IF HasLease(r) THEN swarm_locks[r].fencingToken ELSE 0)

NextToken(r) ==
  1 + Larger(StoredGeneration(r).highestFencingToken,
             IF HasLease(r) THEN swarm_locks[r].fencingToken ELSE 0)

\* Mutant: rows are deleted one millisecond before they expire.
WithoutExpired_Early(cutoff) ==
  [r \in Resource |->
     IF HasLease(r) /\ swarm_locks[r].expiresAt <= cutoff + 1
     THEN NoRow ELSE swarm_locks[r]]

\* DELETE ... WHERE expiresAt < cutoff
WithoutExpired(cutoff) ==
  [r \in Resource |->
     IF HasLease(r) /\ swarm_locks[r].expiresAt < cutoff
     THEN NoRow ELSE swarm_locks[r]]

-----------------------------------------------------------------------------
(* SwarmMutexService *)

\* acquireLease that finds no unexpired lease.
AcquireLease(r, o, timeoutMs) ==
  LET lease == [resource |-> r, ownerId |-> o, expiresAt |-> now + timeoutMs,
                leaseEpoch |-> NextEpoch(r), fencingToken |-> NextToken(r)]
  IN  /\ ~IsBusy(r)
      /\ NextToken(r) <= MaxToken /\ NextEpoch(r) <= MaxToken
      /\ Cardinality(claims) < MaxClaims
      /\ swarm_lock_generations' =
           [swarm_lock_generations EXCEPT
              ![r] = [highestLeaseEpoch |-> lease.leaseEpoch,
                      highestFencingToken |-> lease.fencingToken]]
      /\ swarm_locks' = [swarm_locks EXCEPT ![r] = lease]
      /\ claims' = claims \cup {lease}
      /\ issued' = issued \cup {lease}
      /\ forgotten' = forgotten \ {lease}
      /\ overridden' = overridden \ {lease}
      /\ mistaken' = mistaken \ {lease}
      /\ UNCHANGED <<now, engine, cleaner>>

\* Mutant: release trusts the owner id and ignores epoch and token.
Matches_OwnerOnly(l) ==
  HasLease(l.resource) /\ swarm_locks[l.resource].ownerId = l.ownerId

\* The row release deletes: resource, owner, epoch and token must all match.
Matches(l) ==
  /\ HasLease(l.resource)
  /\ swarm_locks[l.resource].ownerId = l.ownerId
  /\ swarm_locks[l.resource].leaseEpoch = l.leaseEpoch
  /\ swarm_locks[l.resource].fencingToken = l.fencingToken

\* release: deletes the matching row, and otherwise reports not_owner or
\* already_gone without touching the tables.  The caller is done either way.
Release(l) ==
  /\ l \in claims
  /\ swarm_locks' = IF Matches(l)
                    THEN [swarm_locks EXCEPT ![l.resource] = NoRow]
                    ELSE swarm_locks
  /\ claims' = claims \ {l}
  /\ forgotten' = forgotten \ {l}
  /\ overridden' = overridden \ {l}
  /\ mistaken' = (IF Matches(l) /\ l \in forgotten
                  THEN mistaken \cup {swarm_locks[l.resource]}
                  ELSE mistaken) \ {l}
  /\ UNCHANGED <<now, swarm_lock_generations, engine, cleaner, issued>>

PruneStaleLocks ==
  /\ swarm_locks' = WithoutExpired(now)
  /\ swarm_locks' # swarm_locks
  /\ UNCHANGED <<now, swarm_lock_generations, claims, engine, cleaner, history>>

-----------------------------------------------------------------------------
(* BroccoliMaintenanceEngine.runMaintenance *)

Idle == [step |-> "idle", cutoff |-> 0]

\* isRunning keeps one engine from overlapping its own runs; the cutoff is
\* read once, before the first delete.
MaintenanceStart(e) ==
  /\ engine[e] = Idle
  /\ engine' = [engine EXCEPT ![e] = [step |-> "locks", cutoff |-> now]]
  /\ UNCHANGED <<now, swarm_locks, swarm_lock_generations, claims, cleaner, history>>

MaintenanceDeleteLocks(e) ==
  /\ engine[e].step = "locks"
  /\ swarm_locks' = WithoutExpired(engine[e].cutoff)
  /\ engine' = [engine EXCEPT ![e].step = "generations"]
  /\ UNCHANGED <<now, swarm_lock_generations, claims, cleaner, history>>

\* The claims to a resource without lease row can no longer be told from those
\* that are handed out once its generation row is gone.
Forget ==
  LET lost == {l \in issued : ~HasLease(l.resource)}
  IN  /\ issued' = issued \ lost
      /\ forgotten' = forgotten \cup (lost \cap claims)
      /\ UNCHANGED <<overridden, mistaken>>

\* Mutant: every generation row is deleted, whether or not its lease is live.
MaintenancePruneGenerations_All(e) ==
  /\ engine[e].step = "generations"
  /\ swarm_lock_generations' = [r \in Resource |-> NoRow]
  /\ engine' = [engine EXCEPT ![e] = Idle]
  /\ Forget
  /\ UNCHANGED <<now, swarm_locks, claims, cleaner>>

\* Every generation row whose resource has no lease row is deleted: the live
\* resources are read and the rows deleted in one synchronous stretch.
MaintenancePruneGenerations(e) ==
  /\ engine[e].step = "generations"
  /\ swarm_lock_generations' =
       [r \in Resource |-> IF HasLease(r) THEN swarm_lock_generations[r] ELSE NoRow]
  /\ engine' = [engine EXCEPT ![e] = Idle]
  /\ Forget
  /\ UNCHANGED <<now, swarm_locks, claims, cleaner>>

-----------------------------------------------------------------------------
(* AdministrativeLockCleaner.forceReleaseSwarm, database part: it reads the  *)
(* row, then deletes whatever row the resource has by then.                  *)

ForceReleaseRead(c, r) ==
  /\ cleaner[c] = NoRow
  /\ HasLease(r)
  /\ cleaner' = [cleaner EXCEPT ![c] = r]
  /\ UNCHANGED <<now, swarm_locks, swarm_lock_generations, claims, engine, history>>

ForceReleaseDelete(c) ==
  /\ cleaner[c] # NoRow
  /\ LET r == cleaner[c]
     IN  /\ overridden' = IF HasLease(r) THEN overridden \cup {swarm_locks[r]}
                          ELSE overridden
         /\ swarm_locks' = [swarm_locks EXCEPT ![r] = NoRow]
  /\ cleaner' = [cleaner EXCEPT ![c] = NoRow]
  /\ UNCHANGED <<now, swarm_lock_generations, claims, engine, issued, forgotten,
                 mistaken>>

-----------------------------------------------------------------------------

Tick == /\ now < MaxTime
        /\ now' = now + 1
        /\ UNCHANGED <<swarm_locks, swarm_lock_generations, claims, engine,
                       cleaner, history>>

Init ==
  /\ now = 0
  /\ swarm_locks = [r \in Resource |-> NoRow]
  /\ swarm_lock_generations = [r \in Resource |-> NoRow]
  /\ claims = {}
  /\ engine = [e \in Engine |-> Idle]
  /\ cleaner = [c \in Cleaner |-> NoRow]
  /\ issued = {}
  /\ forgotten = {}
  /\ overridden = {}
  /\ mistaken = {}

Next ==
  \/ \E r \in Resource, o \in Owner, t \in Timeout : AcquireLease(r, o, t)
  \/ \E l \in claims : Release(l)
  \/ PruneStaleLocks
  \/ \E e \in Engine : MaintenanceStart(e)
  \/ \E e \in Engine : MaintenanceDeleteLocks(e)
  \/ \E e \in Engine : MaintenancePruneGenerations(e)
  \/ \E c \in Cleaner, r \in Resource : ForceReleaseRead(c, r)
  \/ \E c \in Cleaner : ForceReleaseDelete(c)
  \/ Tick

Spec == Init /\ [][Next]_vars

-----------------------------------------------------------------------------
(* Invariants *)

EngineState == [step: {"idle", "locks", "generations"}, cutoff: Nat]

\* The tables hold rows of their own key, with counters that start at 1, and
\* every row is a lease handed out since the generation row was last deleted,
\* to a caller that still has it.
TypeOK ==
  /\ now \in Nat
  /\ swarm_locks \in [Resource -> Lease \cup {NoRow}]
  /\ \A r \in Resource :
        HasLease(r) => swarm_locks[r].resource = r /\ swarm_locks[r] \in issued \cap claims
  /\ swarm_lock_generations \in [Resource -> Generation \cup {NoRow}]
  /\ issued \subseteq Lease /\ forgotten \subseteq Lease
  /\ overridden \cup mistaken \subseteq claims
  /\ claims \subseteq issued \cup forgotten
  /\ engine \in [Engine -> EngineState]
  /\ \A e \in Engine : engine[e].cutoff <= now
  /\ cleaner \in [Cleaner -> Resource \cup {NoRow}]

\* The only ways to lose an unexpired lease: an administrator deletes it, or a
\* caller releases a claim from before the last maintenance run that deleted
\* the generation row, and that claim had the same owner, epoch and token.
TakenAway == overridden \cup mistaken

\* A caller that holds an unexpired lease is the one the table names: nobody's
\* acquireLease, release, pruning or maintenance run takes it away before it
\* expires, but for an administrator and a claim that maintenance has forgotten.
LiveClaimIsHeld ==
  \A l \in claims \ TakenAway :
     l.expiresAt > now => swarm_locks[l.resource] = l

\* Two owners never both hold an unexpired lease on one resource, unless one of
\* the two has been taken away as above.
MutualExclusion ==
  \A k, l \in claims \ TakenAway :
     /\ k.resource = l.resource
     /\ k.expiresAt > now
     /\ l.expiresAt > now
     => k.ownerId = l.ownerId

\* While a lease row exists its generation row exists and stands exactly at
\* that lease, whatever release, pruning or maintenance interleaved: it is
\* what commitTaskCompletionTransaction calls the freshest generation.
GenerationCoversLease ==
  \A r \in Resource :
     HasLease(r) =>
       swarm_lock_generations[r] =
         [highestLeaseEpoch |-> swarm_locks[r].leaseEpoch,
          highestFencingToken |-> swarm_locks[r].fencingToken]

\* assertCurrentFencingToken, database part: only the token and the expiry are
\* compared, neither owner nor epoch.
FencingTokenAccepted(r, token) ==
  /\ HasLease(r)
  /\ swarm_locks[r].fencingToken = token
  /\ ~IsStale(swarm_locks[r])

\* A token that passes assertCurrentFencingToken was issued with the lease that
\* is in the table, or before the generation row was last deleted: a maintenance
\* run is the only thing by which an earlier token is ever accepted again.
OnlyHolderPassesFencing ==
  \A l \in issued :
     FencingTokenAccepted(l.resource, l.fencingToken) => swarm_locks[l.resource] = l

\* Every lease acquireLease hands out carries a token above all the tokens it
\* handed out for that resource since its generation row was last deleted.
FencingTokensGrow ==
  [][\A l \in issued' \ issued : \A k \in issued :
        k.resource = l.resource => k.fencingToken < l.fencingToken]_vars

\* "fencing token monotonicity" (governedSafetyAndLiveness.test.ts:256): a new
\* lease carries a token above that of every claim to the resource which a caller
\* still has.  A maintenance run sets the tokens back to 1.
FencingTokenMonotonicity ==
  [][\A l \in claims' \ claims : \A k \in claims :
        k.resource = l.resource => k.fencingToken < l.fencingToken]_vars

\* Before it expires, a lease row only goes away by a release that presents
\* its owner, epoch and token, or by an administrator; whatever pruning,
\* maintenance and other acquirers do.
UnexpiredLeaseEndsByItsTuple ==
  [][\A r \in Resource :
        IsBusy(r) /\ swarm_locks'[r] # swarm_locks[r] =>
          \/ \E l \in claims \ claims' : Matches(l) /\ l.resource = r
          \/ swarm_locks[r] \in overridden']_vars

-----------------------------------------------------------------------------
(* What the service promises: FencedLease, where a resource is owned while   *)
(* its lease row is unexpired and its fence is the stored generation.        *)

Fenced == INSTANCE FencedLease WITH
  Nobody <- NoRow,
  owner <- [r \in Resource |-> IF IsBusy(r) THEN swarm_locks[r].ownerId ELSE NoRow],
  fence <- [r \in Resource |-> StoredGeneration(r).highestFencingToken]

\* The service implements the abstract fenced lease, whose fence the
\* maintenance engine sets back while nobody owns the resource.
RefinesFencedLease == Fenced!ForgetfulSpec

=============================================================================

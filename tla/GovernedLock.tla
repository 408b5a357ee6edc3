---------------------------- MODULE GovernedLock ----------------------------
(***************************************************************************)
(* The lock of one governed lane, as UnifiedLockAuthority keeps it in the  *)
(* "broccoli" authority mode: a lease row in BroccoliDB, which decides,    *)
(* and three projections of it -- the in-process claim map, a lock file    *)
(* and a fence file -- which acquire, release, reconcile and the panic     *)
(* cleaner bring up to date one await at a time.                           *)
(*                                                                         *)
(* A call is a list of tasks: an actor starts an operation with its plan,  *)
(* and each action below does one step, the code between two awaits, of    *)
(* the task at the head of the plan.                                       *)
(***************************************************************************)
EXTENDS Naturals, Sequences

CONSTANTS
  Actor,        \* callers; an actor's id is the ownerId it asks leases for
  Reconciler,   \* actors that may admit a swarm (and so reconcile)
  Admin,        \* actors that may run the panic cleanup
  Process,
  Home,         \* [Actor -> Process]
  LeaseMs,      \* timeoutMs of a lane lock
  FenceMs,      \* STALE_MS of the fence file
  None,
  Corrupt,      \* what a reader makes of a file still being written
  MaxTime,      \* bound on the clock
  MaxToken,     \* bound on the fencing token
  MaxCrashes    \* bound on process crashes

ASSUME HomeAssumption == Home \in [Actor -> Process]
ASSUME LengthsAssumption == LeaseMs \in Nat \ {0} /\ FenceMs \in Nat \ {0}
ASSUME BoundsAssumption == MaxTime \in Nat /\ MaxToken \in Nat /\ MaxCrashes \in Nat

Files == {"filesystem", "broccoli"}
Backends == Files \cup {"memory", "database"}

\* A lease, a memory observation or the content of a projection file.  Epoch
\* and token advance together (SwarmLease), so one number stands for both.
Lease == [owner: Actor, token: Nat, expiresAt: Nat]

\* A file opened with "wx" and not written yet; its expiry is already chosen.
Partial == [writer: Actor, expiresAt: Nat]

ASSUME NoneAssumption ==
  /\ None \notin Lease \cup Partial \cup Actor
  /\ Corrupt \notin Lease \cup {None}

VARIABLES
  now,
  database,         \* the swarm_locks row of the lane, or None
  top,              \* highestFencingToken of its swarm_lock_generations row
  inProcessClaims,  \* [Process -> Lease or None]
  files,            \* [Files -> Lease, Partial or None]
  claim,            \* [Actor -> the lease of the LockClaim it holds, or None]
  job,              \* [Actor -> the call it is in]
  plan,             \* [Actor -> the tasks left of that call]
  lost,             \* history: tokens whose holder crashed or was overridden
  crashes

shared == <<database, top, inProcessClaims, files>>
vars == <<now, database, top, inProcessClaims, files, claim, job, plan, lost, crashes>>

-----------------------------------------------------------------------------
(* Identities *)

sameIdentity(l, m) == l.owner = m.owner /\ l.token = m.token

IsPartial(f) == f \in Partial
IsRecord(f) == f \in Lease

\* What readGovernedFileLock and readBroccoliFence report of a file.
Reading(f) == IF IsPartial(f) THEN Corrupt ELSE f

-----------------------------------------------------------------------------
(* Calls *)

NoSnapshot == [b \in Backends |-> None]

\* A call: what it is, the lease it is about, what it has observed, and where
\* it stands in the task at hand.
Call(kind, lease, snapshot) ==
  [kind |-> kind, lease |-> lease, snapshot |-> snapshot, at |-> "start", seen |-> None]

Idle == Call("idle", None, NoSnapshot)

Write(q)   == <<"write", q>>
Remove(q)  == <<"remove", q>>
Observe(b) == <<"observe", b>>
Drop(b)    == <<"drop", b>>
Commit     == <<"commit", "memory">>
Forget     == <<"forget", "memory">>
ReleaseRow == <<"release", "database">>

AcquirePlan == <<Write("filesystem"), Write("broccoli"), Commit>>
ReleasePlan == <<ReleaseRow, Forget, Remove("filesystem"), Remove("broccoli")>>
ObservePlan == <<Observe("database"), Observe("memory"),
                 Observe("filesystem"), Observe("broccoli")>>
PanicPlan   == <<Drop("database"), Drop("memory"),
                 Drop("filesystem"), Drop("broccoli")>>

\* Mutant: a rejected acquisition leaves its lease row behind.
AbandonPlan_KeepRow(task) ==
  CASE task = Write("filesystem") -> << >>
    [] task = Write("broccoli")   -> <<Remove("filesystem")>>
    [] OTHER                      -> <<Remove("broccoli"), Remove("filesystem")>>

\* Mutant: a rejected acquisition forgets the lock file it has written.
AbandonPlan_KeepFile(task) ==
  CASE task = Commit -> <<Remove("broccoli"), ReleaseRow>>
    [] OTHER         -> <<ReleaseRow>>

\* abandonLeaseAfterProjectionFailure: undo what was made before the failure.
AbandonPlan(task) ==
  CASE task = Write("filesystem") -> <<ReleaseRow>>
    [] task = Write("broccoli")   -> <<Remove("filesystem"), ReleaseRow>>
    [] OTHER                      -> <<Remove("broccoli"), Remove("filesystem"), ReleaseRow>>

Running(a) == plan[a] # << >>
Task(a) == Head(plan[a])
Doing(a, what) == Running(a) /\ Task(a)[1] = what
Target(a) == Task(a)[2]

\* Actor a begins a call, or a call goes on as another with a plan of its own.
\* An empty plan returns to the caller.
Begin(a, call, tasks) ==
  /\ plan' = [plan EXCEPT ![a] = tasks]
  /\ job' = [job EXCEPT ![a] = IF tasks = << >> THEN Idle ELSE call]

Continue(a, tasks) == Begin(a, [job[a] EXCEPT !.at = "start", !.seen = None], tasks)

At(a, step, seen) ==
  /\ job' = [job EXCEPT ![a] = [@ EXCEPT !.at = step, !.seen = seen]]
  /\ UNCHANGED plan

Succeed(a) == Continue(a, Tail(plan[a]))

\* The task at the head of the plan failed: an acquisition that could not
\* project is abandoned, a repair that could not remove an old projection
\* does not write the new one, and any other failure is only reported.
Fail(a) ==
  \/ /\ job[a].kind = "acquire"
     /\ Begin(a, Call("abandon", job[a].lease, NoSnapshot), AbandonPlan(Task(a)))
  \/ /\ job[a].kind = "repair" /\ Doing(a, "remove")
     /\ Continue(a, Tail(Tail(plan[a])))
  \/ /\ job[a].kind # "acquire" /\ ~(job[a].kind = "repair" /\ Doing(a, "remove"))
     /\ Succeed(a)

\* Only these calls delete a row, write projections or take a snapshot.
Releasing(a) == /\ job[a].kind \in {"release", "abandon", "reclaim"}
                /\ job[a].lease # None
                /\ Doing(a, "release")
Writing(a) == job[a].kind \in {"acquire", "repair"} /\ Doing(a, "write")
Observing(a) == job[a].kind = "reconcile" /\ Doing(a, "observe")

-----------------------------------------------------------------------------
(* Starting a call *)

IsBusy(row) == row # None /\ row.expiresAt > now

\* Mutant: the lease row is taken over whether or not it has expired.
AcquireDatabase_Steal(a) ==
  LET lease == [owner |-> a, token |-> top + 1, expiresAt |-> now + LeaseMs]
  IN  /\ job[a] = Idle /\ claim[a] = None
      /\ top < MaxToken
      /\ database' = lease
      /\ top' = top + 1
      /\ Begin(a, Call("acquire", lease, NoSnapshot), AcquirePlan)
      /\ UNCHANGED <<now, inProcessClaims, files, claim, lost, crashes>>

\* acquire: the lease row is taken first.  A busy row changes nothing.
AcquireDatabase(a) ==
  LET lease == [owner |-> a, token |-> top + 1, expiresAt |-> now + LeaseMs]
  IN  /\ job[a] = Idle /\ claim[a] = None
      /\ ~IsBusy(database) /\ top < MaxToken
      /\ database' = lease
      /\ top' = top + 1
      /\ Begin(a, Call("acquire", lease, NoSnapshot), AcquirePlan)
      /\ UNCHANGED <<now, inProcessClaims, files, claim, lost, crashes>>

\* release: from here on the caller no longer relies on the claim.
StartRelease(a) ==
  /\ job[a] = Idle /\ claim[a] # None
  /\ Begin(a, Call("release", claim[a], NoSnapshot), ReleasePlan)
  /\ claim' = [claim EXCEPT ![a] = None]
  /\ UNCHANGED <<now, shared, lost, crashes>>

\* reconcileSwarmLease, before the lanes of an admitted swarm are acquired.
StartReconcile(a) ==
  /\ a \in Reconciler
  /\ job[a] = Idle /\ claim[a] = None
  /\ Begin(a, Call("reconcile", None, NoSnapshot), ObservePlan)
  /\ UNCHANGED <<now, shared, claim, lost, crashes>>

\* AdministrativeLockCleaner.forceReleaseSwarm.
StartPanic(a) ==
  /\ a \in Admin
  /\ job[a] = Idle /\ claim[a] = None
  /\ Begin(a, Call("panic", None, NoSnapshot), PanicPlan)
  /\ UNCHANGED <<now, shared, claim, lost, crashes>>

-----------------------------------------------------------------------------
(* acquireGovernedFileLock and acquireBroccoliFence for job[a].lease *)

\* staleMs: the lane's timeout, what is left of it in a repair, or STALE_MS.
StaleMs(a) ==
  IF Target(a) = "broccoli" THEN FenceMs
  ELSE IF job[a].kind # "repair" THEN LeaseMs
  ELSE IF job[a].lease.expiresAt > now + 1 THEN job[a].lease.expiresAt - now
  ELSE 1

\* fs.open(path, "wx"): creates the file or finds one there.
Open(a) ==
  /\ Writing(a) /\ job[a].at = "start"
  /\ IF files[Target(a)] = None
     THEN /\ files' = [files EXCEPT ![Target(a)] = [writer |-> a, expiresAt |-> now + StaleMs(a)]]
          /\ At(a, "content", None)
     ELSE At(a, "read", None) /\ UNCHANGED files
  /\ UNCHANGED <<now, database, top, inProcessClaims, claim, lost, crashes>>

\* handle.writeFile: lost when the path was unlinked since it was opened.
Content(a) ==
  LET f == files[Target(a)]
  IN  /\ Writing(a) /\ job[a].at = "content"
      /\ files' = IF IsPartial(f) /\ f.writer = a
                  THEN [files EXCEPT ![Target(a)] = [owner |-> job[a].lease.owner,
                                                     token |-> job[a].lease.token,
                                                     expiresAt |-> f.expiresAt]]
                  ELSE files
      /\ Succeed(a)
      /\ UNCHANGED <<now, database, top, inProcessClaims, claim, lost, crashes>>

\* Mutant: an acquisition waits for the file of another lease to go.
ReadExisting_WaitForOther(a) ==
  LET f == files[Target(a)]
  IN  /\ Writing(a) /\ job[a].at = "read"
      /\ IF f = None /\ Target(a) = "filesystem" THEN At(a, "start", None)
         ELSE IF IsRecord(f) /\ now > f.expiresAt THEN At(a, "check", f)
         ELSE IF IsRecord(f) /\ sameIdentity(f, job[a].lease) THEN Succeed(a)
         ELSE IF IsRecord(f) THEN At(a, "start", None)
         ELSE Fail(a)
      /\ UNCHANGED <<now, shared, claim, lost, crashes>>

\* Mutant: the expiry is looked at before the record is validated.
ReadExisting_Unvalidated(a) ==
  LET f == files[Target(a)]
  IN  /\ Writing(a) /\ job[a].at = "read"
      /\ IF f = None /\ Target(a) = "filesystem" THEN At(a, "start", None)
         ELSE IF f # None /\ now > f.expiresAt THEN At(a, "check", f)
         ELSE IF IsRecord(f) /\ sameIdentity(f, job[a].lease) THEN Succeed(a)
         ELSE Fail(a)
      /\ UNCHANGED <<now, shared, claim, lost, crashes>>

\* The file that was in the way is read: gone, corrupt, expired, ours or not.
ReadExisting(a) ==
  LET f == files[Target(a)]
  IN  /\ Writing(a) /\ job[a].at = "read"
      /\ IF f = None /\ Target(a) = "filesystem" THEN At(a, "start", None)
         ELSE IF IsRecord(f) /\ now > f.expiresAt THEN At(a, "check", f)
         ELSE IF IsRecord(f) /\ sameIdentity(f, job[a].lease) THEN Succeed(a)
         ELSE Fail(a)
      /\ UNCHANGED <<now, shared, claim, lost, crashes>>

-----------------------------------------------------------------------------
(* releaseGovernedFileLock and releaseBroccoliFence, called to remove a      *)
(* projection or, within an acquisition, an expired one that is in the way   *)

\* The identity to be removed.
Removed(a) ==
  IF Doing(a, "write") THEN job[a].seen
  ELSE IF job[a].kind \in {"reclaim", "repair"} THEN job[a].snapshot[Target(a)]
  ELSE job[a].lease

\* The file is read and its identity compared; "already_gone" is a success
\* for a lock file that is only to be removed, and for nothing else.
Check(a) ==
  LET f == files[Target(a)]
  IN  /\ \/ Doing(a, "write") /\ job[a].at = "check"
         \/ Doing(a, "remove") /\ job[a].at = "start"
      /\ IF IsRecord(f) /\ sameIdentity(f, Removed(a)) THEN At(a, "unlink", None)
         ELSE IF f = None /\ Doing(a, "remove") /\ Target(a) = "filesystem" THEN Succeed(a)
         ELSE Fail(a)
      /\ UNCHANGED <<now, shared, claim, lost, crashes>>

\* fs.unlink removes whatever file has the path by now.
Unlink(a) ==
  LET q == Target(a)
  IN  /\ Running(a) /\ Task(a)[1] \in {"write", "remove"} /\ job[a].at = "unlink"
      /\ files' = [files EXCEPT ![q] = None]
      /\ IF Doing(a, "remove") /\ (files[q] # None \/ q = "filesystem") THEN Succeed(a)
         ELSE IF Doing(a, "write") /\ files[q] # None THEN At(a, "start", None)
         ELSE Fail(a)
      /\ UNCHANGED <<now, database, top, inProcessClaims, claim, lost, crashes>>

-----------------------------------------------------------------------------
(* The lease row and the in-process claim map *)

\* Mutant: the row is deleted by resource, whoever owns it.
ReleaseDatabase_Any(a) ==
  /\ Releasing(a)
  /\ database' = None
  /\ Succeed(a)
  /\ UNCHANGED <<now, top, inProcessClaims, files, claim, lost, crashes>>

\* SwarmMutexService.release: a compare-and-delete.  not_owner ends the call
\* at once and leaves the projections alone.
ReleaseDatabase(a) ==
  /\ Releasing(a)
  /\ IF database # None /\ sameIdentity(database, job[a].lease)
     THEN database' = None ELSE UNCHANGED database
  /\ IF database = None \/ sameIdentity(database, job[a].lease)
     THEN Succeed(a) ELSE Continue(a, << >>)
  /\ UNCHANGED <<now, top, inProcessClaims, files, claim, lost, crashes>>

\* Mutant: the claim map is overwritten without looking at it.
CommitClaim_Blind(a) ==
  /\ Doing(a, "commit")
  /\ inProcessClaims' = [inProcessClaims EXCEPT ![Home[a]] = job[a].lease]
  /\ claim' = [claim EXCEPT ![a] = job[a].lease]
  /\ Continue(a, << >>)
  /\ UNCHANGED <<now, database, top, files, lost, crashes>>

\* The acquisition succeeds unless the process remembers another lease.
CommitClaim(a) ==
  LET memory == inProcessClaims[Home[a]]
  IN  /\ Doing(a, "commit")
      /\ job[a].kind = "acquire"
      /\ IF memory # None /\ ~sameIdentity(memory, job[a].lease)
         THEN Fail(a) /\ UNCHANGED <<inProcessClaims, claim>>
         ELSE /\ inProcessClaims' = [inProcessClaims EXCEPT ![Home[a]] = job[a].lease]
              /\ claim' = [claim EXCEPT ![a] = job[a].lease]
              /\ Continue(a, << >>)
      /\ UNCHANGED <<now, database, top, files, lost, crashes>>

\* The claim map with process p's entry deleted if it still is lease l.
Forgotten(p, l) ==
  LET memory == inProcessClaims[p]
  IN  IF memory # None /\ l # None /\ sameIdentity(memory, l)
      THEN [inProcessClaims EXCEPT ![p] = None] ELSE inProcessClaims

ForgetClaim(a) ==
  /\ Doing(a, "forget")
  /\ inProcessClaims' = Forgotten(Home[a], IF job[a].kind = "release" THEN job[a].lease
                                           ELSE job[a].snapshot["memory"])
  /\ Succeed(a)
  /\ UNCHANGED <<now, database, top, files, claim, lost, crashes>>

-----------------------------------------------------------------------------
(* reconcileSwarmLease *)

Observed(a, b) ==
  IF b = "database" THEN database
  ELSE IF b = "memory" THEN inProcessClaims[Home[a]]
  ELSE Reading(files[b])

\* One backend is read; nothing keeps it from changing afterwards.
ObserveBackend(a) ==
  /\ Observing(a) /\ Target(a) \in Backends \ {"broccoli"}
  /\ Begin(a, Call("reconcile", None,
                   [job[a].snapshot EXCEPT ![Target(a)] = Observed(a, Target(a))]),
           Tail(plan[a]))
  /\ UNCHANGED <<now, shared, claim, lost, crashes>>

Projections == Files \cup {"memory"}

\* compareProjection: a projection BroccoliDB's row cannot explain.
Contradicts(l, row) == l.token > row.token \/ (l.token = row.token /\ l.owner # row.owner)

\* Projections that are missing or older than the row.
NeedsRepair(s) == {b \in Projections : s[b] = None \/ s[b].token < s["database"].token}

RemovalOf(s, q) == IF s[q] = None THEN << >> ELSE <<Remove(q)>>
CleanPlan(s) == RemovalOf(s, "filesystem") \o RemovalOf(s, "broccoli")
RewriteOf(s, q) == IF q \in NeedsRepair(s) THEN RemovalOf(s, q) \o <<Write(q)>> ELSE << >>
RepairPlan(s) == RewriteOf(s, "filesystem") \o RewriteOf(s, "broccoli")

\* What is kept of a snapshot once it is decided upon.
Keep(s) == [s EXCEPT !["database"] = None]

\* No row: every projection seen is an orphan.
ReclaimOrphans(a, s) ==
  /\ s["database"] = None
  /\ inProcessClaims' = Forgotten(Home[a], s["memory"])
  /\ Begin(a, Call("reclaim", None, Keep(s)), CleanPlan(s))

\* Mutant: the row counts as expired whatever its expiry.
Expired_Always(l) == l.expiresAt >= 0

Expired(l) == now > l.expiresAt

ReclaimExpired(a, s) ==
  /\ s["database"] # None /\ Expired(s["database"])
  /\ Begin(a, Call("reclaim", s["database"], Keep(s)),
           <<ReleaseRow, Forget>> \o CleanPlan(s))
  /\ UNCHANGED inProcessClaims

\* A live row: missing and older projections are rewritten from it, the claim
\* map at once; a projection it cannot explain makes the call fail closed.
RepairProjections(a, s) ==
  LET row == s["database"]
      memory == inProcessClaims[Home[a]]
  IN  /\ row # None /\ ~Expired(row)
      /\ IF \E b \in Projections : s[b] # None /\ Contradicts(s[b], row)
         THEN Continue(a, << >>) /\ UNCHANGED inProcessClaims
         ELSE /\ inProcessClaims' =
                   IF "memory" \in NeedsRepair(s)
                      /\ (memory = None \/ s["memory"] = None \/ sameIdentity(memory, s["memory"]))
                   THEN [inProcessClaims EXCEPT ![Home[a]] = row] ELSE inProcessClaims
              /\ Begin(a, Call("repair", row, Keep(s)), RepairPlan(s))

\* The fence is read last, and decideReconciliation decides on the snapshot.
Decide(a) ==
  LET s == [job[a].snapshot EXCEPT !["broccoli"] = Observed(a, "broccoli")]
  IN  /\ Observing(a) /\ Target(a) = "broccoli"
      /\ \/ /\ \E q \in Files : s[q] = Corrupt
            /\ Continue(a, << >>)
            /\ UNCHANGED inProcessClaims
         \/ /\ \A q \in Files : s[q] # Corrupt
            /\ ReclaimOrphans(a, s) \/ ReclaimExpired(a, s) \/ RepairProjections(a, s)
      /\ UNCHANGED <<now, database, top, files, claim, lost, crashes>>

-----------------------------------------------------------------------------
(* The panic cleaner: deletes what it finds, without comparing identities,   *)
(* but passes over a file it cannot parse                                    *)

DropMemory(a) ==
  /\ Doing(a, "drop") /\ Target(a) = "memory"
  /\ inProcessClaims' = [inProcessClaims EXCEPT ![Home[a]] = None]
  /\ Succeed(a)
  /\ UNCHANGED <<now, database, top, files, claim, lost, crashes>>

DropRead(a) ==
  /\ Doing(a, "drop") /\ Target(a) # "memory" /\ job[a].at = "start"
  /\ IF Observed(a, Target(a)) \in {None, Corrupt} THEN Succeed(a) ELSE At(a, "unlink", None)
  /\ UNCHANGED <<now, shared, claim, lost, crashes>>

DropDelete(a) ==
  /\ Doing(a, "drop") /\ job[a].at = "unlink"
  /\ IF Target(a) = "database"
     THEN /\ database' = None
          /\ lost' = IF database = None THEN lost ELSE lost \cup {database.token}
          /\ UNCHANGED files
     ELSE /\ files' = [files EXCEPT ![Target(a)] = None]
          /\ UNCHANGED <<database, lost>>
  /\ Succeed(a)
  /\ UNCHANGED <<now, top, inProcessClaims, claim, crashes>>

-----------------------------------------------------------------------------
(* Environment *)

Tick ==
  /\ now < MaxTime
  /\ now' = now + 1
  /\ UNCHANGED <<shared, claim, job, plan, lost, crashes>>

\* pruneStaleLocks and the maintenance engine.
PruneStaleLocks ==
  /\ database # None /\ database.expiresAt < now
  /\ database' = None
  /\ UNCHANGED <<now, top, inProcessClaims, files, claim, job, plan, lost, crashes>>

Resident(p) == {a \in Actor : Home[a] = p}

\* Leases an actor holds or is about to hold.
InHand(a) == {claim[a]} \cup (IF job[a].kind \in {"acquire", "abandon", "release"} THEN {job[a].lease} ELSE {})

\* A process dies: its memory, claims and calls are gone, rows and files stay.
Crash(p) ==
  /\ crashes < MaxCrashes
  /\ crashes' = crashes + 1
  /\ lost' = lost \cup {l.token : l \in (UNION {InHand(a) : a \in Resident(p)}) \ {None}}
  /\ claim' = [a \in Actor |-> IF Home[a] = p THEN None ELSE claim[a]]
  /\ job' = [a \in Actor |-> IF Home[a] = p THEN Idle ELSE job[a]]
  /\ plan' = [a \in Actor |-> IF Home[a] = p THEN << >> ELSE plan[a]]
  /\ inProcessClaims' = [inProcessClaims EXCEPT ![p] = None]
  /\ UNCHANGED <<now, database, top, files>>

-----------------------------------------------------------------------------

Init ==
  /\ now = 0
  /\ database = None
  /\ top = 0
  /\ inProcessClaims = [p \in Process |-> None]
  /\ files = [q \in Files |-> None]
  /\ claim = [a \in Actor |-> None]
  /\ job = [a \in Actor |-> Idle]
  /\ plan = [a \in Actor |-> << >>]
  /\ lost = {}
  /\ crashes = 0

Start(a) ==
  AcquireDatabase(a) \/ StartRelease(a) \/ StartReconcile(a) \/ StartPanic(a)

FileStep(a) ==
  Open(a) \/ Content(a) \/ ReadExisting(a) \/ Check(a) \/ Unlink(a)

Step(a) ==
  \/ FileStep(a)
  \/ ReleaseDatabase(a) \/ CommitClaim(a) \/ ForgetClaim(a)
  \/ ObserveBackend(a) \/ Decide(a)
  \/ DropMemory(a) \/ DropRead(a) \/ DropDelete(a)

Next ==
  \/ \E a \in Actor : Start(a) \/ Step(a)
  \/ \E p \in Process : Crash(p)
  \/ Tick \/ PruneStaleLocks

Spec == Init /\ [][Next]_vars

\* Every await in a call is answered; nobody is bound to start one.
FairSpec == Spec /\ \A a \in Actor : WF_vars(Step(a))

-----------------------------------------------------------------------------
(* Properties *)

Kinds == {"idle", "acquire", "abandon", "release", "reconcile", "reclaim", "repair", "panic"}

CallType == [kind: Kinds, lease: Lease \cup {None},
             snapshot: [Backends -> Lease \cup {None, Corrupt}],
             at: {"start", "content", "read", "check", "unlink"},
             seen: Lease \cup {None}]

\* Every variable stays in its type: rows, projections, claims and calls.
TypeOK ==
  /\ now \in Nat
  /\ database \in Lease \cup {None}
  /\ top \in Nat
  /\ inProcessClaims \in [Process -> Lease \cup {None}]
  /\ files \in [Files -> Lease \cup Partial \cup {None}]
  /\ claim \in [Actor -> Lease \cup {None}]
  /\ job \in [Actor -> CallType]
  /\ DOMAIN plan = Actor
  /\ lost \subseteq Nat
  /\ crashes \in Nat

IsLive(l) == l # None /\ l.expiresAt > now

\* The claim of an acquisition that succeeded, not expired nor overridden by
\* an administrator, is the lease BroccoliDB has for the lane: whatever
\* reconcilers, other acquirers and pruning do, no one else gets in.
LiveClaimIsLease ==
  \A a \in Actor : IsLive(claim[a]) /\ claim[a].token \notin lost => database = claim[a]

\* No row is leaked: someone holds the claim of the lane's row or is in the
\* call that will either hand it out or delete it, unless that holder crashed.
LeaseHasAKeeper ==
  database # None /\ database.token \notin lost =>
    \E a \in Actor : \/ claim[a] = database
                     \/ job[a].kind \in {"acquire", "abandon", "release"} /\ job[a].lease = database

\* No lease has run out so far.
Unhurried == now < LeaseMs

\* verify() accepts a live claim (LockAuthority): its process remembers it, so it
\* is not taken for a split brain, and, while no lease has run out, both files
\* carry it, so it is not taken for orphaned.
LiveClaimIsRecognised ==
  \A a \in Actor :
    IsLive(claim[a]) /\ claim[a].token \notin lost =>
      /\ inProcessClaims[Home[a]] # None
      /\ sameIdentity(inProcessClaims[Home[a]], claim[a])
      /\ Unhurried => \A q \in Files : IsRecord(files[q]) /\ sameIdentity(files[q], claim[a])

\* A file still being written has its writer at work: it is never left
\* unparseable, which readers would refuse to touch for good.
PartialHasWriter ==
  \A q \in Files : IsPartial(files[q]) =>
    LET writer == files[q].writer
    IN  Writing(writer) /\ Target(writer) = q /\ job[writer].at = "content"

AtRest == \A a \in Actor : job[a] = Idle /\ claim[a] = None

\* Calls clean up after themselves: no half-written file outlives the call that
\* writes it, and when no call is running, no claim is held and no lease has run
\* out, no projection is left over from a lease that is gone.
NothingLeftBehind ==
  /\ PartialHasWriter
  /\ AtRest /\ Unhurried /\ database = None =>
       /\ \A q \in Files : files[q] = None
       /\ \A p \in Process : inProcessClaims[p] = None

\* A lease whose expiry lies in the future is ended by its own holder or by an
\* administrator, never by a reconciler, the pruning or another acquirer.  (At the
\* millisecond it expires verify() still accepts it, and an acquirer may replace it.)
LeaseEndsByItsOwner ==
  [][database # None /\ database.expiresAt > now /\ database' # database =>
       \/ job[database.owner].kind \in {"abandon", "release"}
       \/ database.token \in lost']_vars

\* To everyone who asks BroccoliDB, the lane is a fenced lease: it has at most
\* one owner, passes through having none, and its token always grows.
LaneLease == INSTANCE FencedLease WITH
  Resource <- {"lane"}, Owner <- Actor, Nobody <- None,
  owner <- [r \in {"lane"} |-> IF IsBusy(database) THEN database.owner ELSE None],
  fence <- [r \in {"lane"} |-> top]

RefinesFencedLease == LaneLease!Spec

\* Every call returns: no retry of a file in the way goes on for ever.
EveryCallReturns == \A a \in Actor : Running(a) ~> ~Running(a)

=============================================================================

# HEAV3NS: a verification development of swarm, task and storage coordination

HEAV3NS is a TypeScript coding agent.  One task can fan out into a *governed
swarm*: a set of lanes executed by subagents, each lane working on its part of
the workspace under a durable lease.  A task itself lives through generations
under a durable lifecycle record, and ends by a completion that the user
accepts.  This directory holds TLA+ modules
translated from the source, the TLC configurations that check them on small
instances, and TLAPS proofs for every value of the constants.

Paths are relative to `src/src/` unless they start otherwise; `core/...` is
`src/src/core/...`.  `PROJECT.json` maps every definition to its lines.

1. Inventory of the system
2. The modules
3. The runs, their bounds and what they show
4. What is proved, and how
5. Where the code departs from what it says
6. What is not modelled
7. Plan

## 1. Inventory of the system

### Coordination (modelled)

| component | state | operations | hard behaviour | what makes it correct |
|---|---|---|---|---|
| Lease service `core/swarm/SwarmMutexService.ts` | tables `swarm_locks`, `swarm_lock_generations` | acquireLease, release, getLease, pruneStaleLocks | expiry against late release; counters that must never fall | one owner at a time, tokens that grow, an old tuple never ends a new lease; under maintenance, as long as nothing is forgotten |
| Maintenance engine `infrastructure/db/SQLiteMaintenanceEngine.ts` | `isRunning`, a cutoff read once per run | runMaintenance every five minutes | awaits between deleting leases and deleting generations | never touches a live lease or its generation |
| Lock authority `core/governance/LockAuthority.ts` | database lease, per-process claim map, lock file, fence file | acquire, release, verify, reconcileSwarmLease, assertCurrentFencingToken | four stores brought up to date one await at a time; crashes between them; reconciliation from a snapshot that is not atomic | the database decides; projections follow it; nobody loses a live lease |
| Lock file `shared/governance/fileLock.ts`, fence file `core/governance/BroccoliFencingAdapter.ts` | one file per resource each | acquire, release, read | create and write are two steps, read and unlink are two steps | no half-written file is left, a call returns |
| Panic cleaner `core/governance/AdministrativeLockCleaner.ts` | none | forceReleaseSwarm | deletes what it did not read | clears what it says it clears |
| Lane graph `core/task/tools/subagent/LaneDAG.ts` | node states | markRunning, markSealed, markFailed | the failure of a lane that was already sealed | order of the graph |
| Scheduler `core/task/tools/handlers/SubagentToolHandler.ts` (640-1664) | pending and running lanes, results, entries, stop reason, closing flag | executeSwarmLanes, runSubagent, requestSwarmStop | one thread, but some thirty awaits at which stops, time-outs, closing, retries and the steps of other lanes come in between | lanes in order, claims released, results consistent and final, the swarm ends |
| Coordinator `core/task/tools/subagent/GovernedSwarmCoordinator.ts` | lane graph, claims | admitSwarm, acquireLane, releaseLaneLocks, releaseLane | looks at the graph before its awaits and changes it after them | a claim is never lost without its release |
| Execution pool `core/task/tools/subagent/ParentAgentFlowControl.ts` | active count, waiters | acquire, release, cancel | hand-over against cancellation | no slot lost, none idle while a lane waits |
| Deadlock detector `core/task/tools/subagent/TarjanDeadlockDetector.ts` | none | detectDeadlocks | a snapshot that may be stale | finds exactly the circles without an escape |

How they interact: the parent task calls the handler once per swarm.
The handler's scheduler starts `runSubagent` for ready lanes; each call takes a
slot of the pool, asks the coordinator for the lane (`acquireLane`), which asks
the lock authority for a lease when the lane's intent needs one, and the lock
authority takes the row from the lease service and then writes its projections.
On the way back the coordinator releases the claim and moves the node of the
graph, and the end of each call wakes the scheduler.  Admission of a swarm (and
some retries) reconcile the leases of all its lanes.  The maintenance engine,
`pruneStaleLocks` and the panic cleaner change the lease tables behind
everybody's back, from this process or another one.

### Task authority (modelled)

| component | state | operations | hard behaviour | what makes it correct |
|---|---|---|---|---|
| Task lifecycle funnel `core/task/lifecycle/TaskLifecycleFunnel.ts`, `TaskLifecyclePersistence.ts` | event journal, record table, per-process cache and per-task tails | submit, restore, registerAndActivate, ensureActive | several processes on one store; nested submits to the children; a commit cut in two by a crash; repair on read | one history per task, attached children end with their parent, no process knows what was not committed |
| Row adapter `infrastructure/db/BroccoliStateDatabase.ts` | none of its own; `@noorm/broccolidb` is a dependency | INSERT, UPDATE, DELETE over tables | the key a row lies under against the key of its content | a row can be found again |
| Completion funnel `core/task/tools/completion/CompletionFunnel.ts`, `CompletionSagaCoordinator.ts` | completion attempts, completion fact, rejections | prepareCompletionAttempt, runAttempt, continueCompletionAttempt, reconcileForTask | a saga across a command, a suspension and a question to the user, taken up again after crashes beside the sagas of the session before | no completion without acceptance and evidence, no decision lost |
| Execution funnel `core/task/tools/execution/ExecutionFunnel.ts` | active invocations, terminal events, workspace version | execute | an event written in passing | (as far as completion depends on it) |
| Task loop `core/task/index.ts` | the open session | prepareResumeLifecycle, commitResumeLifecycle, abortTask | restoration step by step over whatever a crash left | the user resumes what he left |

The completion funnel and the task loop change the lifecycle only by intents to
the lifecycle funnel.  The tool loop evaluates an attempt and hands it to the
saga; a restored task hands over what it finds under way.

### Storage (modelled)

| component | state | operations | hard behaviour | what makes it correct |
|---|---|---|---|---|
| Buffered pool `infrastructure/db/BufferedDbPool.ts` | activeOps, inFlightOps, agent shadows, two mutexes, timers | push, pushBatch, beginWork, commitWork, rollbackWork, runTransaction, flush, cleanupShadows, stop | pushes during a flush, a failed flush, shadows reaped under a live transaction, stop against a flush | writes are applied once and in order, a transaction's in one piece, and not at all when rolled back |
| Connection lifecycle `infrastructure/db/Config.ts` (planned) | path, memoised promise, lifecycle chain | setDbPath, getDb, destroyDb | a change of path under open work | |

### Everything else

`PROJECT.json` "components" lists the rest of the system with the reason each
part is left out: user interfaces, hosts, generated protocol code, providers
and prompts, static analysis of the workspace, and adapters to external services
(some 600,000 lines, mostly I/O and text).

## 2. The modules

| module | models | lines |
|---|---|---|
| `FencedLease` | the promise of a fenced lease: at most one owner, passing through nobody, a fence that grows with each grant; `ForgetfulSpec` for a keeper that may lose the fence of a resource nobody owns | abstract |
| `SwarmLease` | the lease service, the maintenance engine, the panic cleaner's database part, the fencing test; implements the forgetful `FencedLease` | detailed |
| `GovernedLock` | the lock authority over one lane: row, claim maps of the processes, lock file, fence file; implements `FencedLease` | detailed |
| `LaneDAG` | the transitions of the lane graph and the deadlock test, as operators | helper |
| `OrderedWork` | the promise of the scheduler: work on an item begins only when all it needs is finished, and what is finished stays so, but for provisional items | abstract |
| `TaskGenerations` | the promise of the lifecycle: how generations of a tree of tasks start, are asked to stop, end and are renewed | abstract |
| `TaskLifecycle` | lifecycle funnels of several processes over journal and record table; implements `TaskGenerations` | detailed |
| `TaskCompletion` | attempts, sagas and sessions of one task, from its evaluation to its settlement | detailed |
| `WriteLog` | the promise of a write buffer: accepted writes reach the database once, oldest first | abstract |
| `BufferedPool` | the buffered pool with its mutexes, timers and shadows; implements `WriteLog` | detailed |
| `SwarmScheduler` | scheduler, lane calls, claims, slots, stop, closing and results of one swarm; EXTENDS `LaneDAG`, implements `OrderedWork` | detailed |
| `MC*` | instances for TLC | |
| `*Proofs` | theorems and proofs | |

Definitions whose name ends in an underscore and a suffix, each under a
comment "Mutant: ...", are variants of the definition that follows: a plausible
error in that place of the code.  With a definition replaced by its variant,
TLC finds the property named in `PROJECT.json` "mutants" violated.  No
specification uses them.

### SwarmLease

`swarm_locks` and `swarm_lock_generations` are the two tables as functions from
resources to rows.  The code runs a service call's database work in one
synchronous block inside `withImmediateTransaction`, so `AcquireLease`,
`Release` and `PruneStaleLocks` are one action each; their guards are the early
returns and thrown refusals.  A caller that was given a lease holds a `claim`
until it calls `Release`, at any later time: late and useless releases are
included.  `runMaintenance` awaits between reading its cutoff, deleting leases
and pruning generations: three actions, interleaved with all others, one
instance per `Engine`.  The clock moves by `Tick`; the difference between
`expiresAt > now` (busy, in the service) and `expiresAt < now` (stale, in
`verify` and `assertCurrentFencingToken`) is kept.  `issued`, `forgotten`,
`overridden` and `mistaken` are history variables: what was handed out since the
generation row was last deleted, the claims from before that, and the claims an
administrator or the release of such an old claim has taken away.
`MaintenancePruneGenerations` moves the leases of a resource it forgets from
`issued` to `forgotten` (`Forget`), since from then on nothing in the tables
tells them from new ones.

### GovernedLock

One lane, in the `broccoli` authority mode.  A call is a list of tasks
(`plan`), one per await of `acquire`, `release`,
`abandonLeaseAfterProjectionFailure`, `reconcileSwarmLease` or
`forceReleaseSwarm`; a file task has the steps of `fileLock.ts` and
`BroccoliFencingAdapter.ts`: open, content, read, check, unlink.  Each step may
be interleaved with steps of the other actors, expiry, pruning and crashes of a
process.  Where the two files differ (a missing file is a success for the lock
file and an error for the fence; the expiry of the fence is its own constant)
the actions test the target.  Epoch and token of a lease advance together in
`SwarmLease`, so one number stands for both here; `SwarmLease`'s `Matches`
compares all three parts.  Generations are not reset in this module: the
consequences of a reset are shown in `SwarmLease` and would repeat here, so
what is said of this module is said for lanes between two resets.

`verify` only reads; what it can answer is stated by the invariants
`LiveClaimIsLease` for the row and `LiveClaimIsRecognised` for the claim map
and the two files it compares with it.

### SwarmScheduler

All code of a swarm runs on one event loop, so an action is the code between two
awaits of one function.  `job[l]` says at which await the `runSubagent` call of
lane `l` stands, `scheduler` where `executeSwarmLanes` stands, `main` the
parent.  While `scheduler = "turn"` the loop has the thread and nothing else
may run (`Yielded`): that is how a loop that goes round without awaiting shows
as the program being stuck.  Runners (`runners`), the cleanup of runners that
settled too late (`deferred`) and the lane calls are separate activities.  What
the model leaves open: which of the ready lanes are started first (schedule
scores), which waiter gets a slot (priorities, bulkhead), whether an error is
retried (recovery budgets), when time passes.  Locks are sets here:
`LockGranted`, `LockRefused`, `Released` and `NotReleased` are the outcomes
that `GovernedLock` explains.  `AdmissionThrows` is `verify` or
`attachAgentRoadmapProjection` rejecting in `acquireLane`: the lane fails and
what it has acquired stays behind.  In `OrderedWork` the advisory lanes are the
provisional items, because they are sealed before their claim is released.

### TaskLifecycle

`journal` holds the record of the last committed event of each task, the commit
marker of the code; `rows` is the record table, each row with the key it lies
under, because `UPDATE` keeps the key of the row it found while `DELETE` and
`INSERT` compute it from the content (`Matches`, `Missed`, `Put`, `Repaired`,
`Written`).  A process has one funnel: its cache, a tail of submits per task,
the submit it serves (`stage`: load, commit, publish, propagate) and the waves
of propagation.  `Load` is load and evaluate, `Commit` the whole transaction
(constraints of parent and children, record row, journal row), `Publish` the
cache and the answer, or the start of a wave whose nested submits go through
the tails of the children (`Send`, `Answered`, `EndWave`).  `RestoreLoad` and
`RestoreProject` are the two halves of `restore` around its await.
`registerAndActivate` and `ensureActive` are compositions of restore and submit
that a caller of the model may make.  A kernel transaction that throws rolls
back; a process that dies between the record row and the journal row leaves the
former (`CrashInCommit`).  Left out: intent ids (always fresh), listeners, the
sequence counter, the order in which children are told.

`OwnIntent` is everything a caller may submit; the runs leave out suspension and
resumption without a new generation and the time-out, whose guards and effects
have the forms of others (`Core`).

### TaskCompletion

One task, its attempts and its sessions (a task opened again from its history is
a new session; the sagas of a closed session go on in the same process).  The
lifecycle is one value, `life`, changed by the intents that `TaskLifecycle`
evaluates.  A saga (`run[a][s]`) goes through `runAttempt` and
`continueCompletionAttempt`, one action per await: row written by
compare-and-swap, command claimed, run, its event looked up, evidence verified,
generation suspended, question asked, fact committed, generation settled; or
rejection recorded and generation reactivated.  Before that come the awaits of
`prepareCompletionAttempt`: `Evaluate` looks for a fact and starts the digest of
the workspace (with the version it begins with, `mark`), `Locate` takes it,
`Count` reads the version the decision is for, `Judge` looks for a rejection of
the decision and evaluates it, `Insert` writes the row.  A sibling tool (`tool`)
starts, changes the workspace while it is dispatched (`ToolWrites`), and ends
later (`ToolEnds`): only a success raises the version, while a call that was
cancelled by its hook, denied or failed leaves what it has written uncounted.
`slipped` remembers the attempts such a call has slipped past.  `Migrate`,
`Recover`, `Interrupt`, `Reconcile` and `Resume` are the steps of a restoration,
`Cancel` and `SettleCancel` those of `abortTask`.  The model is of `broccoli`
mode. Abstractions: an evaluation that blocks ends the saga (`Judge`); a refused
completion lease is a fault; the read and the write of the row in `Continue` are
one action; a closed session's own task state keeps the revision it saw last
(`seen`); two events never carry the same millisecond; failures and time-outs of
tasks are left to `TaskLifecycle`.

### BufferedPool

A client makes one call at a time: it queues for the state mutex (`Ask`) and is
served (`Begin`, `Push`, `Commit`, `Rollback`); clients in `Direct` push without
an agent id, the others run one transaction.  A flush is started by the interval
or the timeout, queues for the flush mutex, then for the state mutex, swaps the
buffers, opens the database, applies the batch, and clears it or puts it back.
Both mutexes are queues, as in the code, where releasing hands over to the next.
`Age` lets five minutes pass, `Cleanup` reaps, `Stop` and `StopEnds` are the two
halves of `stop` around its flush.  A write is a number with a rank, its layer
and table.

## 3. The runs

Times are for two workers.  Deadlock checking is switched off in all runs: the
lease, lock and lifecycle models stop at their bounds, and a swarm that has been
finalised, a task that was closed and a pool whose clients are served have
nothing left to do.

| run | instance | shows |
|---|---|---|
| `lease_service` | 1 resource, 2 owners, lease lengths 1 and 2, clock to 3, tokens to 2, 2 claims at a time, 2 engines, 1 cleaner, symmetric owners and engines | type invariant, whom a live claim may be taken from, fencing test, generations cover live leases, unexpired rows end by their tuple, refinement of the forgetful `FencedLease`; 459,000 states, about 20 s |
| `lease_reset` | the same service with 1 engine, lease length 1, clock to 2 | finding 1 |
| `lane_contention` | 3 actors in 2 processes, clock to 3, tokens to 2, fairness | type invariant, live claims are recognised, nothing is left behind, every call returns; 67,000 states |
| `lane_reconcile` | 2 actors in 2 processes, one also reconciles and runs the panic cleaner, 1 crash, clock to 2 | live claims are the row, owner or administrator ends the lease, no leaked row, refinement of `FencedLease`; 930,000 states, about 20 s |
| `swarm_lanes` | 3 lanes, all 64 graphs, two lanes with a lock, one of them advisory, 2 slots, 2 attempts, stop, deadline, 1 refusal, 1 failed release or throw | locks, slots, nodes, results; 2.45 million states, about 50 s |
| `swarm_ends` | 3 lanes, all graphs (cyclic ones included), two advisory lanes, one with a lock, 2 slots, 3 in flight, a reused lane, deadline, 1 failed release or throw, fairness | the swarm ends or strands a lane; refinement of `OrderedWork`; 297,000 states, about 40 s |
| `lifecycle` | a parent and its child, 2 processes with a caller each, 2 generations, 4 revisions, a clock to 1, no suspension by the completion funnel | type invariant, no child outlives its parent's generation, refinement of `TaskGenerations`; 450,000 states, about 45 s |
| `lifecycle_ends` | the same couple, 1 process, 1 generation, 4 revisions, 1 fault, 1 crash, restorations, no clock, fairness | caches are committed, first generations stay readable, submits return, failure reaches the child; 157,000 states, about 45 s |
| `lifecycle_replaced_row` | 1 process, 2 generations | finding 2 |
| `completion` | 2 attempts, 2 sessions, 2 generations, 1 fault, or 1 tool that changes the workspace (`Sparing`), symmetric attempts | type invariant, facts are earned, one command at a time, a question holds its generation, decisions survive a crash, what is accepted was evaluated but for uncounted changes; 1.29 million states, about 50 s |
| `completion_old_fact` | the same instance | finding 3 |
| `pool` | 1 direct push and 1 transaction of 2 pushes in 2 ranks, 2 flushes and that of `stop`, 1 failure, fairness | a transaction's writes go into at most one database transaction, rolled back ones into none, refinement of `WriteLog`, accepted writes are applied; 265,000 states, about 40 s |

Why the bounds are enough for what the runs ask.  Leases interact per resource,
and every conflict named in the hazards is between one holder, one competitor
and one bystander (reconciler, engine, cleaner or a process that crashes), which
is what the instances have; two tokens and two claims at a time are a lease and
its successor, and with the reset of a maintenance run the first again, beside
what a caller kept; a clock one longer than the longest lease allows expiry on
both sides of the boundary.  Three lanes give every shape that matters to the
scheduler: chain, fork, join, circle of two and of three, an isolated lane. Two
attempts give a retry and a last one; two slots for three lanes make waiting
happen.  One fault is enough for a stray lock, and an admission that throws
leaves its node as a refusal does, so `swarm_ends` has no refusals; a stop fails
every pending lane, hence strands none, and is left to `swarm_lanes`.  In the
lifecycle every constraint is between a task and the one it is attached to, so a
couple has them all; two processes make every pair of submits overlap, two
generations make the parent's generation change under the child, and four
revisions are register, activate, ask and end.  The clock only orders requests
to cancel against completions, in records that two processes write, so it moves
in `lifecycle`; suspensions by the completion funnel are in `lifecycle_ends` and
in `completion`.  In the completion two sessions give a saga beside its
successor, and a crash or a closing at every step; two attempts give two
decisions or one that is tried twice.  `Sparing` keeps a change of the workspace
apart from failures and from a second generation, and lets it work in a second
session where one attempt at most is written down: what it disturbs are the
evaluation and the row of an attempt, at any step of two sessions, and both are
bound to one generation.  In the pool a flush overlaps the next and that of
`stop`; the transaction has two batches, so it can be torn. The theorems of
section 4 hold without these bounds.

Each bound is a constant named in its module (`MaxTime`, `MaxToken`,
`MaxClaims`, `MaxCrashes`, `MaxRefusals`, `MaxFaults`, `MaxRev`, `MaxGen`,
`MaxClock`, `MaxSessions`, `MaxTree`, `MaxStops`) and is a guard of the action
it bounds.

Fairness.  `GovernedLock!FairSpec` assumes weak fairness of the steps of calls
that have begun (an await of the file system or the database is answered) and
none of the starts, ticks or crashes.  `SwarmScheduler!FairSpec` assumes weak
fairness of the scheduler, the closing and the steps of a lane call, including
its timers and its back-off, because the event loop runs what is ready and
timers fire; it assumes nothing of runners (`AttemptSettles`, `RunnerSettles`),
of stops or of deadlines.  `LockGranted` and `LockRefused` are part of the lane
steps: an answer of the lock authority comes, which is what `EveryCallReturns`
shows of it (for acquirers and releasers of three actors; a crash can only end a
call, and a reconciler's plan is a finite list of tasks with the same file
steps). `TaskLifecycle!FairSpec` assumes that awaits of the store and of other
submits are resumed, and nothing of callers; `RestoredSpec` adds that a task is
restored time and again, as the funnel is asked to whenever the task is opened
or looked up: without it a propagation that was dropped is never repeated.
`BufferedPool!FairSpec` assumes that promises are resumed and that the one flush
interval fires while it is set, and nothing of clients or of `stop`; since a
mutex serves the first in its queue, fairness of the clients together, and of
the flushes together, is fairness of each.

## 4. What is proved

Theorems are checked by TLAPS for all values of the constants, from the constant
assumptions (`ASSUME`) of each module.

**SwarmLeaseProofs.**  All of it is for any number of maintenance engines and
administrators.  `GenerationCoversLease` is inductive together with the type
invariant: `AcquireLease` writes both rows, a release or a pruning can only
remove the lease row, and the maintenance run removes a generation only where
there is no lease.  `LeaseEndsByItsTuple`: an unexpired row can only go by its
own tuple, because the cutoffs of prunings and maintenance runs are never in the
future.  The other five rest on `TokensIdentifyLeases`: the stored generation is
at or above every token issued since its row was last deleted, so that tokens
identify these leases.  From it `OnlyHolderPasses` (a token that passes the
fencing test is that of the row, or one from before the deletion), `TokensGrow`,
and `LiveClaimHeld` (an unexpired claim is the row, unless an administrator or
the release of a forgotten claim with the same tuple took it away), hence
`Exclusion`.  `Refinement` is of `FencedLease!ForgetfulSpec`: the fence falls
only while nobody owns the resource.  That tokens grow without any such clause
is false (finding 1).

**GovernedLockProofs.**  The inductive invariant `Inv` is `TypeOK` together with
`Owned`: tokens of rows are at most the generation's; claims and the leases of
calls are their actor's own; a call that is still projecting a live lease has
the row; a row in a reconciler's snapshot, if its token is still the row's, *is*
the row, and one it is about to reclaim had expired.  From these
`LiveClaims` and `OwnerEndsLease` follow for any interleaving of acquirers,
reconcilers, cleaners, pruning and crashes, and `Refinement`: every step grants
the lane, takes it from its owner, or changes nothing of what `FencedLease` sees.

**LaneProjectionProofs.**  What the lock keeps beside the row.  The proofs follow
each call through its plan: which plans a call of each kind can have
(`PlansFit`), and what is true of row, claim map and files at each of their
places.  `KeeperAlways` (no row without someone who will delete it) holds for
any reconcilers, cleaners and crashes.  `ClaimsRecognised` is proved with
`Undisturbed` (no reconciler and no panic cleaner, which remove files of live
leases: section 5) and `LeaseMs <= FenceMs`; crashes may come.  Lanes are leased
for 600 s (`GovernedSwarmCoordinator.ts:77`) and the fence's files expire
after 600 s (`BroccoliFencingAdapter.ts:20`), so the second assumption is what
the code has.  Its invariant `Recognised` says that what an acquisition has
written is in place until it is told of it.  `NothingIsLeft` is proved, in
addition, with `MaxCrashes = 0`, since a crash leaves half-written files that
nothing removes.  Its invariant `Clean` says that each file, claim-map entry and
row belongs to a call or a claim that will remove it: a file carries the token
and owner of one lease, nobody else removes it, and a release that has yet to
delete its row still has one to delete, or has nothing left to remove.

**SwarmSchedulerProofs.**  `TypeCorrect`, `LockOutlivesRunner` and
`FrozenResults` hold for every set of lanes, every graph and every limit.
`Inv` is `TypeOK` and `Watched`: attempts are left where one may begin, pending
lanes have not begun, a runner belongs to a call that waits for it or to a
deferred cleanup, deferred lanes are over, and a call that has been admitted has
its lock.  `Refinement` (ordered work) assumes nothing either: an advisory
lane is a provisional item, which may be found unfinished after all, by a failed
release or by a late time-out after the closing froze its status; of every other
lane it says that what is sealed stays sealed.  The second invariant,
`InSequence`, says that the graph is kept in order, sealed lanes are at rest but
for advisory ones in their release, and a call at work has its node "running".

**SwarmOutcomeProofs.**  What a swarm leaves behind.  `SlotsAreUsedUp` follows
from `SlotsFit`: a call past the pool's queue has a slot, a queued one has none,
and lanes queue only while all slots are taken.  `ResultsMatch` follows from
`ResultsFit`: the node of a lane agrees with its entry and with where its call
stands, and the graph is kept in order wherever the scheduler looks at it.
`LocksGivenBack` follows from `LocksFit`: only a lane past its acquisition has a
lock, a sealed one only in its release; a lane in hand depends on lanes that are
sealed or were withdrawn (advisory, sealed and then failed), so that between its
two looks at the node `acquireLane` misses nothing but such an overtaking
(`HandFits`, `EntryFits`); and the locks that neither a call nor a deferred
cleanup will release, of lanes not overtaken, are no more than the failed
releases and the admissions that threw (`StrayFits`).  None of the three assumes
anything beyond the module.

**TaskLifecycleProofs.**  All of it is for any set of tasks, any attachment
without self-attachment, any number of funnels and callers, any faults and
crashes.  `Inv` is `TypeOK` with two parts.  `Shape`: jobs in a tail are those
callers and waves may submit, a caller or wave has one job in line, a stage has
its draft, a wave that is being answered has its submit (`JobsFit`, `OneJobEach`,
`StagesFit`, `WavesFit`).  `Safe`: a draft about to be committed is the
evaluation of the job in front of it from a record that satisfies the guard
(`DraftsFit`), records are of the form their last event gives (`RecordsFit`),
and `EndedParentHasNoLiveChild`.  The last is not inductive alone: the commit
compares the revision, so the draft must be known to come from the record that
still has it.  From `Inv` follow `TypeCorrect`, `TreeIsSound` and
`ImplementsTaskGenerations`, where each action but `Commit` is a stutter and a
commit is one step of a task's life.  `ProcessesKnowTheJournal` adds that the
records a process holds are at most as old as they say (`KnownFits`) and that a
published draft is backed by the journal (`Backed`);
`FirstGenerationsStayReadable` adds where rows can lie while the journal is in
generation one (`KeysFit`).

**TaskCompletionProofs.**  All of it is for any number of attempts, sessions,
generations and faults; the assumptions are `CompletionAssumption` and
`NoneAssumption` (the value for "no row" is not a row).  The invariant `Inv` is
`TypeOK` with these parts.  `SagasFit`: a saga past its draft has a row, a draft
has one saga, and a closed session's last generation is over for good (`Past`).
`RowsFit`: rows are never ahead of the lifecycle.  `CommandsFit`: a saga whose
command runs has not seen it end, and one past its evidence has seen it succeed;
with it `OneCommandAtATime` is inductive.  `Decisions`: an attempt is decided
once, its saga acts on the answer it was given, and deciding it has moved the
lifecycle past its row (`VerdictsFit`), together with `FactIsEarned`.
`Sessions`: who may wait for a decision (`LifeFits`), what the places of a
session and of a restoration say of the lifecycle and of sagas (`PlacesFit`,
`RestoreFits`), that a saga that asks, or acts on the answer, has its generation
suspended for it at the revision it knows (`HoldsFit`), and that a recorded
rejection is enough to lift that suspension (`RejectionsFit`); from it
`QuestionHoldsGeneration` and `RestoredDecisionIsApplied`.  Steps of sagas are
first reduced to how they move (`Moves`) and those of the open session to how
they change the lifecycle (`LifeSteps`), and each part is proved from these.
`AcceptedIsEvaluated` is an action property: a step that makes an attempt of the
open session the fact finds the workspace that was evaluated (`Stays`: but for
the changes of a tool that is at work or ended uncounted), unless the counter
rose while the checkpoint was taken.  The commit only compares counters, and a
counter starts at zero in every session, so the proof needs to know that the
evaluation was made in the session whose counter is compared, and what the
counter tells of a decision at each of its readings: `Consistent` while the
evaluation goes on, `Aligned` from then on (if the counter still is the
decision's, the workspace is).  The invariant `EvalFits` says so: a row is
unknown to the sessions before its own (`BornFits`), one attempt at most is
evaluated at a time (`OneOwn`), a draft is consistent (`DraftsFit`), and the row
is aligned that stands at the lifecycle's revision while the task is up
(`WrittenFits`), hence that of a saga that suspends, asks or commits
(`AskersFit`).  An attempt from before a restart never gets that far, since the
restoration has moved the revision.

**BufferedPoolProofs.**  For any clients, flushes and work in which each write
is pushed once (`WorkAssumption`).  The invariant `Inv` is `TypeOK` with
`LineFits` (only the first in line is past the flush mutex), `CopyFits` (a
flush's own copy is what is in flight, unless `stop` has dropped that),
`CallsFit` (a call in line may still be made when it is served), `ShadowsFit` (a
shadow holds writes its client has pushed, once), `StoreFits` (nothing is stored
that was not pushed, or whose transaction was not committed) and `Whole` (a
transaction's writes are all in the buffer, all taken by a flush, or all in one
batch).  From it
`TransactionsAreNotTorn`, `OnlyCommitted`, and `Refinement`: with the writes a
flush has taken followed by those in the buffer as `pending`, every step accepts,
applies, closes, forgets or stutters.  The order of a batch is stated as a stable
permutation by rank (`WriteLog!Orders`).  That every batch has such an order would
need an induction over its length; the run shows it of its batches, as one
without an order could not be applied and `AcceptedIsApplied` would fail.

Only model-checked: the liveness properties `EveryCallReturns`, `SwarmEnds`,
`SubmitsReturn`, `FailureReachesChildren` and `AcceptedIsApplied`, which are out
of the prover's reach, and the instances of properties that the hypotheses named
above exclude.  Every invariant and action property of a passing run, and every
refinement, is the subject of a theorem.

## 5. Where the code departs from what it says

Three are runs that expect a violation; `PROJECT.json` "findings" quotes the
lines.

1. `lease_reset`: maintenance deletes the generation row of a resource with no
   lease row, and tokens start at 1 again (`SQLiteMaintenanceEngine.ts:107`),
   while callers may still hold claims to an expired lease.  A new lease need
   not have a token above theirs; if it goes to the same owner, their claim is
   identical to it, passes the fencing test, and frees it when released.  The
   other properties of `lease_service` say that nothing else goes wrong by it.
2. `lifecycle_replaced_row`: the record row of a new generation lies under the
   key of the old one, so the generation's next transition leaves a second,
   stale row that the repair can neither delete nor overwrite, and every later
   read of the task throws.
3. `completion_old_fact`: the completion fact is kept per task; a completed
   task that is resumed as a new generation is completed again by the old fact,
   without an evaluation, evidence or a question.

Others were met while modelling and have no run of their own.

- Reconcile removes the files of a lease acquired after it read the database
  (`LockAuthority.ts:678`), and may write the files of a lease released after
  its snapshot (`:917`); the row is never harmed.
- The panic cleaner passes over a lock or fence file that is empty or
  unparseable (`AdministrativeLockCleaner.ts:90-104`), although such a file is
  what a crash between create and write leaves.
- An advisory lane that holds a lock is sealed before the lock is released
  (`SubagentToolHandler.ts:1030`).  Its dependents begin beside the lock; if the
  release then fails, its node is failed under them, and one that was being
  admitted meanwhile waits again in the graph with a lock nobody releases
  (`GovernedSwarmCoordinator.ts:289`).  `LocksAreGivenBack` allows this of such
  lanes only (`Overtaken`), and `RefinesOrderedWork` lets advisory lanes be
  unsealed.
- When `verify` or `attachAgentRoadmapProjection` rejects after the lock was
  taken (`GovernedSwarmCoordinator.ts:339`, `:366`), the lock stays until it
  expires: `LocksAreGivenBack` counts it among the faults.
- A lane may be over while its node is neither sealed nor failed: its claim was
  refused (`SubagentToolHandler.ts:870`) or its admission threw, or the deadline
  passed while it waited, without its lock, to try again (`:833`).  If another
  lane depends on it, the loop of the scheduler goes round without yielding and
  the swarm never ends.  `SwarmEnds` allows exactly such swarms (`Stranded`).
- A late time-out changes an entry that was final (`:995`).
- A child is told of its parent's cancellation only through nested submits; one
  whose request was refused, or whose list could not be read, lives on until a
  restore of the parent repeats the wave.
- A change of the workspace is counted after it was made, and only if its tool
  succeeds.  An attempt that is committed between the write
  (`ExecutionFunnel.ts:962`) and the count (`:1053`), or after a tool that wrote
  and was then cancelled, denied or failed (`:999-1050`), is accepted with
  another workspace than was evaluated; so is one whose checkpoint was taken
  while a count came in between (`CompletionFunnel.ts:1176-1177`).
  `AcceptedAsEvaluated` names these cases and excludes every other.
- The saga of a session that was closed while its question was open commits
  against the counter of its own session (`CompletionFunnel.ts:1611`, compared
  at `:712`), which does not count what a later session has changed: it can
  record as accepted a workspace that is no longer there.
  `AcceptedAsEvaluated` is therefore stated of the open session.
- An attempt that is taken up after a crash cannot reach its question, because
  the suspension of the interrupted generation (`task/index.ts:1404`) has moved
  the revision it was written with (`CompletionFunnel.ts:1478`); and a
  restoration throws when a fact was committed after a cancellation request
  (`task/index.ts:1348`).
- `stop` of the pool drops what was pushed during its flush, and what its failed
  flush put back (`BufferedDbPool.ts:434`); a transaction whose shadow was reaped
  commits the writes that came after (`:157`).

## 6. What is not modelled

- Of the modelled components: the `local_test` authority mode; roadmap admission
  inside `acquire`; errors of the file system other than "exists" and "not
  found"; `recoverStale` of both files (not called in broccoli mode); the
  coordinator's orchestration lease and receipts; cost budgets and envelopes; the
  priorities and the bulkhead of the execution pool; Tarjan's algorithm itself
  (the model uses what it computes); resource waits and timers in the deadlock
  snapshot (the scheduler never passes the former, and no lane is running where
  it calls the detector).
- `SQLiteMaintenanceEngine.ts:147-150` prunes lifecycle events and records,
  completions, rejections and attempts after 14 days.  That writer of the tables
  of `TaskLifecycle` and `TaskCompletion` is not modelled; what is said of the
  two holds for tasks younger than that.
- A stored fact whose decision digest does not match its checkpoint is refused
  when it is parsed (`CompletionFunnel.ts:627-640`): a restoration that meets one
  fails before the task waits for the user, and is not modelled.
- Of the task authority: audit gates and scores behind an evaluation,
  checkpoints, the completion lease, execution gates, replay and event history,
  the request loop.
- Of the pool: reads over the buffers, metrics, and the listener that drops the
  buffers when the database path changes.
- Callers' retry loops around `acquire`, hence how long a stale fence, file or
  claim-map entry keeps a lane from being acquired (see the hazards with a note).
- The components listed as `not_modelled` in `PROJECT.json`.

## 7. Plan

In this order:

1. `ExecutionPool`: `AuthorityAwareExecutionPool` with priorities, FIFO among
   equals, fast-I/O bulkhead and cancellation; work conservation, no lost slot,
   no starvation of non-mutating lanes; refined by the slots of `SwarmScheduler`.
2. `WaitForGraph`: `detectDeadlocks` with resources, capacity, timers and
   escapes against a reference definition over all small graphs.
3. The connection lifecycle against the pool, and the reads of the pool.
4. `GovernedLock` extended: reconcilers in the owner's process, the callers'
   retry loop and the liveness of acquisition.
5. `NothingIsLeft` with reconcilers and crashes, as far as it holds: whatever is
   left is unreadable, or a reconciler's write for a lease released after its
   snapshot, or belongs to a call that a crash ended.
6. The pruning of the lifecycle tables: rows with an age, and which tasks may
   lose their history while a process still knows them.

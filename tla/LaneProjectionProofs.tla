------------------------ MODULE LaneProjectionProofs ------------------------
(***************************************************************************)
(* Proofs about what GovernedLock keeps beside the lease: that a row always *)
(* has someone to delete it, that a claim is recognised by its projections, *)
(* and that calls clean up after themselves.  They follow each call through *)
(* its plan, which GovernedLockProofs never looks at.                       *)
(***************************************************************************)
EXTENDS GovernedLockProofs

-----------------------------------------------------------------------------
(* Where a call stands: the plans an acquire, abandon or release goes through *)

ToWriteFence == <<Write("broccoli"), Commit>>
ToCommit     == <<Commit>>

ToDeleteRow  == <<ReleaseRow>>
ToRemoveFile == <<Remove("filesystem"), ReleaseRow>>
ToRemoveBoth == <<Remove("broccoli"), Remove("filesystem"), ReleaseRow>>

ToForget      == <<Forget, Remove("filesystem"), Remove("broccoli")>>
ToRemoveFiles == <<Remove("filesystem"), Remove("broccoli")>>
ToRemoveFence == <<Remove("broccoli")>>

AcquirePlans == {AcquirePlan, ToWriteFence, ToCommit}
AbandonPlans == {ToRemoveBoth, ToRemoveFile, ToDeleteRow}
ReleasePlans == {ReleasePlan, ToForget, ToRemoveFiles, ToRemoveFence}

Owning(x) == job[x].kind \in {"acquire", "abandon", "release"}

PlanFits(x) ==
  /\ job[x].kind = "idle" => job[x] = Idle /\ plan[x] = << >>
  /\ job[x].kind = "acquire" => plan[x] \in AcquirePlans
  /\ job[x].kind = "abandon" => plan[x] \in AbandonPlans
  /\ job[x].kind = "release" => plan[x] \in ReleasePlans

PlansFit == \A x \in Actor : PlanFits(x)

\* How the plans follow one another.
LEMMA Plans ==
  /\ Tail(AcquirePlan) = ToWriteFence /\ Tail(ToWriteFence) = ToCommit /\ Tail(ToCommit) = << >>
  /\ Tail(ToRemoveBoth) = ToRemoveFile /\ Tail(ToRemoveFile) = ToDeleteRow
  /\ Tail(ToDeleteRow) = << >>
  /\ Tail(ReleasePlan) = ToForget /\ Tail(ToForget) = ToRemoveFiles
  /\ Tail(ToRemoveFiles) = ToRemoveFence /\ Tail(ToRemoveFence) = << >>
  /\ << >> \notin AcquirePlans \cup AbandonPlans \cup ReleasePlans
  BY DEF AcquirePlan, ToWriteFence, ToCommit, ToRemoveBoth, ToRemoveFile, ToDeleteRow, ReleasePlan,
         ToForget, ToRemoveFiles, ToRemoveFence, AcquirePlans, AbandonPlans, ReleasePlans

\* The plans of one kind of call differ.
LEMMA PlansDiffer ==
  /\ AcquirePlan # ToWriteFence /\ AcquirePlan # ToCommit /\ ToWriteFence # ToCommit
  /\ ToRemoveBoth # ToRemoveFile /\ ToRemoveBoth # ToDeleteRow /\ ToRemoveFile # ToDeleteRow
  /\ ReleasePlan # ToForget /\ ReleasePlan # ToRemoveFiles /\ ReleasePlan # ToRemoveFence
  /\ ToForget # ToRemoveFiles /\ ToForget # ToRemoveFence /\ ToRemoveFiles # ToRemoveFence
  <1>1. Len(AcquirePlan) = 3 /\ Len(ToWriteFence) = 2 /\ Len(ToCommit) = 1
    BY DEF AcquirePlan, ToWriteFence, ToCommit
  <1>2. Len(ToRemoveBoth) = 3 /\ Len(ToRemoveFile) = 2 /\ Len(ToDeleteRow) = 1
    BY DEF ToRemoveBoth, ToRemoveFile, ToDeleteRow
  <1>3. /\ Len(ReleasePlan) = 4 /\ Len(ToForget) = 3 /\ Len(ToRemoveFiles) = 2
        /\ Len(ToRemoveFence) = 1
    BY DEF ReleasePlan, ToForget, ToRemoveFiles, ToRemoveFence
  <1> QED
    BY <1>1, <1>2, <1>3

\* The task at the head of each plan.
LEMMA Heads ==
  /\ Head(AcquirePlan) = Write("filesystem") /\ Head(ToWriteFence) = Write("broccoli")
  /\ Head(ToCommit) = Commit
  /\ Head(ToRemoveBoth) = Remove("broccoli") /\ Head(ToRemoveFile) = Remove("filesystem")
  /\ Head(ToDeleteRow) = ReleaseRow
  /\ Head(ReleasePlan) = ReleaseRow /\ Head(ToForget) = Forget
  /\ Head(ToRemoveFiles) = Remove("filesystem") /\ Head(ToRemoveFence) = Remove("broccoli")
  BY DEF AcquirePlan, ToWriteFence, ToCommit, ToRemoveBoth, ToRemoveFile, ToDeleteRow, ReleasePlan,
         ToForget, ToRemoveFiles, ToRemoveFence

\* What each task is and what it is about.
LEMMA Tasks ==
  /\ \A q : Write(q)[1] = "write" /\ Write(q)[2] = q
  /\ \A q : Remove(q)[1] = "remove" /\ Remove(q)[2] = q
  /\ Commit[1] = "commit" /\ Forget[1] = "forget" /\ ReleaseRow[1] = "release"
  BY DEF Write, Remove, Commit, Forget, ReleaseRow

\* What an acquisition does when the task at the head of its plan fails.
LEMMA Undoing ==
  /\ AbandonPlan(Write("filesystem")) = ToDeleteRow
  /\ AbandonPlan(Write("broccoli")) = ToRemoveFile
  /\ AbandonPlan(Commit) = ToRemoveBoth
  <1>1. /\ Write("broccoli") # Write("filesystem") /\ Commit # Write("filesystem")
        /\ Commit # Write("broccoli")
    BY DEF Write, Commit
  <1> QED
    BY <1>1 DEF AbandonPlan, ToDeleteRow, ToRemoveFile, ToRemoveBoth

-----------------------------------------------------------------------------
(* How one call moves through its plan *)

\* No other actor's call moves.
Alone(a) == \A b \in Actor \ {a} : job'[b] = job[b] /\ plan'[b] = plan[b]

\* The call is at another place in the same task.
Stays(a, step) ==
  /\ job'[a].kind = job[a].kind /\ job'[a].lease = job[a].lease /\ job'[a].at = step
  /\ plan'[a] = plan[a]

\* The call starts on the next task of its plan.
GoesOn(a) ==
  /\ job'[a].kind = job[a].kind /\ job'[a].lease = job[a].lease /\ job'[a].at = "start"
  /\ plan'[a] = Tail(plan[a]) /\ plan'[a] # << >>

Returns(a) == job'[a] = Idle /\ plan'[a] = << >>

Abandons(a) ==
  /\ job[a].kind = "acquire" /\ job'[a].kind = "abandon" /\ job'[a].lease = job[a].lease
  /\ job'[a].at = "start" /\ plan'[a] = AbandonPlan(Task(a))

LEMMA AtMoves ==
  ASSUME TypeOK, NEW a \in Actor, NEW step, NEW seen, At(a, step, seen)
  PROVE  Alone(a) /\ Stays(a, step)
  BY DEF TypeOK, CallType, At, Alone, Stays

LEMMA ContinueMoves ==
  ASSUME TypeOK, NEW a \in Actor, NEW tasks, Continue(a, tasks)
  PROVE  /\ Alone(a)
         /\ tasks = << >> => Returns(a)
         /\ tasks # << >> =>
              /\ job'[a].kind = job[a].kind /\ job'[a].lease = job[a].lease
              /\ job'[a].at = "start" /\ plan'[a] = tasks
  <1> DEFINE call == [job[a] EXCEPT !.at = "start", !.seen = None]
  <1>1. call.kind = job[a].kind /\ call.lease = job[a].lease /\ call.at = "start"
    BY DEF TypeOK, CallType
  <1>2. /\ plan' = [plan EXCEPT ![a] = tasks]
        /\ job' = [job EXCEPT ![a] = IF tasks = << >> THEN Idle ELSE call]
    BY DEF Continue, Begin
  <1> HIDE DEF call
  <1> QED
    BY <1>1, <1>2 DEF TypeOK, Alone, Returns

LEMMA SucceedMoves ==
  ASSUME TypeOK, NEW a \in Actor, Succeed(a)
  PROVE  Alone(a) /\ (GoesOn(a) \/ (Returns(a) /\ Tail(plan[a]) = << >>))
  BY ContinueMoves DEF Succeed, GoesOn

LEMMA BeginMoves ==
  ASSUME TypeOK, NEW a \in Actor, NEW call, NEW tasks, tasks # << >>, Begin(a, call, tasks)
  PROVE  Alone(a) /\ job'[a] = call /\ plan'[a] = tasks
  BY DEF TypeOK, Begin, Alone

\* Within a call that owns a lease, a failure abandons an acquisition and is
\* otherwise only passed over.
LEMMA FailMoves ==
  ASSUME TypeOK, PlansFit, NEW a \in Actor, Owning(a), Fail(a)
  PROVE  /\ Alone(a)
         /\ job[a].kind = "acquire" => Abandons(a)
         /\ job[a].kind # "acquire" => Succeed(a)
  <1>1. CASE job[a].kind = "acquire"
    <2> DEFINE call == Call("abandon", job[a].lease, NoSnapshot)
    <2>1. Begin(a, call, AbandonPlan(Task(a)))
      BY <1>1 DEF Fail
    <2>2. AbandonPlan(Task(a)) # << >>
      BY DEF AbandonPlan
    <2>3. call.kind = "abandon" /\ call.lease = job[a].lease /\ call.at = "start"
      BY DEF Call
    <2> HIDE DEF call
    <2> QED
      BY <1>1, <2>1, <2>2, <2>3, BeginMoves DEF Abandons
  <1>2. CASE job[a].kind # "acquire"
    <2>1. Succeed(a)
      BY <1>2 DEF Fail, Owning
    <2> QED
      BY <1>2, <2>1, SucceedMoves
  <1> QED
    BY <1>1, <1>2

\* Whichever way it moves, a call stands somewhere on a plan of its kind.
LEMMA MoveKeepsPlan ==
  ASSUME NEW a \in Actor, PlanFits(a), Owning(a),
         NEW step, Stays(a, step) \/ GoesOn(a) \/ Returns(a) \/ Abandons(a)
  PROVE  PlanFits(a)'
  <1>1. CASE Stays(a, step)
    BY <1>1 DEF PlanFits, Owning, Stays
  <1>2. CASE GoesOn(a)
    BY <1>2, Plans, ZenonT(90) DEF PlanFits, Owning, GoesOn, AcquirePlans, AbandonPlans, ReleasePlans
  <1>3. CASE Returns(a)
    BY <1>3, IdleHasType DEF PlanFits, Returns
  <1>4. CASE Abandons(a)
    <2>1. plan[a] \in AcquirePlans
      BY <1>4 DEF PlanFits, Abandons
    <2>2. AbandonPlan(Task(a)) \in AbandonPlans
      BY <2>1, Heads, Undoing DEF Task, AcquirePlans, AbandonPlans
    <2> QED
      BY <1>4, <2>2 DEF PlanFits, Abandons
  <1> QED
    BY <1>1, <1>2, <1>3, <1>4

\* Which task is at hand at each place of a plan.
LEMMA TaskAtHand ==
  ASSUME NEW a \in Actor, PlanFits(a), Owning(a)
  PROVE  /\ Doing(a, "write") =>
              /\ job[a].kind = "acquire"
              /\ \/ plan[a] = AcquirePlan /\ Target(a) = "filesystem"
                 \/ plan[a] = ToWriteFence /\ Target(a) = "broccoli"
         /\ Doing(a, "remove") =>
              \/ /\ job[a].kind = "abandon"
                 /\ \/ plan[a] = ToRemoveBoth /\ Target(a) = "broccoli"
                    \/ plan[a] = ToRemoveFile /\ Target(a) = "filesystem"
              \/ /\ job[a].kind = "release"
                 /\ \/ plan[a] = ToRemoveFiles /\ Target(a) = "filesystem"
                    \/ plan[a] = ToRemoveFence /\ Target(a) = "broccoli"
         /\ Doing(a, "commit") => job[a].kind = "acquire" /\ plan[a] = ToCommit
         /\ Doing(a, "forget") => job[a].kind = "release" /\ plan[a] = ToForget
         /\ Doing(a, "release") => \/ job[a].kind = "abandon" /\ plan[a] = ToDeleteRow
                                   \/ job[a].kind = "release" /\ plan[a] = ReleasePlan
         /\ ~Doing(a, "observe") /\ ~Doing(a, "drop")
  <1>1. CASE job[a].kind = "acquire"
    <2>1. plan[a] \in AcquirePlans
      BY <1>1 DEF PlanFits
    <2> QED
      BY <1>1, <2>1, Heads, Tasks DEF AcquirePlans, Doing, Task, Target
  <1>2. CASE job[a].kind = "abandon"
    <2>1. plan[a] \in AbandonPlans
      BY <1>2 DEF PlanFits
    <2> QED
      BY <1>2, <2>1, Heads, Tasks DEF AbandonPlans, Doing, Task, Target
  <1>3. CASE job[a].kind = "release"
    <2>1. plan[a] \in ReleasePlans
      BY <1>3 DEF PlanFits
    <2> QED
      BY <1>3, <2>1, Heads, Tasks DEF ReleasePlans, Doing, Task, Target
  <1> QED
    BY <1>1, <1>2, <1>3 DEF Owning

\* A step at a file, in a call that owns a lease.
LEMMA FileStepMoves ==
  ASSUME TypeOK, PlansFit, NEW a \in Actor, Owning(a), FileStep(a)
  PROVE  /\ Alone(a)
         /\ UNCHANGED <<now, database, top, inProcessClaims, claim, lost, crashes>>
         /\ \/ \E step : Stays(a, step)
            \/ GoesOn(a)
            \/ Abandons(a)
            \/ Returns(a) /\ job[a].kind = "release" /\ plan[a] = ToRemoveFence
         /\ job[a].kind = "release" => plan[a] # ReleasePlan
  <1>1. UNCHANGED <<now, database, top, inProcessClaims, claim, lost, crashes>>
    BY DEF FileStep, Open, Content, ReadExisting, Check, Unlink, shared
  <1>2. Doing(a, "write") \/ Doing(a, "remove")
    BY DEF FileStep, Open, Content, ReadExisting, Check, Unlink, Writing, Doing
  <1>3. PlanFits(a)
    BY DEF PlansFit
  <1>4. job[a].kind = "release" => plan[a] \in {ToRemoveFiles, ToRemoveFence}
    BY <1>2, <1>3, TaskAtHand
  <1>5. Tail(plan[a]) = << >> => job[a].kind = "release" /\ plan[a] = ToRemoveFence
    BY <1>2, <1>3, TaskAtHand, Plans
       DEF AcquirePlans, AbandonPlans, ReleasePlans
  <1>6. (\E step, seen : At(a, step, seen)) \/ Succeed(a) \/ Fail(a)
    BY DEF FileStep, Open, Content, ReadExisting, Check, Unlink
  <1>7. ASSUME NEW step, NEW seen, At(a, step, seen) PROVE Alone(a) /\ Stays(a, step)
    BY <1>7, AtMoves
  <1>8. ASSUME Succeed(a)
        PROVE  /\ Alone(a)
               /\ \/ GoesOn(a)
                  \/ Returns(a) /\ job[a].kind = "release" /\ plan[a] = ToRemoveFence
    BY <1>5, <1>8, SucceedMoves
  <1>9. ASSUME Fail(a) PROVE Alone(a) /\ (Abandons(a) \/ Succeed(a))
    BY <1>9, FailMoves
  <1> QED
    BY <1>1, <1>4, <1>6, <1>7, <1>8, <1>9, PlansDiffer

\* A call that owns no lease never comes to own one: it goes on as such, or returns.
Drifts(a) == Returns(a) \/ job'[a].kind \in {"reconcile", "reclaim", "repair", "panic"}

LEMMA BeginDrifts ==
  ASSUME TypeOK, NEW a \in Actor, NEW call, NEW tasks, Begin(a, call, tasks),
         call.kind \in {"reconcile", "reclaim", "repair", "panic"}
  PROVE  Alone(a) /\ Drifts(a)
  BY DEF TypeOK, Begin, Alone, Drifts, Returns

LEMMA MoveDrifts ==
  ASSUME TypeOK, NEW a \in Actor, job[a].kind \in {"reconcile", "reclaim", "repair", "panic"},
         \/ \E step, seen : At(a, step, seen)
         \/ \E tasks : Continue(a, tasks)
         \/ Fail(a)
  PROVE  Alone(a) /\ Drifts(a)
  <1>1. ASSUME NEW step, NEW seen, At(a, step, seen) PROVE Alone(a) /\ Drifts(a)
    BY <1>1, AtMoves DEF Stays, Drifts
  <1>2. ASSUME NEW tasks, Continue(a, tasks) PROVE Alone(a) /\ Drifts(a)
    BY <1>2, ContinueMoves DEF Drifts
  <1>3. Fail(a) => \E tasks : Continue(a, tasks)
    BY DEF Fail, Succeed
  <1> QED
    BY <1>1, <1>2, <1>3

LEMMA StepDrifts ==
  ASSUME TypeOK, PlansFit, NEW a \in Actor, ~Owning(a), Step(a)
  PROVE  Alone(a) /\ Drifts(a)
  <1>1. Running(a)
    BY DEF Step, FileStep, Open, Content, ReadExisting, Check, Unlink, ReleaseDatabase, Releasing,
           CommitClaim, ForgetClaim, ObserveBackend, Decide, Observing, DropMemory, DropRead,
           DropDelete, Writing, Doing
  <1>2. job[a].kind \in {"reconcile", "reclaim", "repair", "panic"}
    BY <1>1, LeaseTypes DEF PlansFit, PlanFits, Running, Owning, Kinds
  <1>3. CASE FileStep(a)
    <2>1. (\E step, seen : At(a, step, seen)) \/ Succeed(a) \/ Fail(a)
      BY <1>3 DEF FileStep, Open, Content, ReadExisting, Check, Unlink
    <2> QED
      BY <1>2, <2>1, MoveDrifts DEF Succeed
  <1>4. CASE \/ ReleaseDatabase(a) \/ CommitClaim(a) \/ ForgetClaim(a)
             \/ DropMemory(a) \/ DropRead(a) \/ DropDelete(a)
    <2>1. (\E step, seen : At(a, step, seen)) \/ (\E tasks : Continue(a, tasks)) \/ Fail(a)
      BY <1>4 DEF ReleaseDatabase, CommitClaim, ForgetClaim, DropMemory, DropRead, DropDelete,
                  Succeed
    <2> QED
      BY <1>2, <2>1, MoveDrifts
  <1>5. CASE ObserveBackend(a)
    <2>1. \E call, tasks : Begin(a, call, tasks) /\ call.kind = "reconcile"
      BY <1>5 DEF ObserveBackend, Call
    <2> QED
      BY <2>1, BeginDrifts
  <1>6. CASE Decide(a)
    <2>1. \/ \E tasks : Continue(a, tasks)
          \/ \E call, tasks : Begin(a, call, tasks) /\ call.kind \in {"reclaim", "repair"}
      BY <1>6 DEF Decide, ReclaimOrphans, ReclaimExpired, RepairProjections, Call
    <2> QED
      BY <1>2, <2>1, BeginDrifts, MoveDrifts
  <1> QED
    BY <1>3, <1>4, <1>5, <1>6 DEF Step

-----------------------------------------------------------------------------
(* Every row has a keeper *)

\* No claim and no call is about a lease that has not been handed out.
TokensIssued ==
  \A x \in Actor : /\ claim[x] # None => claim[x].token <= top
                   /\ Owning(x) => job[x].lease.token <= top

\* A release past its first task has no row left to delete.
RowsGone ==
  \A x \in Actor : job[x].kind = "release" /\ plan[x] # ReleasePlan => database # job[x].lease

Kept == PlansFit /\ TokensIssued /\ RowsGone /\ LeaseHasAKeeper

\* A call that moves on keeps the row's keeper if it drops its lease only when
\* that is not the row.
LEMMA MoveKeepsKept ==
  ASSUME TypeOK, Kept, NEW a \in Actor, Alone(a), PlanFits(a)', UNCHANGED <<top, claim>>,
         database' = database \/ database' = None, lost \subseteq lost',
         \/ Owning(a) /\ Owning(a)' /\ job'[a].lease = job[a].lease
         \/ ~Owning(a)' /\ (Owning(a) => database' # job[a].lease),
         job'[a].kind = "release" /\ plan'[a] # ReleasePlan => database' # job'[a].lease,
         \A x \in Actor : Owning(x) => job[x].lease # None
  PROVE  Kept'
  <1>1. PlansFit'
    BY DEF Kept, PlansFit, PlanFits, Alone
  <1>2. TokensIssued'
    BY DEF Kept, TokensIssued, Owning, Alone
  <1>3. RowsGone'
    <2>1. \A x \in Actor : job[x].kind = "release" => job[x].lease # None
      BY DEF Owning
    <2> QED
      BY <2>1 DEF Kept, RowsGone, Alone
  <1>4. LeaseHasAKeeper'
    BY DEF Kept, LeaseHasAKeeper, Owning, Alone
  <1> QED
    BY <1>1, <1>2, <1>3, <1>4 DEF Kept

\* The lease of a call that owns one is a lease of its caller's.
LEMMA OwnedLease ==
  ASSUME Inv, NEW x \in Actor, Owning(x)
  PROVE  job[x].lease \in Lease /\ job[x].lease # None /\ job[x].lease.owner = x
  BY LeaseTypes DEF Inv, Owned, CallsAreOwn, Owning

LEMMA FileStepKeepsKept ==
  ASSUME Inv, Kept, NEW a \in Actor, Owning(a), FileStep(a)
  PROVE  Kept'
  <1>1. TypeOK /\ PlansFit /\ PlanFits(a)
    BY DEF Inv, Kept, PlansFit
  <1>2. /\ Alone(a) /\ UNCHANGED <<top, claim, database, lost>>
        /\ \/ \E step : Stays(a, step)
           \/ GoesOn(a)
           \/ Abandons(a)
           \/ Returns(a) /\ job[a].kind = "release" /\ plan[a] = ToRemoveFence
        /\ job[a].kind = "release" => plan[a] # ReleasePlan
    BY <1>1, FileStepMoves
  <1>3. PlanFits(a)'
    BY <1>1, <1>2, MoveKeepsPlan
  <1>4. \/ Owning(a)' /\ job'[a].lease = job[a].lease
        \/ ~Owning(a)' /\ database' # job[a].lease
    <2>1. CASE Returns(a) /\ job[a].kind = "release" /\ plan[a] = ToRemoveFence
      BY <1>2, <2>1, IdleHasType, PlansDiffer DEF Kept, RowsGone, Returns, Owning
    <2>2. CASE (\E step : Stays(a, step)) \/ GoesOn(a) \/ Abandons(a)
      BY <2>2 DEF Stays, GoesOn, Abandons, Owning
    <2> QED
      BY <1>2, <2>1, <2>2
  <1>5. job'[a].kind = "release" => job[a].kind = "release" /\ job'[a].lease = job[a].lease
    BY <1>2, IdleHasType DEF Stays, GoesOn, Abandons, Returns
  <1>6. job'[a].kind = "release" => database' # job'[a].lease
    BY <1>2, <1>5 DEF Kept, RowsGone
  <1> QED
    BY <1>1, <1>2, <1>3, <1>4, <1>6, OwnedLease, MoveKeepsKept

LEMMA ReleaseDatabaseKeepsKept ==
  ASSUME Inv, Kept, NEW a \in Actor, Owning(a), ReleaseDatabase(a)
  PROVE  Kept'
  <1>1. TypeOK /\ PlansFit /\ PlanFits(a)
    BY DEF Inv, Kept, PlansFit
  <1>2. /\ UNCHANGED <<top, claim, lost>>
        /\ database' = database \/ database' = None
        /\ Succeed(a) \/ Continue(a, << >>)
        /\ Doing(a, "release")
    BY DEF ReleaseDatabase, Releasing
  <1>3. database' # job[a].lease
    BY OwnedLease DEF ReleaseDatabase, sameIdentity
  <1>4. Alone(a) /\ (GoesOn(a) \/ Returns(a))
    BY <1>1, <1>2, SucceedMoves, ContinueMoves
  <1>5. PlanFits(a)'
    BY <1>1, <1>4, MoveKeepsPlan
  <1>6. \/ Owning(a)' /\ job'[a].lease = job[a].lease
        \/ ~Owning(a)'
    BY <1>4, IdleHasType DEF GoesOn, Returns, Owning
  <1>7. job'[a].kind = "release" => job'[a].lease = job[a].lease
    BY <1>4, IdleHasType DEF GoesOn, Returns
  <1> QED
    BY <1>1, <1>2, <1>3, <1>4, <1>5, <1>6, <1>7, OwnedLease, MoveKeepsKept

LEMMA ForgetClaimKeepsKept ==
  ASSUME Inv, Kept, NEW a \in Actor, Owning(a), ForgetClaim(a)
  PROVE  Kept'
  <1>1. TypeOK /\ PlansFit /\ PlanFits(a)
    BY DEF Inv, Kept, PlansFit
  <1>2. UNCHANGED <<top, claim, lost, database>> /\ Succeed(a) /\ Doing(a, "forget")
    BY DEF ForgetClaim
  <1>3. job[a].kind = "release" /\ plan[a] = ToForget
    BY <1>1, <1>2, TaskAtHand
  <1>4. Alone(a) /\ GoesOn(a)
    BY <1>1, <1>2, <1>3, SucceedMoves, Plans DEF ReleasePlans
  <1>5. PlanFits(a)'
    BY <1>1, <1>4, MoveKeepsPlan
  <1>6. database # job[a].lease
    BY <1>3, PlansDiffer DEF Kept, RowsGone
  <1>7. Owning(a)' /\ job'[a].lease = job[a].lease
    BY <1>4 DEF GoesOn, Owning
  <1> QED
    BY <1>1, <1>2, <1>4, <1>5, <1>6, <1>7, OwnedLease, MoveKeepsKept

LEMMA CommitClaimKeepsKept ==
  ASSUME Inv, Kept, NEW a \in Actor, CommitClaim(a)
  PROVE  Kept'
  <1>1. TypeOK /\ PlansFit /\ PlanFits(a)
    BY DEF Inv, Kept, PlansFit
  <1>2. job[a].kind = "acquire" /\ Owning(a) /\ UNCHANGED <<now, database, top, lost>>
    BY DEF CommitClaim, Owning
  <1>3. CASE UNCHANGED claim /\ Fail(a)
    <2>1. Alone(a) /\ Abandons(a)
      BY <1>1, <1>2, <1>3, FailMoves
    <2>2. PlanFits(a)'
      BY <1>1, <1>2, <2>1, MoveKeepsPlan
    <2>3. Owning(a)' /\ job'[a].lease = job[a].lease /\ job'[a].kind # "release"
      BY <2>1 DEF Abandons, Owning
    <2> QED
      BY <1>1, <1>2, <1>3, <2>1, <2>2, <2>3, OwnedLease, MoveKeepsKept
  <1>4. CASE claim' = [claim EXCEPT ![a] = job[a].lease] /\ Continue(a, << >>)
    <2>1. Alone(a) /\ Returns(a)
      BY <1>1, <1>4, ContinueMoves
    <2>2. PlanFits(a)'
      BY <1>1, <1>2, <2>1, MoveKeepsPlan
    <2>3. /\ claim'[a] = job[a].lease /\ \A b \in Actor \ {a} : claim'[b] = claim[b]
          /\ ~Owning(a)' /\ job'[a].kind # "release"
      BY <1>1, <1>4, <2>1, IdleHasType DEF TypeOK, Returns, Owning
    <2>4. PlansFit'
      BY <2>1, <2>2, <1>1 DEF PlansFit, PlanFits, Alone
    <2>5. TokensIssued'
      BY <1>2, <2>1, <2>3 DEF Kept, TokensIssued, Owning, Alone
    <2>6. RowsGone'
      BY <1>2, <2>1, <2>3 DEF Kept, RowsGone, Alone
    <2>7. claim[a] = None
      BY <1>2 DEF Inv, Owned, ClaimsAreOwn
    <2>8. LeaseHasAKeeper'
      BY <1>2, <2>1, <2>3, <2>7 DEF Kept, LeaseHasAKeeper, Owning, Alone
    <2> QED
      BY <2>4, <2>5, <2>6, <2>8 DEF Kept
  <1> QED
    BY <1>3, <1>4 DEF CommitClaim

LEMMA AcquireDatabaseKeepsKept ==
  ASSUME Inv, Kept, NEW a \in Actor, AcquireDatabase(a)
  PROVE  Kept'
  <1> DEFINE lease == [owner |-> a, token |-> top + 1, expiresAt |-> now + LeaseMs]
             call == Call("acquire", lease, NoSnapshot)
  <1>1. TypeOK /\ top \in Nat /\ now \in Nat
    BY DEF Inv, TypeOK
  <1>2. lease \in Lease /\ lease.token = top + 1
    BY <1>1, LengthsAssumption DEF Lease
  <1>3. /\ job[a] = Idle /\ database' = lease /\ top' = top + 1
        /\ Begin(a, call, AcquirePlan) /\ UNCHANGED <<claim, lost>>
    BY DEF AcquireDatabase
  <1>4. call.kind = "acquire" /\ call.lease = lease
    BY DEF Call
  <1> HIDE DEF call, lease
  <1>5. AcquirePlan # << >> /\ AcquirePlan \in AcquirePlans
    BY Plans DEF AcquirePlans
  <1>6. Alone(a) /\ job'[a] = call /\ plan'[a] = AcquirePlan
    BY <1>1, <1>3, <1>5, BeginMoves
  <1>7. \A x \in Actor : claim[x] # None => claim[x] \in Lease
    BY <1>1, LeaseTypes
  <1>8. PlansFit'
    BY <1>4, <1>5, <1>6 DEF Kept, PlansFit, PlanFits, Alone
  <1>9. TokensIssued'
    <2>1. ASSUME NEW l \in Lease, l.token <= top PROVE l.token <= top'
      BY <1>1, <1>3, <2>1 DEF Lease
    <2>2. \A x \in Actor \ {a} : Owning(x)' => Owning(x) /\ job'[x].lease = job[x].lease
      BY <1>6 DEF Alone, Owning
    <2>3. job'[a].lease.token <= top'
      BY <1>1, <1>2, <1>3, <1>4, <1>6
    <2>4. \A x \in Actor : Owning(x)' => job'[x].lease.token <= top'
      BY <2>1, <2>2, <2>3, OwnedLease DEF Kept, TokensIssued
    <2>5. \A x \in Actor : claim'[x] # None => claim'[x].token <= top'
      BY <1>3, <1>7, <2>1 DEF Kept, TokensIssued
    <2> QED
      BY <2>4, <2>5 DEF TokensIssued
  <1>10. RowsGone'
    <2>1. ASSUME NEW x \in Actor, job'[x].kind = "release" PROVE database' # job'[x].lease
      <3>1. x # a /\ job'[x] = job[x]
        BY <1>4, <1>6, <2>1 DEF Alone
      <3>2. Owning(x) /\ job[x].lease \in Lease
        BY <2>1, <3>1, OwnedLease DEF Owning
      <3>3. job[x].lease.token <= top /\ job[x].lease.token \in Nat
        BY <3>2 DEF Kept, TokensIssued, Lease
      <3> QED
        BY <1>1, <1>2, <1>3, <3>1, <3>3
    <2> QED
      BY <2>1 DEF RowsGone
  <1>11. LeaseHasAKeeper'
    BY <1>3, <1>4, <1>6 DEF LeaseHasAKeeper
  <1> QED
    BY <1>8, <1>9, <1>10, <1>11 DEF Kept

LEMMA StartReleaseKeepsKept ==
  ASSUME Inv, Kept, NEW a \in Actor, StartRelease(a)
  PROVE  Kept'
  <1> DEFINE call == Call("release", claim[a], NoSnapshot)
  <1>1. TypeOK /\ claim[a] # None
    BY DEF Inv, StartRelease
  <1>2. /\ job[a] = Idle /\ Begin(a, call, ReleasePlan)
        /\ claim' = [claim EXCEPT ![a] = None] /\ UNCHANGED <<database, top, lost>>
    BY DEF StartRelease, shared
  <1>3. call.kind = "release" /\ call.lease = claim[a]
    BY DEF Call
  <1> HIDE DEF call
  <1>4. ReleasePlan # << >> /\ ReleasePlan \in ReleasePlans
    BY Plans DEF ReleasePlans
  <1>5. Alone(a) /\ job'[a] = call /\ plan'[a] = ReleasePlan
    BY <1>1, <1>2, <1>4, BeginMoves
  <1>6. claim'[a] = None /\ \A b \in Actor \ {a} : claim'[b] = claim[b]
    BY <1>1, <1>2 DEF TypeOK
  <1>7. PlansFit'
    BY <1>3, <1>4, <1>5 DEF Kept, PlansFit, PlanFits, Alone
  <1>8. TokensIssued'
    BY <1>1, <1>2, <1>3, <1>5, <1>6 DEF Kept, TokensIssued, Owning, Alone
  <1>9. RowsGone'
    BY <1>2, <1>5 DEF Kept, RowsGone, Alone
  <1>10. LeaseHasAKeeper'
    <2>1. ~Owning(a)
      BY <1>2, IdleHasType DEF Owning
    <2> QED
      BY <1>2, <1>3, <1>5, <1>6, <2>1 DEF Kept, LeaseHasAKeeper, Owning, Alone
  <1> QED
    BY <1>7, <1>8, <1>9, <1>10 DEF Kept

\* Calls that own no lease leave every keeper in place.
LEMMA DriftKeepsKept ==
  ASSUME Inv, Kept, NEW a \in Actor, ~Owning(a),
         Step(a) \/ StartReconcile(a) \/ StartPanic(a)
  PROVE  Kept'
  <1>1. TypeOK /\ PlansFit
    BY DEF Inv, Kept
  <1>2. Alone(a) /\ Drifts(a)
    <2>1. CASE Step(a)
      BY <1>1, <2>1, StepDrifts
    <2>2. CASE StartReconcile(a) \/ StartPanic(a)
      <3>1. \E call, tasks : Begin(a, call, tasks) /\ call.kind \in {"reconcile", "panic"}
        BY <2>2 DEF StartReconcile, StartPanic, Call
      <3> QED
        BY <1>1, <3>1, BeginDrifts
    <2> QED
      BY <2>1, <2>2
  <1>3. PlanFits(a)' /\ ~Owning(a)' /\ job'[a].kind # "release"
    BY <1>2, IdleHasType DEF Drifts, Returns, PlanFits, Owning
  <1>4. UNCHANGED <<top, claim>> /\ (database' = database \/ database' = None) /\ lost \subseteq lost'
    BY DEF Step, FileStep, Open, Content, ReadExisting, Check, Unlink, ReleaseDatabase, CommitClaim,
           ForgetClaim, ObserveBackend, Decide, DropMemory, DropRead, DropDelete, StartReconcile,
           StartPanic, shared, Owning
  <1> QED
    BY <1>1, <1>2, <1>3, <1>4, OwnedLease, MoveKeepsKept

LEMMA EnvironmentKeepsKept ==
  ASSUME Inv, Kept, Tick \/ PruneStaleLocks \/ (\E p \in Process : Crash(p)) \/ UNCHANGED vars
  PROVE  Kept'
  <1>1. CASE Tick \/ PruneStaleLocks \/ UNCHANGED vars
    <2>1. /\ UNCHANGED <<top, claim, job, plan, lost>>
          /\ database' = database \/ database' = None
      BY <1>1 DEF Tick, PruneStaleLocks, vars, shared
    <2>2. PlansFit' /\ TokensIssued' /\ LeaseHasAKeeper'
      BY <2>1 DEF Kept, PlansFit, PlanFits, TokensIssued, Owning, LeaseHasAKeeper
    <2>3. \A x \in Actor : job[x].kind = "release" => job[x].lease # None
      BY OwnedLease DEF Owning
    <2>4. RowsGone'
      BY <2>1, <2>3 DEF Kept, RowsGone
    <2> QED
      BY <2>2, <2>4 DEF Kept
  <1>2. ASSUME NEW p \in Process, Crash(p) PROVE Kept'
    <2>1. /\ claim' = [x \in Actor |-> IF Home[x] = p THEN None ELSE claim[x]]
          /\ job' = [x \in Actor |-> IF Home[x] = p THEN Idle ELSE job[x]]
          /\ plan' = [x \in Actor |-> IF Home[x] = p THEN << >> ELSE plan[x]]
          /\ UNCHANGED <<database, top>>
          /\ lost' = lost \cup {l.token : l \in (UNION {InHand(x) : x \in Resident(p)}) \ {None}}
      BY <1>2 DEF Crash
    <2>2. ASSUME NEW x \in Actor
          PROVE  \/ /\ claim'[x] = None /\ job'[x] = Idle /\ plan'[x] = << >>
                    /\ \A l \in InHand(x) \ {None} : l.token \in lost'
                 \/ /\ claim'[x] = claim[x] /\ job'[x] = job[x] /\ plan'[x] = plan[x]
      <3>1. CASE Home[x] = p
        <4>1. x \in Resident(p)
          BY <3>1 DEF Resident
        <4>2. \A l \in InHand(x) \ {None} : l.token \in lost'
          BY <2>1, <4>1
        <4> QED
          BY <2>1, <3>1, <4>2
      <3>2. CASE Home[x] # p
        BY <2>1, <3>2
      <3> QED
        BY <3>1, <3>2
    <2>3. PlansFit'
      BY <2>2, IdleHasType DEF Kept, PlansFit, PlanFits
    <2>4. TokensIssued' /\ RowsGone'
      BY <2>1, <2>2, IdleHasType DEF Kept, TokensIssued, Owning, RowsGone
    <2>5. LeaseHasAKeeper'
      <3> SUFFICES ASSUME database' # None, database'.token \notin lost'
                   PROVE  \E x \in Actor : claim'[x] = database'
                                           \/ (Owning(x)' /\ job'[x].lease = database')
        BY DEF LeaseHasAKeeper, Owning
      <3>1. PICK x \in Actor : claim[x] = database \/ (Owning(x) /\ job[x].lease = database)
        BY <2>1 DEF Kept, LeaseHasAKeeper, Owning
      <3>2. database \in InHand(x) \ {None}
        BY <2>1, <3>1 DEF InHand, Owning
      <3>3. claim'[x] = claim[x] /\ job'[x] = job[x]
        BY <2>1, <2>2, <3>2
      <3> QED
        BY <2>1, <3>1, <3>3 DEF Owning
    <2> QED
      BY <2>3, <2>4, <2>5 DEF Kept
  <1> QED
    BY <1>1, <1>2

LEMMA KeptInit == Init => Kept
  BY IdleHasType DEF Init, Kept, PlansFit, PlanFits, TokensIssued, RowsGone, Owning, LeaseHasAKeeper

LEMMA KeptNext == Inv /\ Kept /\ [Next]_vars => Kept'
  <1> SUFFICES ASSUME Inv, Kept, [Next]_vars PROVE Kept'
    OBVIOUS
  <1>1. ASSUME NEW a \in Actor, Start(a) PROVE Kept'
    <2>1. job[a] = Idle /\ ~Owning(a)
      BY <1>1, IdleHasType DEF Start, AcquireDatabase, StartRelease, StartReconcile, StartPanic,
                               Owning
    <2> QED
      BY <1>1, <2>1, AcquireDatabaseKeepsKept, StartReleaseKeepsKept, DriftKeepsKept DEF Start
  <1>2. ASSUME NEW a \in Actor, Step(a) PROVE Kept'
    <2>1. CASE ~Owning(a)
      BY <1>2, <2>1, DriftKeepsKept
    <2>2. CASE Owning(a)
      <3>1. PlanFits(a)
        BY DEF Kept, PlansFit
      <3>2. ~Observing(a) /\ ~Doing(a, "observe") /\ ~Doing(a, "drop")
        BY <2>2, <3>1, TaskAtHand DEF Observing
      <3>3. FileStep(a) \/ ReleaseDatabase(a) \/ CommitClaim(a) \/ ForgetClaim(a)
        BY <1>2, <3>2 DEF Step, ObserveBackend, Decide, DropMemory, DropRead, DropDelete
      <3> QED
        BY <2>2, <3>3, FileStepKeepsKept, ReleaseDatabaseKeepsKept, CommitClaimKeepsKept,
           ForgetClaimKeepsKept
    <2> QED
      BY <2>1, <2>2
  <1> QED
    BY <1>1, <1>2, EnvironmentKeepsKept DEF Next

LEMMA KeptHolds == Spec => [](Inv /\ Kept)
  BY InvInit, InvNext, KeptInit, KeptNext, PTL DEF Spec

\* The row of the lane is never leaked: unless its holder crashed or was
\* overridden by an administrator, someone holds its claim or is in the call
\* that will hand it out or delete it, whatever reconcilers do meanwhile.
THEOREM KeeperAlways == Spec => []LeaseHasAKeeper
  <1>1. Inv /\ Kept => LeaseHasAKeeper
    BY DEF Kept
  <1> QED
    BY <1>1, KeptHolds, PTL

-----------------------------------------------------------------------------
(* A file being written has its writer at work, as long as nothing crashes *)

\* A record is never taken for a half-written file.
LEMMA PartialIsNoLease == \A f : ~(f \in Partial /\ f \in Lease)
  <1> SUFFICES ASSUME NEW f, f \in Partial, f \in Lease PROVE FALSE
    OBVIOUS
  <1>1. DOMAIN f = {"writer", "expiresAt"}
    BY DEF Partial
  <1>2. DOMAIN f = {"owner", "token", "expiresAt"}
    BY DEF Lease
  <1> QED
    BY <1>1, <1>2

\* Whatever an actor starts or does, no other actor's call moves.
LEMMA StepAlone ==
  ASSUME Inv, PlansFit, NEW a \in Actor, Start(a) \/ Step(a)
  PROVE  Alone(a)
  <1>1. TypeOK
    BY DEF Inv
  <1>2. CASE Start(a)
    <2>1. \E call, tasks : Begin(a, call, tasks)
      BY <1>2 DEF Start, AcquireDatabase, StartRelease, StartReconcile, StartPanic
    <2> QED
      BY <1>1, <2>1 DEF Begin, Alone, TypeOK
  <1>3. CASE Step(a) /\ ~Owning(a)
    BY <1>1, <1>3, StepDrifts
  <1>4. CASE Step(a) /\ Owning(a)
    <2>1. PlanFits(a)
      BY DEF PlansFit
    <2>2. ~Observing(a) /\ ~Doing(a, "observe") /\ ~Doing(a, "drop")
      BY <1>4, <2>1, TaskAtHand DEF Observing
    <2>3. FileStep(a) \/ ReleaseDatabase(a) \/ CommitClaim(a) \/ ForgetClaim(a)
      BY <1>4, <2>2 DEF Step, ObserveBackend, Decide, DropMemory, DropRead, DropDelete
    <2>4. CASE FileStep(a)
      BY <1>1, <1>4, <2>4, FileStepMoves
    <2>5. CASE ReleaseDatabase(a) \/ ForgetClaim(a)
      BY <1>1, <2>5, SucceedMoves, ContinueMoves DEF ReleaseDatabase, ForgetClaim
    <2>6. CASE CommitClaim(a)
      BY <1>1, <1>4, <2>6, FailMoves, ContinueMoves DEF CommitClaim
    <2> QED
      BY <2>3, <2>4, <2>5, <2>6
  <1> QED
    BY <1>2, <1>3, <1>4

\* An actor that has a file open can only go on to write its content.
LEMMA WriterWrites ==
  ASSUME NEW a \in Actor, Writing(a), job[a].at = "content", Start(a) \/ Step(a)
  PROVE  Content(a)
  <1>1. Doing(a, "write") /\ job[a].kind \in {"acquire", "repair"}
    BY DEF Writing
  <1>2. ~Start(a)
    BY <1>1, IdleHasType DEF Start, AcquireDatabase, StartRelease, StartReconcile, StartPanic
  <1>3. \A what \in {"remove", "release", "commit", "forget", "observe", "drop"} : ~Doing(a, what)
    BY <1>1 DEF Doing
  <1> QED
    BY <1>1, <1>2, <1>3
    DEF Step, FileStep, Open, ReadExisting, Check, Unlink, ReleaseDatabase, Releasing, CommitClaim,
        ForgetClaim, ObserveBackend, Observing, Decide, DropMemory, DropRead, DropDelete

\* Files are only ever written by Open and Content, and emptied by the rest.
LEMMA FileChanges ==
  ASSUME TypeOK, NEW a \in Actor, Start(a) \/ Step(a), NEW q \in Files
  PROVE  \/ files'[q] = files[q]
         \/ files'[q] = None
         \/ Open(a) /\ q = Target(a) /\ files[q] = None /\ At(a, "content", None)
            /\ files'[q] = [writer |-> a, expiresAt |-> now + StaleMs(a)]
         \/ Content(a) /\ q = Target(a) /\ IsPartial(files[q]) /\ files[q].writer = a
            /\ files'[q] = [owner |-> job[a].lease.owner, token |-> job[a].lease.token,
                            expiresAt |-> files[q].expiresAt]
  <1>1. CASE Open(a)
    BY <1>1 DEF Open, TypeOK
  <1>2. CASE Content(a)
    BY <1>2 DEF Content, TypeOK
  <1>3. CASE Unlink(a) \/ DropDelete(a)
    BY <1>3 DEF Unlink, DropDelete, TypeOK
  <1>4. CASE ~(Open(a) \/ Content(a) \/ Unlink(a) \/ DropDelete(a))
    <2>1. UNCHANGED files
      BY <1>4 DEF Start, AcquireDatabase, StartRelease, StartReconcile, StartPanic, Step, FileStep,
                  ReadExisting, Check, ReleaseDatabase, CommitClaim, ForgetClaim, ObserveBackend,
                  Decide, DropMemory, DropRead, shared
    <2> QED
      BY <2>1
  <1> QED
    BY <1>1, <1>2, <1>3, <1>4

\* Actor w has file q open and is about to write it.
AtWork(w, q) == Writing(w) /\ Target(w) = q /\ job[w].at = "content"

OpenBy(w, q) == IsPartial(files[q]) /\ files[q].writer = w

WritersAtWork == \A q \in Files, w \in Actor : OpenBy(w, q) => AtWork(w, q)

LEMMA PartialIsOpen == WritersAtWork => PartialHasWriter
  <1> SUFFICES ASSUME WritersAtWork, NEW q \in Files, IsPartial(files[q])
               PROVE  AtWork(files[q].writer, q)
    BY DEF PartialHasWriter, AtWork
  <1>1. PICK w \in Actor : files[q].writer = w
    BY DEF IsPartial, Partial
  <1>2. AtWork(w, q)
    BY <1>1 DEF WritersAtWork, OpenBy
  <1> QED
    BY <1>1, <1>2

LEMMA WriterKept ==
  ASSUME Inv, PlansFit, WritersAtWork, NEW a \in Actor, Start(a) \/ Step(a)
  PROVE  WritersAtWork'
  <1> SUFFICES ASSUME NEW q \in Files, NEW w \in Actor, OpenBy(w, q)'
               PROVE  AtWork(w, q)'
    BY DEF WritersAtWork
  <1>1. Alone(a) /\ TypeOK
    BY StepAlone DEF Inv
  <1>2. IsPartial(files'[q]) /\ files'[q].writer = w
    BY DEF OpenBy, IsPartial
  <1>3. CASE Open(a) /\ q = Target(a) /\ At(a, "content", None)
             /\ files'[q] = [writer |-> a, expiresAt |-> now + StaleMs(a)]
    <2>1. Stays(a, "content")
      BY <1>1, <1>3, AtMoves
    <2>2. Writing(a) /\ w = a
      BY <1>2, <1>3 DEF Open
    <2> QED
      BY <1>3, <2>1, <2>2 DEF Stays, AtWork, Writing, Doing, Running, Task, Target
  <1>4. CASE files'[q] = files[q]
    <2>1. AtWork(w, q)
      BY <1>2, <1>4 DEF WritersAtWork, OpenBy
    <2>2. CASE w = a
      <3>1. Content(a) /\ q = Target(a)
        BY <2>1, <2>2, WriterWrites DEF AtWork
      <3> DEFINE r == [owner |-> job[a].lease.owner, token |-> job[a].lease.token,
                       expiresAt |-> files[q].expiresAt]
      <3>2. files'[q] = r
        BY <1>1, <1>2, <1>4, <2>2, <3>1 DEF Content, TypeOK
      <3>3. DOMAIN files'[q] = {"owner", "token", "expiresAt"}
        BY <3>2
      <3>4. DOMAIN files'[q] = {"writer", "expiresAt"}
        BY <1>2 DEF IsPartial, Partial
      <3> QED
        BY <3>3, <3>4
    <2>3. CASE w # a
      BY <1>1, <2>1, <2>3 DEF Alone, AtWork, Writing, Doing, Running, Task, Target
    <2> QED
      BY <2>2, <2>3
  <1>5. CASE files'[q] = None
    BY <1>2, <1>5, NoneAssumption DEF IsPartial
  <1>6. CASE files'[q] = [owner |-> job[a].lease.owner, token |-> job[a].lease.token,
                          expiresAt |-> files[q].expiresAt]
    <2>1. DOMAIN files'[q] = {"owner", "token", "expiresAt"}
      BY <1>6
    <2>2. DOMAIN files'[q] = {"writer", "expiresAt"}
      BY <1>2 DEF IsPartial, Partial
    <2> QED
      BY <2>1, <2>2
  <1> QED
    BY <1>1, <1>3, <1>4, <1>5, <1>6, FileChanges

-----------------------------------------------------------------------------
(* Acquirers and releasers among themselves                                 *)

\* No swarm is admitted and no panic cleanup is run on the lane.
Undisturbed == Reconciler = {} /\ Admin = {}

OnlyLockers == \A x \in Actor : job[x].kind = "idle" \/ Owning(x)

\* Only calls that own a lease take steps, four kinds of them.
LEMMA LockerSteps ==
  ASSUME Kept, OnlyLockers, NEW a \in Actor, Step(a)
  PROVE  /\ Owning(a) /\ PlanFits(a)
         /\ FileStep(a) \/ ReleaseDatabase(a) \/ CommitClaim(a) \/ ForgetClaim(a)
  <1>1. Running(a)
    BY DEF Step, FileStep, Open, Content, ReadExisting, Check, Unlink, ReleaseDatabase, Releasing,
           CommitClaim, ForgetClaim, ObserveBackend, Decide, Observing, DropMemory, DropRead,
           DropDelete, Writing, Doing
  <1>2. Owning(a) /\ PlanFits(a)
    BY <1>1 DEF Kept, PlansFit, PlanFits, Running, OnlyLockers
  <1>3. ~Observing(a) /\ ~Doing(a, "observe") /\ ~Doing(a, "drop")
    BY <1>2, TaskAtHand DEF Observing
  <1> QED
    BY <1>2, <1>3 DEF Step, ObserveBackend, Decide, DropMemory, DropRead, DropDelete

\* Where a call may go from each of its tasks.
LEMMA LockerMoves ==
  ASSUME Inv, Kept, OnlyLockers, NEW a \in Actor, Step(a)
  PROVE  /\ Alone(a)
         /\ (\E step : Stays(a, step)) \/ GoesOn(a) \/ Abandons(a) \/ Returns(a)
  <1>1. TypeOK /\ PlansFit /\ Owning(a)
    BY LockerSteps DEF Inv, Kept
  <1>2. CASE FileStep(a)
    BY <1>1, <1>2, FileStepMoves
  <1>3. CASE ReleaseDatabase(a) \/ ForgetClaim(a)
    BY <1>1, <1>3, SucceedMoves, ContinueMoves DEF ReleaseDatabase, ForgetClaim
  <1>4. CASE CommitClaim(a)
    BY <1>1, <1>4, FailMoves, ContinueMoves DEF CommitClaim
  <1> QED
    BY <1>2, <1>3, <1>4, LockerSteps

LEMMA AcquireMoves ==
  ASSUME TypeOK, NEW a \in Actor, AcquireDatabase(a)
  PROVE  /\ Alone(a) /\ job'[a].kind = "acquire" /\ job'[a].at = "start"
         /\ job'[a].lease = database' /\ plan'[a] = AcquirePlan
         /\ database' = [owner |-> a, token |-> top + 1, expiresAt |-> now + LeaseMs]
         /\ database' \in Lease
         /\ job[a] = Idle /\ claim[a] = None
  <1> DEFINE lease == [owner |-> a, token |-> top + 1, expiresAt |-> now + LeaseMs]
             call == Call("acquire", lease, NoSnapshot)
  <1>1. /\ job[a] = Idle /\ claim[a] = None /\ database' = lease
        /\ Begin(a, call, AcquirePlan)
    BY DEF AcquireDatabase
  <1>2. call.kind = "acquire" /\ call.lease = lease /\ call.at = "start"
    BY DEF Call
  <1>3. lease \in Lease
    BY LengthsAssumption DEF TypeOK, Lease
  <1>4. AcquirePlan # << >>
    BY Plans DEF AcquirePlans
  <1> HIDE DEF call
  <1>5. Alone(a) /\ job'[a] = call /\ plan'[a] = AcquirePlan
    BY <1>1, <1>4, BeginMoves
  <1> QED
    BY <1>1, <1>2, <1>3, <1>5

LEMMA ReleaseMoves ==
  ASSUME TypeOK, NEW a \in Actor, StartRelease(a)
  PROVE  /\ Alone(a) /\ job'[a].kind = "release" /\ job'[a].at = "start"
         /\ job'[a].lease = claim[a] /\ plan'[a] = ReleasePlan
         /\ claim[a] # None /\ claim'[a] = None
         /\ \A b \in Actor \ {a} : claim'[b] = claim[b]
         /\ job[a] = Idle
  <1> DEFINE call == Call("release", claim[a], NoSnapshot)
  <1>1. /\ job[a] = Idle /\ claim[a] # None /\ claim' = [claim EXCEPT ![a] = None]
        /\ Begin(a, call, ReleasePlan)
    BY DEF StartRelease
  <1>2. call.kind = "release" /\ call.lease = claim[a] /\ call.at = "start"
    BY DEF Call
  <1>3. ReleasePlan # << >>
    BY Plans DEF ReleasePlans
  <1> HIDE DEF call
  <1>4. Alone(a) /\ job'[a] = call /\ plan'[a] = ReleasePlan
    BY <1>1, <1>3, BeginMoves
  <1> QED
    BY <1>1, <1>2, <1>4 DEF TypeOK

LEMMA StartsOnlyLock ==
  ASSUME Undisturbed, NEW a \in Actor, Start(a)
  PROVE  AcquireDatabase(a) \/ StartRelease(a)
  BY DEF Undisturbed, Start, StartReconcile, StartPanic

LEMMA CrashMoves ==
  ASSUME TypeOK, NEW p \in Process, Crash(p)
  PROVE  /\ UNCHANGED <<now, database, top, files>>
         /\ inProcessClaims' = [inProcessClaims EXCEPT ![p] = None]
         /\ \A x \in Actor : \/ Home[x] = p /\ claim'[x] = None /\ Returns(x)
                             \/ /\ Home[x] # p
                                /\ claim'[x] = claim[x] /\ job'[x] = job[x] /\ plan'[x] = plan[x]
  BY DEF Crash, Returns

LEMMA OnlyLockersKept ==
  ASSUME Undisturbed, Inv, Kept, OnlyLockers, [Next]_vars
  PROVE  OnlyLockers'
  <1>1. TypeOK
    BY DEF Inv
  <1>2. ASSUME NEW a \in Actor, Start(a) PROVE OnlyLockers'
    BY <1>1, <1>2, StartsOnlyLock, AcquireMoves, ReleaseMoves DEF OnlyLockers, Owning, Alone
  <1>3. ASSUME NEW a \in Actor, Step(a) PROVE OnlyLockers'
    <2>1. Owning(a)
      BY <1>3, LockerSteps
    <2>2. job'[a].kind = "idle" \/ Owning(a)'
      BY <1>3, <2>1, LockerMoves, IdleHasType DEF Stays, GoesOn, Abandons, Returns, Owning
    <2> QED
      BY <1>3, <2>2, LockerMoves DEF OnlyLockers, Owning, Alone
  <1>4. ASSUME NEW p \in Process, Crash(p) PROVE OnlyLockers'
    BY <1>1, <1>4, CrashMoves, IdleHasType DEF OnlyLockers, Owning, Returns
  <1>5. CASE Tick \/ PruneStaleLocks \/ UNCHANGED vars
    BY <1>5 DEF Tick, PruneStaleLocks, vars, OnlyLockers, Owning
  <1> QED
    BY <1>2, <1>3, <1>4, <1>5 DEF Next

\* Process p remembers lease l.
Remembers(p, l) == inProcessClaims[p] # None /\ sameIdentity(inProcessClaims[p], l)

MemoryFits == \A x \in Actor : claim[x] # None => Remembers(Home[x], claim[x])

\* Claims change when an acquisition is committed, a release starts or a
\* process crashes, and at no other step.
LEMMA ClaimChanges ==
  ASSUME Undisturbed, Kept, OnlyLockers, [Next]_vars
  PROVE  \/ UNCHANGED <<claim, inProcessClaims>>
         \/ \E a \in Actor : \/ CommitClaim(a) \/ ForgetClaim(a) \/ StartRelease(a)
         \/ \E p \in Process : Crash(p)
  <1>1. ASSUME NEW a \in Actor, Start(a)
        PROVE  UNCHANGED <<claim, inProcessClaims>> \/ StartRelease(a)
    BY <1>1, StartsOnlyLock DEF AcquireDatabase
  <1>2. ASSUME NEW a \in Actor, Step(a)
        PROVE  UNCHANGED <<claim, inProcessClaims>> \/ CommitClaim(a) \/ ForgetClaim(a)
    BY <1>2, LockerSteps
    DEF FileStep, Open, Content, ReadExisting, Check, Unlink, ReleaseDatabase, shared
  <1> QED
    BY <1>1, <1>2 DEF Next, Tick, PruneStaleLocks, vars, shared

LEMMA MemoryKept ==
  ASSUME Undisturbed, Inv, Kept, OnlyLockers, MemoryFits, [Next]_vars
  PROVE  MemoryFits'
  <1> USE HomeAssumption
  <1>1. /\ TypeOK
        /\ \A x \in Actor : claim[x] # None => claim[x].owner = x /\ job[x].kind = "idle"
    BY DEF Inv, Owned, ClaimsAreOwn
  <1>2. CASE UNCHANGED <<claim, inProcessClaims>>
    BY <1>2 DEF MemoryFits, Remembers
  <1>3. ASSUME NEW a \in Actor, CommitClaim(a) PROVE MemoryFits'
    <2>1. Owning(a)
      BY <1>3 DEF CommitClaim, Owning
    <2>2. job[a].lease # None /\ job[a].lease.owner = a
      BY <2>1, OwnedLease
    <2>3. CASE UNCHANGED <<inProcessClaims, claim>>
      BY <2>3 DEF MemoryFits, Remembers
    <2>4. CASE ~UNCHANGED <<inProcessClaims, claim>>
      <3>1. /\ inProcessClaims' = [inProcessClaims EXCEPT ![Home[a]] = job[a].lease]
            /\ claim' = [claim EXCEPT ![a] = job[a].lease]
            /\ inProcessClaims[Home[a]] = None \/ sameIdentity(inProcessClaims[Home[a]], job[a].lease)
        BY <1>3, <2>4 DEF CommitClaim
      <3>2. ASSUME NEW x \in Actor, claim'[x] # None PROVE Remembers(Home[x], claim[x])'
        <4>1. CASE x = a
          BY <1>1, <2>2, <3>1, <4>1 DEF TypeOK, Remembers, sameIdentity
        <4>2. CASE x # a
          <5>1. claim'[x] = claim[x] /\ claim[x] # None
            BY <1>1, <3>1, <3>2, <4>2 DEF TypeOK
          <5>2. Remembers(Home[x], claim[x]) /\ claim[x].owner = x
            BY <1>1, <5>1 DEF MemoryFits
          <5>3. Home[x] # Home[a]
            BY <2>2, <3>1, <4>2, <5>2 DEF Remembers, sameIdentity
          <5>4. inProcessClaims'[Home[x]] = inProcessClaims[Home[x]]
            BY <1>1, <3>1, <5>3 DEF TypeOK
          <5> QED
            BY <5>1, <5>2, <5>4 DEF Remembers
        <4> QED
          BY <4>1, <4>2
      <3> QED
        BY <3>2 DEF MemoryFits
    <2> QED
      BY <2>3, <2>4
  <1>4. ASSUME NEW a \in Actor, ForgetClaim(a) PROVE MemoryFits'
    <2>1. Doing(a, "forget") /\ UNCHANGED claim /\ Step(a)
      BY <1>4 DEF ForgetClaim, Step
    <2>2. job[a].kind = "release" /\ Owning(a)
      BY <2>1, LockerSteps, TaskAtHand
    <2>3. inProcessClaims' = Forgotten(Home[a], job[a].lease)
      BY <1>4, <2>2 DEF ForgetClaim
    <2>4. ASSUME NEW x \in Actor, claim[x] # None PROVE Remembers(Home[x], claim[x])'
      <3>1. Remembers(Home[x], claim[x]) /\ claim[x].owner = x /\ x # a
        BY <1>1, <2>2, <2>4 DEF MemoryFits
      <3>2. inProcessClaims'[Home[x]] = inProcessClaims[Home[x]]
        BY <1>1, <2>2, <2>3, <3>1, OwnedLease DEF Forgotten, TypeOK, Remembers, sameIdentity
      <3> QED
        BY <2>1, <3>1, <3>2 DEF Remembers
    <2> QED
      BY <2>1, <2>4 DEF MemoryFits
  <1>5. ASSUME NEW a \in Actor, StartRelease(a) PROVE MemoryFits'
    <2>1. UNCHANGED inProcessClaims
      BY <1>5 DEF StartRelease, shared
    <2> QED
      BY <1>1, <1>5, <2>1, ReleaseMoves DEF MemoryFits, Remembers
  <1>6. ASSUME NEW p \in Process, Crash(p) PROVE MemoryFits'
    BY <1>1, <1>6, CrashMoves DEF MemoryFits, Remembers, TypeOK
  <1> QED
    BY <1>2, <1>3, <1>4, <1>5, <1>6, ClaimChanges

-----------------------------------------------------------------------------
(* Files while no lease has run out *)

\* File q is a projection of lease l.
Mine(l, q) == IsRecord(files[q]) /\ sameIdentity(files[q], l)

\* The expiry of every file and lease was chosen at least LeaseMs ahead.
FilesLast == \A q \in Files : files[q] # None => files[q].expiresAt >= LeaseMs

\* An acquisition has written the files of the tasks behind it and has the one
\* at hand open while it writes it; nobody removes but what is his.
CallFiles(x) ==
  /\ claim[x] # None => \A q \in Files : Mine(claim[x], q)
  /\ job[x].kind = "acquire" =>
       /\ job[x].at \in {"start", "content", "read"}
       /\ plan[x] = AcquirePlan => (job[x].at = "content" => OpenBy(x, "filesystem"))
       /\ plan[x] = ToWriteFence => /\ Mine(job[x].lease, "filesystem")
                                    /\ job[x].at = "content" => OpenBy(x, "broccoli")
       /\ plan[x] = ToCommit => \A q \in Files : Mine(job[x].lease, q)
  /\ job[x].kind \in {"abandon", "release"} =>
       (job[x].at = "unlink" => Doing(x, "remove") /\ Mine(job[x].lease, Target(x)))

FilesFit == Unhurried => \A x \in Actor : CallFiles(x)

Recognised == OnlyLockers /\ MemoryFits /\ FilesLast /\ FilesFit

\* The ways a call that owns a lease goes about one of its files.
OpensFile(a, q) ==
  /\ Doing(a, "write") /\ files[q] = None /\ Stays(a, "content")
  /\ files'[q] \in Partial /\ files'[q].writer = a /\ files'[q].expiresAt >= LeaseMs

LooksAtFile(a) == UNCHANGED files /\ Doing(a, "write") /\ (Stays(a, "start") \/ Stays(a, "read"))

FillsFile(a, q) ==
  /\ Doing(a, "write") /\ OpenBy(a, q) /\ GoesOn(a)
  /\ files'[q] \in Lease /\ sameIdentity(files'[q], job[a].lease)
  /\ files'[q].expiresAt = files[q].expiresAt

FindsFile(a, q) == UNCHANGED files /\ Doing(a, "write") /\ Mine(job[a].lease, q) /\ GoesOn(a)

GivesUp(a) == UNCHANGED files /\ Doing(a, "write") /\ Abandons(a)

MatchesFile(a, q) ==
  UNCHANGED files /\ Doing(a, "remove") /\ Mine(job[a].lease, q) /\ Stays(a, "unlink")

PassesFile(a, q) ==
  UNCHANGED files /\ Doing(a, "remove") /\ ~Mine(job[a].lease, q) /\ (GoesOn(a) \/ Returns(a))

RemovesFile(a, q) ==
  /\ Doing(a, "remove") /\ Mine(job[a].lease, q) /\ files'[q] = None
  /\ GoesOn(a) \/ Returns(a)

AboutFile(a, q) ==
  \/ OpensFile(a, q) \/ LooksAtFile(a) \/ FillsFile(a, q) \/ FindsFile(a, q) \/ GivesUp(a)
  \/ MatchesFile(a, q) \/ PassesFile(a, q) \/ RemovesFile(a, q)

LEMMA FileStepIs ==
  ASSUME LeaseMs <= FenceMs, Inv, Kept, Recognised, Unhurried,
         NEW a \in Actor, Owning(a), FileStep(a)
  PROVE  /\ Target(a) \in Files
         /\ \A q \in Files \ {Target(a)} : files'[q] = files[q]
         /\ AboutFile(a, Target(a))
  <1> DEFINE q == Target(a)
  <1>1. TypeOK /\ PlansFit /\ PlanFits(a) /\ CallFiles(a)
    BY DEF Inv, Kept, PlansFit, Recognised, FilesFit
  <1>2. Doing(a, "write") \/ Doing(a, "remove")
    BY DEF FileStep, Open, Content, ReadExisting, Check, Unlink, Writing, Doing
  <1>3. ~(Doing(a, "write") /\ Doing(a, "remove"))
    BY DEF Doing
  <1>4. q \in Files
    BY <1>1, <1>2, TaskAtHand DEF Files
  <1>5. job[a].lease \in Lease /\ job[a].lease # None
    BY OwnedLease
  <1>6. Doing(a, "write") => /\ job[a].kind = "acquire" /\ job[a].at \in {"start", "content", "read"}
                             /\ job[a].at = "content" => OpenBy(a, q)
    BY <1>1, TaskAtHand DEF CallFiles
  <1>7. Doing(a, "remove") => /\ job[a].kind \in {"abandon", "release"}
                              /\ job[a].at = "unlink" => Mine(job[a].lease, q)
    BY <1>1, TaskAtHand DEF CallFiles
  <1> HIDE DEF q
  <1>8. CASE Open(a)
    <2>1. Doing(a, "write") /\ job[a].kind = "acquire"
      BY <1>6, <1>8 DEF Open, Writing
    <2>2. StaleMs(a) \in {LeaseMs, FenceMs}
      BY <2>1 DEF StaleMs
    <2>3. CASE files[q] = None
      <3> DEFINE f == [writer |-> a, expiresAt |-> now + StaleMs(a)]
      <3>1. files' = [files EXCEPT ![q] = f] /\ At(a, "content", None)
        BY <1>8, <2>3 DEF Open, q
      <3>2. f \in Partial /\ f.writer = a /\ f.expiresAt >= LeaseMs
        BY <1>1, <2>2, LengthsAssumption DEF Partial, TypeOK
      <3> HIDE DEF f
      <3>3. files'[q] = f /\ \A r \in Files \ {q} : files'[r] = files[r]
        BY <1>1, <1>4, <3>1 DEF TypeOK
      <3>4. OpensFile(a, q)
        BY <1>1, <2>1, <2>3, <3>1, <3>2, <3>3, AtMoves DEF OpensFile
      <3> QED
        BY <1>4, <3>3, <3>4 DEF AboutFile, q
    <2>4. CASE files[q] # None
      <3>1. At(a, "read", None) /\ UNCHANGED files
        BY <1>8, <2>4 DEF Open, q
      <3>2. LooksAtFile(a)
        BY <1>1, <2>1, <3>1, AtMoves DEF LooksAtFile
      <3> QED
        BY <1>4, <3>1, <3>2 DEF AboutFile, q
    <2> QED
      BY <2>3, <2>4
  <1>9. CASE Content(a)
    <2>1. Doing(a, "write") /\ job[a].kind = "acquire" /\ OpenBy(a, q) /\ Succeed(a)
      BY <1>6, <1>9 DEF Content, Writing
    <2> DEFINE l == [owner |-> job[a].lease.owner, token |-> job[a].lease.token,
                     expiresAt |-> files[q].expiresAt]
    <2>2. files' = [files EXCEPT ![q] = l]
      BY <1>9, <2>1 DEF Content, OpenBy, q
    <2>3. l \in Lease /\ sameIdentity(l, job[a].lease) /\ l.expiresAt = files[q].expiresAt
      BY <1>5, <2>1 DEF OpenBy, IsPartial, Partial, Lease, sameIdentity
    <2> HIDE DEF l
    <2>4. files'[q] = l /\ \A r \in Files \ {q} : files'[r] = files[r]
      BY <1>1, <1>4, <2>2 DEF TypeOK
    <2>5. GoesOn(a)
      BY <1>1, <2>1, SucceedMoves, TaskAtHand, Plans DEF AcquirePlans
    <2>6. FillsFile(a, q)
      BY <2>1, <2>3, <2>4, <2>5 DEF FillsFile
    <2> QED
      BY <1>4, <2>4, <2>6 DEF AboutFile, q
  <1>10. CASE ReadExisting(a)
    <2>1. Doing(a, "write") /\ job[a].kind = "acquire" /\ UNCHANGED files
      BY <1>6, <1>10 DEF ReadExisting, Writing, shared
    <2>2. IsRecord(files[q]) => ~(now > files[q].expiresAt)
      <3>1. IsRecord(files[q]) => files[q] # None /\ files[q].expiresAt \in Nat
        BY NoneAssumption DEF IsRecord, Lease
      <3> QED
        BY <1>1, <1>4, <3>1, LengthsAssumption DEF Recognised, FilesLast, Unhurried, TypeOK
    <2>3. \/ At(a, "start", None)
          \/ Mine(job[a].lease, q) /\ Succeed(a)
          \/ Fail(a)
      BY <1>10, <2>2 DEF ReadExisting, Mine, q
    <2>4. CASE At(a, "start", None)
      BY <1>1, <1>4, <2>1, <2>4, AtMoves DEF AboutFile, LooksAtFile, q
    <2>5. CASE Mine(job[a].lease, q) /\ Succeed(a)
      <3>1. GoesOn(a)
        BY <1>1, <2>1, <2>5, SucceedMoves, TaskAtHand, Plans DEF AcquirePlans
      <3> QED
        BY <1>4, <2>1, <2>5, <3>1 DEF AboutFile, FindsFile, q
    <2>6. CASE Fail(a)
      BY <1>1, <1>4, <2>1, <2>6, FailMoves DEF AboutFile, GivesUp, q
    <2> QED
      BY <2>3, <2>4, <2>5, <2>6
  <1>11. CASE Check(a)
    <2>1. Doing(a, "remove") /\ job[a].kind \in {"abandon", "release"} /\ UNCHANGED files
      BY <1>6, <1>7, <1>11 DEF Check, shared
    <2>2. Removed(a) = job[a].lease
      BY <1>3, <2>1 DEF Removed
    <2>3. CASE Mine(job[a].lease, q)
      <3>1. At(a, "unlink", None)
        BY <1>11, <2>2, <2>3 DEF Check, Mine, q
      <3> QED
        BY <1>1, <1>4, <2>1, <2>3, <3>1, AtMoves DEF AboutFile, MatchesFile, q
    <2>4. CASE ~Mine(job[a].lease, q)
      <3>1. Succeed(a) \/ Fail(a)
        BY <1>11, <2>2, <2>4 DEF Check, Mine, q
      <3>2. GoesOn(a) \/ Returns(a)
        BY <1>1, <2>1, <3>1, FailMoves, SucceedMoves
      <3> QED
        BY <1>4, <2>1, <2>4, <3>2 DEF AboutFile, PassesFile, q
    <2> QED
      BY <2>3, <2>4
  <1>12. CASE Unlink(a)
    <2>1. Doing(a, "remove") /\ job[a].kind \in {"abandon", "release"} /\ Mine(job[a].lease, q)
      BY <1>2, <1>6, <1>7, <1>12 DEF Unlink
    <2>2. files' = [files EXCEPT ![q] = None] /\ (Succeed(a) \/ Fail(a))
      BY <1>3, <1>12, <2>1 DEF Unlink, q
    <2>3. files'[q] = None /\ \A r \in Files \ {q} : files'[r] = files[r]
      BY <1>1, <1>4, <2>2 DEF TypeOK
    <2>4. GoesOn(a) \/ Returns(a)
      BY <1>1, <2>1, <2>2, FailMoves, SucceedMoves
    <2> QED
      BY <1>4, <2>1, <2>3, <2>4 DEF AboutFile, RemovesFile, q
  <1> QED
    BY <1>8, <1>9, <1>10, <1>11, <1>12 DEF FileStep

LEMMA FilesLastKept ==
  ASSUME LeaseMs <= FenceMs, Undisturbed, Inv, Kept, Recognised, [Next]_vars
  PROVE  FilesLast'
  <1>1. TypeOK /\ OnlyLockers /\ FilesLast
    BY DEF Inv, Recognised
  <1>2. ASSUME NEW a \in Actor, Start(a) \/ Step(a), NEW q \in Files, files'[q] # None
        PROVE  files'[q].expiresAt >= LeaseMs
    <2>1. CASE files'[q] = files[q]
      BY <1>1, <1>2, <2>1 DEF FilesLast
    <2>2. CASE Open(a) /\ files'[q] = [writer |-> a, expiresAt |-> now + StaleMs(a)]
      <3>1. job[a].kind = "acquire"
        BY <1>1, <2>2, IdleHasType DEF OnlyLockers, Owning, Open, Writing
      <3>2. StaleMs(a) \in {LeaseMs, FenceMs}
        BY <3>1 DEF StaleMs
      <3> QED
        BY <1>1, <2>2, <3>2, LengthsAssumption DEF TypeOK
    <2>3. CASE /\ IsPartial(files[q])
               /\ files'[q] = [owner |-> job[a].lease.owner, token |-> job[a].lease.token,
                               expiresAt |-> files[q].expiresAt]
      <3>1. files'[q].expiresAt = files[q].expiresAt
        BY <2>3
      <3>2. files[q] # None
        BY <2>3, NoneAssumption DEF IsPartial
      <3> QED
        BY <1>1, <3>1, <3>2 DEF FilesLast
    <2> QED
      BY <1>1, <1>2, <2>1, <2>2, <2>3, FileChanges
  <1>3. CASE UNCHANGED files
    BY <1>1, <1>3 DEF FilesLast
  <1> QED
    BY <1>2, <1>3 DEF Next, Crash, Tick, PruneStaleLocks, vars, shared, FilesLast

\* A step at a file leaves alone what other actors have written or opened.
LEMMA OthersFilesStay ==
  ASSUME LeaseMs <= FenceMs, Inv, Kept, Recognised, Unhurried,
         NEW a \in Actor, Owning(a), FileStep(a), NEW x \in Actor \ {a}, NEW q \in Files
  PROVE  /\ OpenBy(x, q) => OpenBy(x, q)'
         /\ \A l : l.owner = x /\ Mine(l, q) => Mine(l, q)'
  <1>1. CASE files'[q] = files[q]
    BY <1>1 DEF OpenBy, Mine, IsRecord, IsPartial
  <1>2. CASE files'[q] # files[q]
    <2>1. OpensFile(a, q) \/ FillsFile(a, q) \/ RemovesFile(a, q)
      BY <1>2, FileStepIs DEF AboutFile, LooksAtFile, FindsFile, GivesUp, MatchesFile, PassesFile
    <2>2. CASE OpensFile(a, q)
      BY <2>2, NoneAssumption DEF OpensFile, OpenBy, Mine, IsPartial, IsRecord
    <2>3. CASE FillsFile(a, q)
      BY <2>3, PartialIsNoLease DEF FillsFile, OpenBy, Mine, IsPartial, IsRecord
    <2>4. CASE RemovesFile(a, q)
      BY <2>4, PartialIsNoLease, OwnedLease
      DEF RemovesFile, OpenBy, Mine, IsPartial, IsRecord, sameIdentity
    <2> QED
      BY <2>1, <2>2, <2>3, <2>4
  <1> QED
    BY <1>1, <1>2

\* The actor that steps at a file.
LEMMA OwnFilesFit ==
  ASSUME LeaseMs <= FenceMs, Inv, Kept, Recognised, Unhurried,
         NEW a \in Actor, Owning(a), FileStep(a)
  PROVE  CallFiles(a)'
  <1> SUFFICES ASSUME NEW q, q = Target(a), NEW l, l = job[a].lease PROVE CallFiles(a)'
    OBVIOUS
  <1>1. TypeOK /\ PlansFit /\ PlanFits(a) /\ CallFiles(a)
    BY DEF Inv, Kept, PlansFit, Recognised, FilesFit
  <1>2. q \in Files /\ AboutFile(a, q) /\ \A r \in Files \ {q} : files'[r] = files[r]
    BY FileStepIs
  <1>3. claim'[a] = None
    BY <1>1, FileStepMoves DEF Inv, Owned, ClaimsAreOwn, Owning
  <1>4. Doing(a, "write") =>
          /\ job[a].kind = "acquire"
          /\ \/ plan[a] = AcquirePlan /\ q = "filesystem"
             \/ plan[a] = ToWriteFence /\ q = "broccoli"
    BY <1>1, TaskAtHand
  <1>5. Doing(a, "remove") => job[a].kind \in {"abandon", "release"}
    BY <1>1, TaskAtHand
  <1>6. ASSUME NEW r \in Files \ {q}, Mine(l, r) PROVE Mine(l, r)'
    BY <1>2, <1>6 DEF Mine
  <1>7. "filesystem" # "broccoli" /\ Files = {"filesystem", "broccoli"}
    BY DEF Files
  <1>8. CASE OpensFile(a, q)
    <2>1. /\ job'[a].kind = "acquire" /\ job'[a].lease = l /\ job'[a].at = "content"
          /\ plan'[a] = plan[a] /\ OpenBy(a, q)'
      BY <1>4, <1>8 DEF OpensFile, Stays, OpenBy, IsPartial
    <2>2. CASE plan[a] = AcquirePlan /\ q = "filesystem"
      BY <1>3, <2>1, <2>2, PlansDiffer DEF CallFiles
    <2>3. CASE plan[a] = ToWriteFence /\ q = "broccoli"
      <3>1. Mine(l, "filesystem")
        BY <1>1, <1>4, <1>8, <2>3 DEF CallFiles, OpensFile
      <3>2. Mine(l, "filesystem")'
        BY <1>6, <1>7, <2>3, <3>1
      <3>3. IsRecord(files'["filesystem"]) /\ sameIdentity(files'["filesystem"], job'[a].lease)
        BY <2>1, <3>2 DEF Mine
      <3> QED
        BY <1>3, <2>1, <2>3, <3>3, PlansDiffer DEF CallFiles, Mine, IsRecord
    <2> QED
      BY <1>4, <1>8, <2>2, <2>3 DEF OpensFile
  <1>9. CASE LooksAtFile(a)
    BY <1>1, <1>3, <1>4, <1>9
    DEF LooksAtFile, Stays, CallFiles, Mine, OpenBy, IsRecord, IsPartial
  <1>10. CASE FillsFile(a, q) \/ FindsFile(a, q)
    <2>1. /\ job'[a].kind = "acquire" /\ job'[a].lease = l /\ job'[a].at = "start"
          /\ plan'[a] = Tail(plan[a]) /\ Mine(l, q)'
      BY <1>4, <1>10 DEF FillsFile, FindsFile, GoesOn, Mine, IsRecord
    <2>2. CASE plan[a] = AcquirePlan /\ q = "filesystem"
      <3>1. plan'[a] = ToWriteFence
        BY <2>1, <2>2, Plans
      <3> QED
        BY <1>3, <2>1, <2>2, <3>1, PlansDiffer DEF CallFiles, Mine, IsRecord
    <2>3. CASE plan[a] = ToWriteFence /\ q = "broccoli"
      <3>1. plan'[a] = ToCommit
        BY <2>1, <2>3, Plans
      <3>2. Mine(l, "filesystem")'
        BY <1>1, <1>4, <1>6, <1>7, <1>10, <2>3 DEF CallFiles, FillsFile, FindsFile
      <3>3. \A r \in Files : Mine(l, r)'
        BY <1>7, <2>1, <2>3, <3>2
      <3> QED
        BY <1>3, <2>1, <3>1, <3>3, PlansDiffer DEF CallFiles, Mine, IsRecord
    <2> QED
      BY <1>4, <1>10, <2>2, <2>3 DEF FillsFile, FindsFile
  <1>11. CASE GivesUp(a)
    BY <1>3, <1>11 DEF GivesUp, Abandons, CallFiles
  <1>12. CASE MatchesFile(a, q)
    <2>1. /\ job'[a].kind \in {"abandon", "release"} /\ job'[a].lease = l
          /\ plan'[a] = plan[a] /\ Mine(l, q)' /\ Doing(a, "remove")
      BY <1>5, <1>12 DEF MatchesFile, Stays, Mine, IsRecord
    <2>2. Doing(a, "remove")' /\ Target(a)' = q
      BY <2>1 DEF Doing, Running, Task, Target
    <2> QED
      BY <1>3, <2>1, <2>2 DEF CallFiles, Mine, IsRecord
  <1>13. CASE PassesFile(a, q) \/ RemovesFile(a, q)
    <2>1. \/ job'[a].kind \in {"abandon", "release"} /\ job'[a].at = "start"
          \/ job'[a].kind = "idle"
      BY <1>5, <1>13, IdleHasType DEF PassesFile, RemovesFile, GoesOn, Returns
    <2> QED
      BY <1>3, <2>1 DEF CallFiles
  <1> QED
    BY <1>2, <1>8, <1>9, <1>10, <1>11, <1>12, <1>13 DEF AboutFile

\* Time only passes.
LEMMA StillUnhurried ==
  ASSUME Inv, [Next]_vars, Unhurried'
  PROVE  Unhurried
  <1>1. now' = now \/ now' = now + 1
    BY ZenonT(90) DEF Next, Start, AcquireDatabase, StartRelease, StartReconcile, StartPanic, Step, FileStep,
           Open, Content, ReadExisting, Check, Unlink, ReleaseDatabase, CommitClaim, ForgetClaim,
           ObserveBackend, Decide, DropMemory, DropRead, DropDelete, Crash, Tick, PruneStaleLocks,
           vars
  <1> QED
    BY <1>1, LengthsAssumption, SMTT(60) DEF Inv, TypeOK, Unhurried

\* Actors that neither move nor step at a file keep what they have.
LEMMA OthersCallFiles ==
  ASSUME NEW x \in Actor, CallFiles(x), UNCHANGED files,
         claim'[x] = claim[x], job'[x] = job[x], plan'[x] = plan[x]
  PROVE  CallFiles(x)'
  BY DEF CallFiles, OpenBy, IsPartial, Mine, IsRecord, Doing, Running, Task, Target

LEMMA FilesFitKept ==
  ASSUME LeaseMs <= FenceMs, Undisturbed, Inv, Kept, Recognised, [Next]_vars
  PROVE  FilesFit'
  <1> SUFFICES ASSUME Unhurried', NEW x \in Actor PROVE CallFiles(x)'
    BY DEF FilesFit
  <1>1. TypeOK /\ OnlyLockers /\ Unhurried /\ PlansFit
    BY StillUnhurried DEF Inv, Recognised, Kept
  <1>2. \A y \in Actor : CallFiles(y)
    BY <1>1 DEF Recognised, FilesFit
  <1>3. ASSUME NEW a \in Actor, AcquireDatabase(a) PROVE CallFiles(x)'
    <2>1. UNCHANGED <<files, claim>>
      BY <1>3 DEF AcquireDatabase
    <2>2. CASE x = a
      BY <1>1, <1>3, <2>1, <2>2, AcquireMoves, PlansDiffer DEF CallFiles
    <2>3. CASE x # a
      BY <1>1, <1>2, <1>3, <2>1, <2>3, AcquireMoves, OthersCallFiles DEF Alone
    <2> QED
      BY <2>2, <2>3
  <1>4. ASSUME NEW a \in Actor, StartRelease(a) PROVE CallFiles(x)'
    <2>1. UNCHANGED files
      BY <1>4 DEF StartRelease, shared
    <2>2. CASE x = a
      BY <1>1, <1>4, <2>1, <2>2, ReleaseMoves DEF CallFiles
    <2>3. CASE x # a
      BY <1>1, <1>2, <1>4, <2>1, <2>3, ReleaseMoves, OthersCallFiles DEF Alone
    <2> QED
      BY <2>2, <2>3
  <1>5. ASSUME NEW a \in Actor, Owning(a), FileStep(a) PROVE CallFiles(x)'
    <2>1. CASE x = a
      BY <1>1, <1>5, <2>1, OwnFilesFit
    <2>2. CASE x # a
      <3>1. claim'[x] = claim[x] /\ job'[x] = job[x] /\ plan'[x] = plan[x]
        BY <1>1, <1>5, <2>2, FileStepMoves DEF Alone
      <3>2. \A q \in Files : OpenBy(x, q) => OpenBy(x, q)'
        BY <1>1, <1>5, <2>2, OthersFilesStay
      <3>3. claim[x] # None => claim[x].owner = x
        BY DEF Inv, Owned, ClaimsAreOwn
      <3>4. Owning(x) => job[x].lease.owner = x
        BY OwnedLease
      <3>5. \A l : \A q \in Files : l.owner = x /\ Mine(l, q) => Mine(l, q)'
        BY <1>1, <1>5, <2>2, OthersFilesStay
      <3>6. ASSUME claim[x] # None PROVE \A q \in Files : Mine(claim[x], q) =>
                   IsRecord(files'[q]) /\ sameIdentity(files'[q], claim[x])
        BY <3>3, <3>5, <3>6 DEF Mine, IsRecord
      <3>7. ASSUME Owning(x) PROVE \A q \in Files : Mine(job[x].lease, q) =>
                   IsRecord(files'[q]) /\ sameIdentity(files'[q], job[x].lease)
        BY <3>4, <3>5, <3>7 DEF Mine, IsRecord
      <3>8. PlanFits(x) /\ CallFiles(x)
        BY <1>1, <1>2 DEF PlansFit
      <3>9. Doing(x, "remove") /\ Owning(x) => Target(x) \in Files
        BY <3>8, TaskAtHand DEF Files
      <3>10. (Doing(x, "remove")' <=> Doing(x, "remove")) /\ Target(x)' = Target(x)
        BY <3>1 DEF Doing, Running, Task, Target
      <3>11. "filesystem" \in Files /\ "broccoli" \in Files
        BY DEF Files
      <3>12. claim'[x] # None => \A q \in Files : Mine(claim[x], q)'
        BY <3>1, <3>6, <3>8 DEF CallFiles, Mine, IsRecord
      <3>13. CASE job[x].kind = "idle"
        BY <3>1, <3>12, <3>13 DEF CallFiles
      <3>14. CASE Owning(x)
        <4>1. ASSUME NEW q \in Files, Mine(job[x].lease, q) PROVE Mine(job[x].lease, q)'
          BY <3>1, <3>7, <3>14, <4>1 DEF Mine, IsRecord
        <4>2. Doing(x, "remove") /\ Mine(job[x].lease, Target(x)) => Mine(job[x].lease, Target(x))'
          BY <3>1, <3>7, <3>9, <3>10, <3>14 DEF Mine, IsRecord
        <4> QED
          BY <3>1, <3>2, <3>8, <3>10, <3>11, <3>12, <4>1, <4>2 DEF CallFiles
      <3> QED
        BY <1>1, <3>13, <3>14 DEF OnlyLockers
    <2> QED
      BY <2>1, <2>2
  <1>6. ASSUME NEW a \in Actor, ReleaseDatabase(a) \/ ForgetClaim(a), Owning(a)
        PROVE  CallFiles(x)'
    <2>1. /\ UNCHANGED <<files, claim>> /\ Alone(a) /\ (GoesOn(a) \/ Returns(a))
          /\ job[a].kind # "acquire"
      <3>1. Doing(a, "release") \/ Doing(a, "forget")
        BY <1>6 DEF ReleaseDatabase, Releasing, ForgetClaim
      <3>2. job[a].kind # "acquire"
        BY <1>1, <1>6, <3>1, TaskAtHand DEF PlansFit
      <3> QED
        BY <1>1, <1>6, <3>2, SucceedMoves, ContinueMoves DEF ReleaseDatabase, ForgetClaim
    <2>2. CASE x = a
      <3>1. claim'[a] = None
        BY <1>6, <2>1 DEF Inv, Owned, ClaimsAreOwn, Owning
      <3>2. \/ job'[a].kind \in {"abandon", "release"} /\ job'[a].at = "start"
            \/ job'[a].kind = "idle"
        BY <1>6, <2>1, IdleHasType DEF GoesOn, Returns, Owning
      <3> QED
        BY <2>2, <3>1, <3>2 DEF CallFiles
    <2>3. CASE x # a
      BY <1>2, <2>1, <2>3, OthersCallFiles DEF Alone
    <2> QED
      BY <2>2, <2>3
  <1>7. ASSUME NEW a \in Actor, CommitClaim(a) PROVE CallFiles(x)'
    <2>1. Owning(a) /\ job[a].kind = "acquire" /\ Doing(a, "commit") /\ UNCHANGED files
      BY <1>7 DEF CommitClaim, Owning
    <2>2. plan[a] = ToCommit
      BY <1>1, <2>1, TaskAtHand DEF PlansFit
    <2>3. CASE UNCHANGED claim /\ Fail(a)
      <3>1. Alone(a) /\ Abandons(a)
        BY <1>1, <2>1, <2>3, FailMoves
      <3>2. CASE x = a
        <4>1. claim'[a] = None
          BY <2>1, <2>3 DEF Inv, Owned, ClaimsAreOwn
        <4> QED
          BY <3>1, <3>2, <4>1 DEF Abandons, CallFiles
      <3>3. CASE x # a
        BY <1>2, <2>1, <2>3, <3>1, <3>3, OthersCallFiles DEF Alone
      <3> QED
        BY <3>2, <3>3
    <2>4. CASE claim' = [claim EXCEPT ![a] = job[a].lease] /\ Continue(a, << >>)
      <3>1. /\ Alone(a) /\ Returns(a) /\ claim'[a] = job[a].lease
            /\ \A y \in Actor \ {a} : claim'[y] = claim[y]
        BY <1>1, <2>4, ContinueMoves DEF TypeOK
      <3>2. CASE x = a
        <4>1. \A q \in Files : Mine(job[a].lease, q)
          BY <1>2, <2>1, <2>2 DEF CallFiles
        <4>2. \A q \in Files : IsRecord(files'[q]) /\ sameIdentity(files'[q], claim'[a])
          BY <2>1, <3>1, <4>1 DEF Mine
        <4> QED
          BY <3>1, <3>2, <4>2, IdleHasType DEF Returns, CallFiles, Mine, IsRecord
      <3>3. CASE x # a
        BY <1>2, <2>1, <3>1, <3>3, OthersCallFiles DEF Alone
      <3> QED
        BY <3>2, <3>3
    <2> QED
      BY <1>7, <2>3, <2>4 DEF CommitClaim
  <1>8. ASSUME NEW p \in Process, Crash(p) PROVE CallFiles(x)'
    <2>1. CASE claim'[x] = None /\ Returns(x)
      BY <2>1, IdleHasType DEF Returns, CallFiles
    <2>2. CASE claim'[x] = claim[x] /\ job'[x] = job[x] /\ plan'[x] = plan[x]
      BY <1>1, <1>2, <1>8, <2>2, CrashMoves, OthersCallFiles
    <2> QED
      BY <1>1, <1>8, <2>1, <2>2, CrashMoves
  <1>9. CASE Tick \/ PruneStaleLocks \/ UNCHANGED vars
    BY <1>2, <1>9, OthersCallFiles DEF Tick, PruneStaleLocks, vars, shared
  <1>10. ASSUME NEW a \in Actor, Start(a) PROVE CallFiles(x)'
    BY <1>3, <1>4, <1>10, StartsOnlyLock
  <1>11. ASSUME NEW a \in Actor, Step(a) PROVE CallFiles(x)'
    BY <1>1, <1>5, <1>6, <1>7, <1>11, LockerSteps
  <1> QED
    BY <1>8, <1>9, <1>10, <1>11 DEF Next

LEMMA RecognisedInit == Init => Recognised
  BY IdleHasType
  DEF Init, Recognised, OnlyLockers, MemoryFits, FilesLast, FilesFit, CallFiles

LEMMA RecognisedNext ==
  LeaseMs <= FenceMs /\ Undisturbed /\ Inv /\ Kept /\ Recognised /\ [Next]_vars => Recognised'
  BY OnlyLockersKept, MemoryKept, FilesLastKept, FilesFitKept DEF Recognised

\* verify() accepts every live claim: as long as nobody reconciles the lane or
\* cleans it up by force, no other acquisition, release, retry or crash makes a
\* process forget a claim it holds or touches the files that go with it.  The
\* fence must not run out before the lease does.
THEOREM ClaimsRecognised ==
  ASSUME Undisturbed, LeaseMs <= FenceMs
  PROVE  Spec => []LiveClaimIsRecognised
  <1>1. Inv /\ Recognised => LiveClaimIsRecognised
    BY DEF Recognised, MemoryFits, Remembers, FilesFit, CallFiles, Mine, LiveClaimIsRecognised,
           IsLive
  <1>2. Inv /\ Kept /\ Recognised /\ [Next]_vars => Recognised'
    BY RecognisedNext
  <1> QED
    BY <1>1, <1>2, InvInit, InvNext, KeptInit, KeptNext, RecognisedInit, PTL DEF Spec

-----------------------------------------------------------------------------
(* Calls clean up after themselves, as long as nothing crashes              *)

\* Nobody lost a lease, and no lease had less than LeaseMs to run.
LeasesLast ==
  /\ lost = {}
  /\ \A x \in Actor : /\ claim[x] # None => claim[x].expiresAt >= LeaseMs
                      /\ Owning(x) => job[x].lease.expiresAt >= LeaseMs

\* A release that is yet to delete its row still has it, so that it is not
\* turned away with its projections in place.
RowToRelease ==
  Unhurried => \A x \in Actor : job[x].kind = "release" /\ plan[x] = ReleasePlan =>
                                  database = job[x].lease

\* Actor x is yet to remove file q, or to hold the claim that goes with it.
Owes(x, q) ==
  \/ /\ job[x].kind = "acquire"
     /\ plan[x] = ToCommit \/ (q = "filesystem" /\ plan[x] = ToWriteFence)
  \/ /\ job[x].kind = "abandon"
     /\ plan[x] = ToRemoveBoth \/ (q = "filesystem" /\ plan[x] = ToRemoveFile)
  \/ /\ job[x].kind = "release"
     /\ q = "filesystem" => plan[x] # ToRemoveFence

HasFile(x, q) == IsRecord(files[q]) /\ files[q].owner = x

FileOwed(x, q) ==
  \/ claim[x] # None /\ sameIdentity(files[q], claim[x])
  \/ Owes(x, q) /\ sameIdentity(files[q], job[x].lease)

FilesOwed == Unhurried => \A x \in Actor, q \in Files : HasFile(x, q) => FileOwed(x, q)

InMemory(p, x) == inProcessClaims[p] # None /\ inProcessClaims[p].owner = x

MemoryOwed ==
  Unhurried => \A p \in Process, x \in Actor : InMemory(p, x) =>
    /\ Home[x] = p
    /\ \/ claim[x] # None /\ sameIdentity(inProcessClaims[p], claim[x])
       \/ /\ job[x].kind = "release" /\ plan[x] \in {ReleasePlan, ToForget}
          /\ sameIdentity(inProcessClaims[p], job[x].lease)

Clean == WritersAtWork /\ LeasesLast /\ RowToRelease /\ FilesOwed /\ MemoryOwed

\* With no crash to come, a step is one of eight.
LEMMA CalmSteps ==
  ASSUME MaxCrashes = 0, Undisturbed, Inv, Kept, OnlyLockers, [Next]_vars
  PROVE  \/ \E a \in Actor : \/ AcquireDatabase(a) \/ StartRelease(a)
                             \/ Owning(a) /\ Step(a) /\ PlanFits(a)
                                /\ (FileStep(a) \/ ReleaseDatabase(a) \/ CommitClaim(a) \/ ForgetClaim(a))
         \/ Tick \/ PruneStaleLocks \/ UNCHANGED vars
  <1>1. ASSUME NEW p \in Process, Crash(p) PROVE FALSE
    BY <1>1 DEF Crash, Inv, TypeOK
  <1>2. ASSUME NEW a \in Actor, Start(a) PROVE AcquireDatabase(a) \/ StartRelease(a)
    BY <1>2, StartsOnlyLock
  <1>3. ASSUME NEW a \in Actor, Step(a)
        PROVE  /\ Owning(a) /\ PlanFits(a)
               /\ FileStep(a) \/ ReleaseDatabase(a) \/ CommitClaim(a) \/ ForgetClaim(a)
    BY <1>3, LockerSteps
  <1> QED
    BY <1>1, <1>2, <1>3 DEF Next

LEMMA WritersKept ==
  ASSUME MaxCrashes = 0, Undisturbed, Inv, Kept, OnlyLockers, WritersAtWork, [Next]_vars
  PROVE  WritersAtWork'
  <1>1. ASSUME NEW a \in Actor, Start(a) \/ Step(a) PROVE WritersAtWork'
    BY <1>1, WriterKept DEF Kept
  <1>2. CASE Tick \/ PruneStaleLocks \/ UNCHANGED vars
    BY <1>2 DEF Tick, PruneStaleLocks, vars, shared, WritersAtWork, OpenBy, IsPartial, AtWork,
                Writing, Doing, Running, Task, Target
  <1> QED
    BY <1>1, <1>2, CalmSteps DEF Start

LEMMA LeasesLastKept ==
  ASSUME MaxCrashes = 0, Undisturbed, Inv, Kept, OnlyLockers, LeasesLast, [Next]_vars
  PROVE  LeasesLast'
  <1>1. TypeOK /\ now \in Nat
    BY DEF Inv, TypeOK
  <1>2. ASSUME NEW a \in Actor, AcquireDatabase(a) PROVE LeasesLast'
    <2>1. job'[a].lease.expiresAt >= LeaseMs
      BY <1>1, <1>2, AcquireMoves, LengthsAssumption
    <2>2. UNCHANGED <<claim, lost>>
      BY <1>2 DEF AcquireDatabase
    <2> QED
      BY <1>1, <1>2, <2>1, <2>2, AcquireMoves DEF LeasesLast, Owning, Alone
  <1>3. ASSUME NEW a \in Actor, StartRelease(a) PROVE LeasesLast'
    <2>1. UNCHANGED lost
      BY <1>3 DEF StartRelease
    <2> QED
      BY <1>1, <1>3, <2>1, ReleaseMoves DEF LeasesLast, Owning, Alone
  <1>4. ASSUME NEW a \in Actor, Owning(a), Step(a),
               FileStep(a) \/ ReleaseDatabase(a) \/ CommitClaim(a) \/ ForgetClaim(a)
        PROVE  LeasesLast'
    <2>1. /\ lost' = lost
          /\ claim' = claim \/ claim' = [claim EXCEPT ![a] = job[a].lease]
      BY <1>4 DEF FileStep, Open, Content, ReadExisting, Check, Unlink, ReleaseDatabase, CommitClaim,
                  ForgetClaim, shared
    <2>2. \A x \in Actor : claim'[x] = claim[x] \/ (x = a /\ claim'[x] = job[a].lease)
      BY <1>1, <2>1 DEF TypeOK
    <2>3. \A x \in Actor : Owning(x)' => Owning(x) /\ job'[x].lease = job[x].lease
      BY <1>4, LockerMoves, IdleHasType DEF Alone, Stays, GoesOn, Abandons, Returns, Owning
    <2> QED
      BY <1>4, <2>1, <2>2, <2>3 DEF LeasesLast
  <1>5. CASE Tick \/ PruneStaleLocks \/ UNCHANGED vars
    BY <1>5 DEF Tick, PruneStaleLocks, vars, LeasesLast, Owning
  <1> QED
    BY <1>2, <1>3, <1>4, <1>5, CalmSteps

LEMMA RowToReleaseKept ==
  ASSUME MaxCrashes = 0, Undisturbed, Inv, Kept, OnlyLockers, LeasesLast, RowToRelease,
         [Next]_vars
  PROVE  RowToRelease'
  <1> SUFFICES ASSUME Unhurried', NEW x \in Actor,
                      job'[x].kind = "release", plan'[x] = ReleasePlan
               PROVE  database' = job'[x].lease
    BY DEF RowToRelease
  <1>1. TypeOK /\ Unhurried /\ now \in Nat
    BY StillUnhurried DEF Inv, TypeOK
  <1>2. ASSUME NEW l \in Lease, l.expiresAt >= LeaseMs PROVE l.expiresAt > now /\ ~(l.expiresAt < now)
    BY <1>1, <1>2, LengthsAssumption DEF Lease, Unhurried
  <1>3. ASSUME Owning(x)
        PROVE  /\ job[x].lease \in Lease /\ job[x].lease.owner = x /\ job[x].lease # None
               /\ job[x].lease.expiresAt > now /\ ~(job[x].lease.expiresAt < now)
    BY <1>2, <1>3, OwnedLease DEF LeasesLast
  <1>4. ASSUME job'[x] = job[x], plan'[x] = plan[x]
        PROVE  Owning(x) /\ database = job[x].lease
    BY <1>1, <1>4 DEF RowToRelease, Owning
  <1>5. ASSUME NEW a \in Actor, AcquireDatabase(a) PROVE FALSE
    <2>1. job'[x] = job[x] /\ plan'[x] = plan[x]
      BY <1>1, <1>5, AcquireMoves DEF Alone
    <2> QED
      BY <1>3, <1>4, <1>5, <2>1 DEF AcquireDatabase, IsBusy
  <1>6. ASSUME NEW a \in Actor, StartRelease(a) PROVE database' = job'[x].lease
    <2>1. UNCHANGED database
      BY <1>6 DEF StartRelease, shared
    <2>2. CASE x = a
      <3>1. claim[a] \in Lease /\ claim[a] # None /\ job'[a].lease = claim[a]
        BY <1>1, <1>6, ReleaseMoves, LeaseTypes
      <3>2. IsLive(claim[a]) /\ claim[a].token \notin lost
        BY <1>2, <3>1 DEF LeasesLast, IsLive
      <3>3. database = claim[a]
        BY <3>2 DEF Inv, Owned, LiveClaimIsLease
      <3> QED
        BY <2>1, <2>2, <3>1, <3>3
    <2>3. CASE x # a
      BY <1>1, <1>4, <1>6, <2>1, <2>3, ReleaseMoves DEF Alone
    <2> QED
      BY <2>2, <2>3
  <1>7. ASSUME NEW a \in Actor, Owning(a), PlanFits(a), Step(a),
               FileStep(a) \/ ReleaseDatabase(a) \/ CommitClaim(a) \/ ForgetClaim(a)
        PROVE  database' = job'[x].lease
    <2>1. x # a
      <3>1. ASSUME x = a PROVE FALSE
        <4>1. /\ Alone(a)
              /\ (\E step : Stays(a, step)) \/ GoesOn(a) \/ Abandons(a) \/ Returns(a)
          BY <1>7, LockerMoves
        <4>2. job[a].kind = "release" /\ (plan'[a] = plan[a] \/ plan'[a] = Tail(plan[a]))
          BY <3>1, <4>1, IdleHasType DEF Stays, GoesOn, Abandons, Returns
        <4>3. plan[a] = ReleasePlan /\ ~(plan'[a] = Tail(plan[a]))
          BY <1>7, <3>1, <4>2, Plans, PlansDiffer DEF PlanFits, ReleasePlans
        <4>4. ~(GoesOn(a) \/ Returns(a) \/ Abandons(a))
          BY <4>2, <4>3, Plans DEF GoesOn, Returns, Abandons, ReleasePlans
        <4>5. CASE FileStep(a)
          BY <1>1, <1>7, <4>2, <4>3, <4>5, FileStepMoves DEF Kept
        <4>6. CASE ReleaseDatabase(a) \/ ForgetClaim(a)
          BY <1>1, <4>4, <4>6, SucceedMoves, ContinueMoves DEF ReleaseDatabase, ForgetClaim
        <4>7. CASE CommitClaim(a)
          BY <4>2, <4>7 DEF CommitClaim
        <4> QED
          BY <1>7, <4>5, <4>6, <4>7
      <3> QED
        BY <3>1
    <2>2. job'[x] = job[x] /\ plan'[x] = plan[x]
      BY <1>7, <2>1, LockerMoves DEF Alone
    <2>3. database = job[x].lease /\ Owning(x)
      BY <1>4, <2>2
    <2>4. database' = database
      <3>1. CASE ReleaseDatabase(a)
        <4>1. ~sameIdentity(database, job[a].lease)
          BY <1>3, <1>7, <2>1, <2>3, OwnedLease DEF sameIdentity
        <4> QED
          BY <3>1, <4>1 DEF ReleaseDatabase
      <3>2. CASE FileStep(a) \/ CommitClaim(a) \/ ForgetClaim(a)
        BY <3>2 DEF FileStep, Open, Content, ReadExisting, Check, Unlink, CommitClaim, ForgetClaim,
                    shared
      <3> QED
        BY <1>7, <3>1, <3>2
    <2> QED
      BY <2>2, <2>3, <2>4
  <1>8. CASE PruneStaleLocks
    BY <1>3, <1>4, <1>8 DEF PruneStaleLocks
  <1>9. CASE Tick \/ UNCHANGED vars
    BY <1>4, <1>9 DEF Tick, vars, shared
  <1> QED
    BY <1>5, <1>6, <1>7, <1>8, <1>9, CalmSteps

\* A file whose owner does not move is still owed, and a file of his was his
\* before the step.
LEMMA OthersOwed ==
  ASSUME NEW x \in Actor, NEW q \in Files, HasFile(x, q)', FileOwed(x, q), files'[q] = files[q],
         claim'[x] = claim[x], job'[x] = job[x], plan'[x] = plan[x]
  PROVE  FileOwed(x, q)'
  BY DEF FileOwed, Owes

LEMMA OthersHadFile ==
  ASSUME LeaseMs <= FenceMs, Inv, Kept, Recognised, Unhurried,
         NEW a \in Actor, Owning(a), FileStep(a), NEW x \in Actor \ {a}, NEW q \in Files,
         HasFile(x, q)'
  PROVE  HasFile(x, q) /\ files'[q] = files[q]
  <1>1. CASE files'[q] = files[q]
    BY <1>1 DEF HasFile, IsRecord
  <1>2. CASE files'[q] # files[q]
    <2>1. OpensFile(a, q) \/ FillsFile(a, q) \/ RemovesFile(a, q)
      BY <1>2, FileStepIs DEF AboutFile, LooksAtFile, FindsFile, GivesUp, MatchesFile, PassesFile
    <2>2. files'[q] \in Lease /\ files'[q].owner = x
      BY DEF HasFile, IsRecord
    <2>3. CASE OpensFile(a, q)
      BY <2>2, <2>3, PartialIsNoLease DEF OpensFile
    <2>4. CASE FillsFile(a, q)
      BY <2>2, <2>4, OwnedLease DEF FillsFile, sameIdentity
    <2>5. CASE RemovesFile(a, q)
      BY <2>2, <2>5, NoneAssumption DEF RemovesFile
    <2> QED
      BY <2>1, <2>3, <2>4, <2>5
  <1> QED
    BY <1>1, <1>2

\* What the actor that steps at file q owes afterwards.
LEMMA OwnFilesOwed ==
  ASSUME LeaseMs <= FenceMs, Inv, Kept, Recognised, Unhurried, FilesOwed,
         NEW a \in Actor, Owning(a), FileStep(a), NEW r \in Files, HasFile(a, r)'
  PROVE  FileOwed(a, r)'
  <1> SUFFICES ASSUME NEW q, q = Target(a), NEW l, l = job[a].lease PROVE FileOwed(a, r)'
    OBVIOUS
  <1>1. TypeOK /\ PlansFit /\ PlanFits(a)
    BY DEF Inv, Kept, PlansFit
  <1>2. q \in Files /\ AboutFile(a, q) /\ \A s \in Files \ {q} : files'[s] = files[s]
    BY FileStepIs
  <1>3. claim[a] = None
    BY DEF Inv, Owned, ClaimsAreOwn, Owning
  <1>4. Doing(a, "write") =>
          /\ job[a].kind = "acquire"
          /\ \/ plan[a] = AcquirePlan /\ q = "filesystem"
             \/ plan[a] = ToWriteFence /\ q = "broccoli"
    BY <1>1, TaskAtHand
  <1>5. Doing(a, "remove") =>
          \/ /\ job[a].kind = "abandon"
             /\ \/ plan[a] = ToRemoveBoth /\ q = "broccoli"
                \/ plan[a] = ToRemoveFile /\ q = "filesystem"
          \/ /\ job[a].kind = "release"
             /\ \/ plan[a] = ToRemoveFiles /\ q = "filesystem"
                \/ plan[a] = ToRemoveFence /\ q = "broccoli"
    BY <1>1, TaskAtHand
  <1>6. "filesystem" # "broccoli" /\ r \in {"filesystem", "broccoli"}
    BY DEF Files
  <1>7. files'[r] = files[r] => Owes(a, r) /\ sameIdentity(files[r], l) /\ IsRecord(files[r])
    <2> SUFFICES ASSUME files'[r] = files[r] PROVE Owes(a, r) /\ sameIdentity(files[r], l) /\ IsRecord(files[r])
      OBVIOUS
    <2>1. HasFile(a, r)
      BY DEF HasFile, IsRecord
    <2> QED
      BY <1>3, <2>1 DEF FilesOwed, FileOwed, HasFile
  <1>8. files'[r] \in Lease
    BY DEF HasFile, IsRecord
  <1>9. ASSUME job'[a].lease = l, sameIdentity(files'[r], l), Owes(a, r)' PROVE FileOwed(a, r)'
    BY <1>9 DEF FileOwed
  <1>10. CASE OpensFile(a, q)
    <2>1. r # q /\ files'[r] = files[r]
      BY <1>2, <1>8, <1>10, PartialIsNoLease DEF OpensFile
    <2>2. Owes(a, r)' /\ job'[a].lease = l
      BY <1>7, <1>10, <2>1 DEF OpensFile, Stays, Owes
    <2> QED
      BY <1>7, <1>9, <2>1, <2>2
  <1>11. CASE LooksAtFile(a)
    <2>1. Owes(a, r)' /\ job'[a].lease = l /\ files'[r] = files[r]
      BY <1>7, <1>11 DEF LooksAtFile, Stays, Owes
    <2> QED
      BY <1>7, <1>9, <2>1
  <1>12. CASE FillsFile(a, q) \/ FindsFile(a, q)
    <2>1. /\ Doing(a, "write") /\ job'[a].kind = "acquire" /\ job'[a].lease = l
          /\ plan'[a] = Tail(plan[a])
      BY <1>4, <1>12 DEF FillsFile, FindsFile, GoesOn
    <2>2. sameIdentity(files'[r], l)
      <3>1. CASE r = q
        BY <1>12, <3>1 DEF FillsFile, FindsFile, Mine
      <3>2. CASE r # q
        BY <1>2, <1>7, <3>2
      <3> QED
        BY <3>1, <3>2
    <2>3. Owes(a, r)'
      <3>1. CASE plan[a] = AcquirePlan /\ q = "filesystem"
        <4>1. r # q => ~Owes(a, r)
          BY <2>1, <1>4, <3>1, PlansDiffer DEF Owes
        <4>2. r = q
          BY <1>2, <1>7, <4>1
        <4> QED
          BY <2>1, <3>1, <4>2, Plans DEF Owes
      <3>2. CASE plan[a] = ToWriteFence /\ q = "broccoli"
        BY <2>1, <3>2, Plans DEF Owes
      <3> QED
        BY <1>4, <2>1, <3>1, <3>2
    <2> QED
      BY <1>9, <2>1, <2>2, <2>3
  <1>13. CASE GivesUp(a)
    <2>1. /\ job[a].kind = "acquire" /\ job'[a].kind = "abandon" /\ job'[a].lease = l
          /\ plan'[a] = AbandonPlan(Task(a)) /\ files'[r] = files[r] /\ Doing(a, "write")
      BY <1>13 DEF GivesUp, Abandons
    <2>2. plan[a] = ToWriteFence /\ r = "filesystem"
      BY <1>4, <1>7, <2>1, PlansDiffer DEF Owes
    <2>3. plan'[a] = ToRemoveFile
      BY <2>1, <2>2, Heads, Undoing DEF Task
    <2> QED
      BY <1>7, <1>9, <2>1, <2>2, <2>3 DEF Owes
  <1>14. CASE MatchesFile(a, q)
    <2>1. Owes(a, r)' /\ job'[a].lease = l /\ files'[r] = files[r]
      BY <1>7, <1>14 DEF MatchesFile, Stays, Owes
    <2> QED
      BY <1>7, <1>9, <2>1
  <1>15. CASE PassesFile(a, q) \/ RemovesFile(a, q)
    <2>1. Doing(a, "remove") /\ (GoesOn(a) \/ Returns(a))
      BY <1>15 DEF PassesFile, RemovesFile
    <2>2. r # q
      <3>1. CASE PassesFile(a, q) /\ r = q
        BY <1>7, <3>1 DEF PassesFile, Mine
      <3>2. CASE RemovesFile(a, q) /\ r = q
        BY <1>8, <3>2, NoneAssumption DEF RemovesFile
      <3> QED
        BY <1>15, <3>1, <3>2
    <2>3. Owes(a, r) /\ sameIdentity(files[r], l) /\ files'[r] = files[r]
      BY <1>2, <1>7, <2>2
    <2>4. \/ job[a].kind = "abandon" /\ plan[a] = ToRemoveBoth /\ r = "filesystem"
          \/ job[a].kind = "release" /\ plan[a] = ToRemoveFiles /\ r = "broccoli"
      BY <1>5, <1>6, <2>1, <2>2, <2>3, PlansDiffer DEF Owes
    <2>5. GoesOn(a)
      BY <1>1, <2>1, <2>4, FileStepMoves, PlansDiffer, IdleHasType
      DEF Returns, Stays, GoesOn, Abandons, Owning
    <2>6. job'[a].kind = job[a].kind /\ job'[a].lease = l /\ plan'[a] = Tail(plan[a])
      BY <2>5 DEF GoesOn
    <2>7. Owes(a, r)'
      BY <2>4, <2>6, Plans, PlansDiffer, <1>6, SMTT(60) DEF Owes
    <2> QED
      BY <1>9, <2>3, <2>6, <2>7
  <1> QED
    BY <1>2, <1>10, <1>11, <1>12, <1>13, <1>14, <1>15 DEF AboutFile

LEMMA FilesOwedKept ==
  ASSUME LeaseMs <= FenceMs, MaxCrashes = 0, Undisturbed, Inv, Kept, Recognised,
         LeasesLast, RowToRelease, FilesOwed, [Next]_vars
  PROVE  FilesOwed'
  <1> SUFFICES ASSUME Unhurried', NEW x \in Actor, NEW q \in Files, HasFile(x, q)'
               PROVE  FileOwed(x, q)'
    BY DEF FilesOwed
  <1>1. TypeOK /\ OnlyLockers /\ Unhurried /\ PlansFit
    BY StillUnhurried DEF Inv, Recognised, Kept
  <1>2. ASSUME files'[q] = files[q]
        PROVE  HasFile(x, q) /\ FileOwed(x, q)
    BY <1>1, <1>2 DEF HasFile, IsRecord, FilesOwed
  <1>3. ASSUME files'[q] = files[q], claim'[x] = claim[x], job'[x] = job[x], plan'[x] = plan[x]
        PROVE  FileOwed(x, q)'
    BY <1>2, <1>3, OthersOwed
  <1>4. ASSUME NEW a \in Actor, AcquireDatabase(a) PROVE FileOwed(x, q)'
    <2>1. files'[q] = files[q] /\ claim'[x] = claim[x]
      BY <1>4 DEF AcquireDatabase
    <2>2. x # a
      BY <1>1, <1>2, <1>4, <2>1, AcquireMoves, IdleHasType DEF FileOwed, Owes
    <2> QED
      BY <1>1, <1>3, <1>4, <2>1, <2>2, AcquireMoves DEF Alone
  <1>5. ASSUME NEW a \in Actor, StartRelease(a) PROVE FileOwed(x, q)'
    <2>1. files'[q] = files[q]
      BY <1>5 DEF StartRelease, shared
    <2>2. CASE x = a
      <3>1. ~Owes(a, q)
        BY <1>1, <1>5, ReleaseMoves, IdleHasType DEF Owes
      <3>2. sameIdentity(files'[q], job'[a].lease)
        BY <1>1, <1>2, <1>5, <2>1, <2>2, <3>1, ReleaseMoves DEF FileOwed
      <3>3. Owes(a, q)'
        BY <1>1, <1>5, ReleaseMoves, PlansDiffer DEF Owes
      <3> QED
        BY <2>2, <3>2, <3>3 DEF FileOwed
    <2>3. CASE x # a
      BY <1>1, <1>3, <1>5, <2>1, <2>3, ReleaseMoves DEF Alone
    <2> QED
      BY <2>2, <2>3
  <1>6. ASSUME NEW a \in Actor, Owning(a), FileStep(a) PROVE FileOwed(x, q)'
    <2>1. CASE x = a
      BY <1>1, <1>6, <2>1, OwnFilesOwed
    <2>2. CASE x # a
      <3>1. files'[q] = files[q]
        BY <1>1, <1>6, <2>2, OthersHadFile
      <3>2. claim'[x] = claim[x] /\ job'[x] = job[x] /\ plan'[x] = plan[x]
        BY <1>1, <1>6, <2>2, FileStepMoves DEF Alone
      <3> QED
        BY <1>3, <3>1, <3>2
    <2> QED
      BY <2>1, <2>2
  <1>7. ASSUME NEW a \in Actor, Owning(a), PlanFits(a), ReleaseDatabase(a) \/ ForgetClaim(a)
        PROVE  FileOwed(x, q)'
    <2>1. UNCHANGED <<files, claim>> /\ Alone(a) /\ (GoesOn(a) \/ Returns(a))
      BY <1>1, <1>7, SucceedMoves, ContinueMoves DEF ReleaseDatabase, ForgetClaim
    <2>2. CASE x # a
      BY <1>3, <2>1, <2>2 DEF Alone
    <2>3. CASE x = a
      <3>1. claim[a] = None
        BY <1>7 DEF Inv, Owned, ClaimsAreOwn, Owning
      <3>2. Owes(a, q) /\ sameIdentity(files[q], job[a].lease)
        BY <1>2, <2>1, <2>3, <3>1 DEF FileOwed
      <3>3. \/ job[a].kind = "abandon" /\ plan[a] = ToDeleteRow
            \/ job[a].kind = "release" /\ plan[a] = ReleasePlan /\ ReleaseDatabase(a)
            \/ job[a].kind = "release" /\ plan[a] = ToForget /\ ForgetClaim(a)
        BY <1>7, TaskAtHand, Tasks DEF ReleaseDatabase, Releasing, ForgetClaim, Doing
      <3>4. job[a].kind = "release" /\ plan[a] \in {ReleasePlan, ToForget}
        BY <3>2, <3>3, PlansDiffer DEF Owes
      <3>5. Succeed(a)
        <4>1. CASE ForgetClaim(a)
          BY <4>1 DEF ForgetClaim
        <4>2. CASE ReleaseDatabase(a) /\ plan[a] = ReleasePlan
          <5>1. database = job[a].lease
            BY <1>1, <3>4, <4>2 DEF RowToRelease
          <5> QED
            BY <4>2, <5>1 DEF ReleaseDatabase, sameIdentity
        <4> QED
          BY <3>3, <3>4, <4>1, <4>2
      <3>6. GoesOn(a)
        BY <1>1, <3>4, <3>5, SucceedMoves, Plans, SMTT(60) DEF ReleasePlans
      <3>7. Owes(a, q)' /\ job'[a].lease = job[a].lease
        BY <3>4, <3>6, Plans, PlansDiffer DEF Owes, GoesOn
      <3> QED
        BY <2>1, <2>3, <3>2, <3>7 DEF FileOwed
    <2> QED
      BY <2>2, <2>3
  <1>8. ASSUME NEW a \in Actor, PlanFits(a), CommitClaim(a) PROVE FileOwed(x, q)'
    <2>1. Owning(a) /\ job[a].kind = "acquire" /\ Doing(a, "commit") /\ files'[q] = files[q]
      BY <1>8 DEF CommitClaim, Owning
    <2>2. plan[a] = ToCommit /\ claim[a] = None
      BY <1>8, <2>1, TaskAtHand DEF Inv, Owned, ClaimsAreOwn
    <2>3. CASE UNCHANGED claim /\ Fail(a)
      <3>1. Alone(a) /\ Abandons(a)
        BY <1>1, <2>1, <2>3, FailMoves
      <3>2. CASE x = a
        <4>1. plan'[a] = ToRemoveBoth
          BY <2>2, <3>1, Heads, Undoing DEF Abandons, Task
        <4>2. Owes(a, q)' /\ job'[a].lease = job[a].lease
          BY <3>1, <4>1 DEF Abandons, Owes
        <4>3. sameIdentity(files[q], job[a].lease)
          BY <1>2, <2>1, <2>2, <3>2 DEF FileOwed
        <4> QED
          BY <2>1, <3>2, <4>2, <4>3 DEF FileOwed
      <3>3. CASE x # a
        BY <1>3, <2>1, <2>3, <3>1, <3>3 DEF Alone
      <3> QED
        BY <3>2, <3>3
    <2>4. CASE claim' = [claim EXCEPT ![a] = job[a].lease] /\ Continue(a, << >>)
      <3>1. /\ Alone(a) /\ claim'[a] = job[a].lease
            /\ \A y \in Actor \ {a} : claim'[y] = claim[y]
        BY <1>1, <2>4, ContinueMoves DEF TypeOK
      <3>2. CASE x = a
        <4>1. sameIdentity(files[q], job[a].lease)
          BY <1>2, <2>1, <2>2, <3>2 DEF FileOwed
        <4> QED
          BY <2>1, <3>1, <3>2, <4>1, OwnedLease DEF FileOwed
      <3>3. CASE x # a
        BY <1>3, <2>1, <3>1, <3>3 DEF Alone
      <3> QED
        BY <3>2, <3>3
    <2> QED
      BY <1>8, <2>3, <2>4 DEF CommitClaim
  <1>9. CASE Tick \/ PruneStaleLocks \/ UNCHANGED vars
    BY <1>3, <1>9 DEF Tick, PruneStaleLocks, vars, shared
  <1> QED
    BY <1>1, <1>4, <1>5, <1>6, <1>7, <1>8, <1>9, CalmSteps

LEMMA MemoryOwedKept ==
  ASSUME MaxCrashes = 0, Undisturbed, Inv, Kept, OnlyLockers, LeasesLast, RowToRelease,
         MemoryOwed, [Next]_vars
  PROVE  MemoryOwed'
  <1> USE HomeAssumption
  <1> DEFINE Owed(p, x) ==
        /\ Home[x] = p
        /\ \/ claim[x] # None /\ sameIdentity(inProcessClaims[p], claim[x])
           \/ /\ job[x].kind = "release" /\ plan[x] \in {ReleasePlan, ToForget}
              /\ sameIdentity(inProcessClaims[p], job[x].lease)
  <1> SUFFICES ASSUME Unhurried', NEW p \in Process, NEW x \in Actor, InMemory(p, x)'
               PROVE  Owed(p, x)'
    BY DEF MemoryOwed
  <1>1. TypeOK /\ Unhurried /\ PlansFit
    BY StillUnhurried DEF Inv, Kept
  <1>2. ASSUME inProcessClaims'[p] = inProcessClaims[p] PROVE Owed(p, x)
    BY <1>1, <1>2 DEF InMemory, MemoryOwed
  <1>3. ASSUME inProcessClaims'[p] = inProcessClaims[p], claim'[x] = claim[x],
               job'[x] = job[x], plan'[x] = plan[x]
        PROVE  Owed(p, x)'
    BY <1>2, <1>3
  <1>4. ASSUME NEW a \in Actor, AcquireDatabase(a) PROVE Owed(p, x)'
    <2>1. inProcessClaims'[p] = inProcessClaims[p] /\ claim'[x] = claim[x]
      BY <1>4 DEF AcquireDatabase
    <2>2. x # a
      BY <1>1, <1>2, <1>4, <2>1, AcquireMoves, IdleHasType
    <2> QED
      BY <1>1, <1>3, <1>4, <2>1, <2>2, AcquireMoves DEF Alone
  <1>5. ASSUME NEW a \in Actor, StartRelease(a) PROVE Owed(p, x)'
    <2>1. inProcessClaims'[p] = inProcessClaims[p]
      BY <1>5 DEF StartRelease, shared
    <2>2. CASE x = a
      <3>1. Home[a] = p /\ sameIdentity(inProcessClaims[p], claim[a])
        BY <1>1, <1>2, <1>5, <2>1, <2>2, ReleaseMoves, IdleHasType
      <3> QED
        BY <1>1, <1>5, <2>1, <2>2, <3>1, ReleaseMoves
    <2>3. CASE x # a
      BY <1>1, <1>3, <1>5, <2>1, <2>3, ReleaseMoves DEF Alone
    <2> QED
      BY <2>2, <2>3
  <1>6. ASSUME NEW a \in Actor, Owning(a), PlanFits(a), FileStep(a) PROVE Owed(p, x)'
    <2>1. /\ Alone(a) /\ UNCHANGED <<inProcessClaims, claim>>
          /\ job[a].kind = "release" => plan[a] # ReleasePlan
      BY <1>1, <1>6, FileStepMoves
    <2>2. Doing(a, "write") \/ Doing(a, "remove")
      BY <1>6 DEF FileStep, Open, Content, ReadExisting, Check, Unlink, Writing, Doing
    <2>3. job[a].kind = "release" => plan[a] # ToForget
      BY <1>6, <2>2, TaskAtHand, PlansDiffer
    <2>4. claim[a] = None
      BY <1>6 DEF Inv, Owned, ClaimsAreOwn, Owning
    <2>5. x # a
      BY <1>2, <2>1, <2>3, <2>4
    <2> QED
      BY <1>3, <2>1, <2>5 DEF Alone
  <1>7. ASSUME NEW a \in Actor, Owning(a), PlanFits(a), ReleaseDatabase(a) PROVE Owed(p, x)'
    <2>1. UNCHANGED <<inProcessClaims, claim>> /\ Alone(a)
      BY <1>1, <1>7, SucceedMoves, ContinueMoves DEF ReleaseDatabase
    <2>2. CASE x # a
      BY <1>3, <2>1, <2>2 DEF Alone
    <2>3. CASE x = a
      <3>1. claim[a] = None
        BY <1>7 DEF Inv, Owned, ClaimsAreOwn, Owning
      <3>2. job[a].kind = "release" /\ plan[a] = ReleasePlan
        BY <1>2, <1>7, <2>1, <2>3, <3>1, TaskAtHand, PlansDiffer DEF ReleaseDatabase, Releasing
      <3>3. database = job[a].lease
        BY <1>1, <3>2 DEF RowToRelease
      <3>4. Succeed(a)
        BY <1>7, <3>3 DEF ReleaseDatabase, sameIdentity
      <3>5. GoesOn(a)
        BY <1>1, <3>2, <3>4, SucceedMoves, Plans DEF ReleasePlans
      <3> QED
        BY <1>2, <2>1, <2>3, <3>1, <3>2, <3>5, Plans DEF GoesOn
    <2> QED
      BY <2>2, <2>3
  <1>8. ASSUME NEW a \in Actor, Owning(a), PlanFits(a), ForgetClaim(a) PROVE Owed(p, x)'
    <2>1. Doing(a, "forget") /\ UNCHANGED claim /\ Succeed(a)
      BY <1>8 DEF ForgetClaim
    <2>2. job[a].kind = "release" /\ plan[a] = ToForget /\ claim[a] = None
      BY <1>8, <2>1, TaskAtHand DEF Inv, Owned, ClaimsAreOwn
    <2>3. /\ inProcessClaims' = Forgotten(Home[a], job[a].lease)
          /\ job[a].lease # None /\ job[a].lease.owner = a
      BY <1>8, <2>2, OwnedLease DEF ForgetClaim
    <2>4. inProcessClaims'[p] = inProcessClaims[p]
      BY <1>1, <2>3 DEF Forgotten, TypeOK, InMemory
    <2>5. x # a
      <3> SUFFICES ASSUME x = a PROVE FALSE
        OBVIOUS
      <3>1. Home[a] = p /\ sameIdentity(inProcessClaims[p], job[a].lease)
        BY <1>2, <2>2, <2>4
      <3>2. inProcessClaims[p] # None
        BY <2>4 DEF InMemory
      <3>3. inProcessClaims'[p] = None
        BY <1>1, <2>3, <3>1, <3>2 DEF Forgotten, TypeOK
      <3> QED
        BY <3>3 DEF InMemory
    <2>6. Alone(a)
      BY <1>1, <2>1, SucceedMoves
    <2> QED
      BY <1>3, <2>1, <2>4, <2>5, <2>6 DEF Alone
  <1>9. ASSUME NEW a \in Actor, Owning(a), CommitClaim(a) PROVE Owed(p, x)'
    <2>1. job[a].kind = "acquire" /\ claim[a] = None
      BY <1>9 DEF CommitClaim, Inv, Owned, ClaimsAreOwn
    <2>2. ASSUME inProcessClaims'[p] = inProcessClaims[p] PROVE x # a
      BY <1>2, <2>1, <2>2
    <2>3. CASE UNCHANGED <<inProcessClaims, claim>> /\ Fail(a)
      BY <1>1, <1>3, <1>9, <2>2, <2>3, FailMoves DEF Alone
    <2>4. CASE /\ inProcessClaims' = [inProcessClaims EXCEPT ![Home[a]] = job[a].lease]
               /\ claim' = [claim EXCEPT ![a] = job[a].lease]
               /\ Continue(a, << >>)
      <3>1. /\ Alone(a) /\ claim'[a] = job[a].lease
            /\ \A y \in Actor \ {a} : claim'[y] = claim[y]
            /\ job[a].lease.owner = a /\ job[a].lease # None
        BY <1>1, <1>9, <2>4, ContinueMoves, OwnedLease DEF TypeOK
      <3>2. CASE p = Home[a]
        <4>1. inProcessClaims'[p] = job[a].lease /\ x = a
          BY <1>1, <2>4, <3>1, <3>2 DEF TypeOK, InMemory
        <4> QED
          BY <3>1, <3>2, <4>1 DEF sameIdentity
      <3>3. CASE p # Home[a]
        <4>1. inProcessClaims'[p] = inProcessClaims[p]
          BY <1>1, <2>4, <3>3 DEF TypeOK
        <4> QED
          BY <1>3, <2>2, <3>1, <4>1 DEF Alone
      <3> QED
        BY <3>2, <3>3
    <2> QED
      BY <1>9, <2>3, <2>4 DEF CommitClaim
  <1>10. CASE Tick \/ PruneStaleLocks \/ UNCHANGED vars
    BY <1>3, <1>10 DEF Tick, PruneStaleLocks, vars, shared
  <1> HIDE DEF Owed
  <1> QED
    BY <1>4, <1>5, <1>6, <1>7, <1>8, <1>9, <1>10, CalmSteps

LEMMA CleanInit == Init => Clean
  BY IdleHasType, NoneAssumption
  DEF Init, Clean, WritersAtWork, OpenBy, IsPartial, LeasesLast, Owning, RowToRelease, FilesOwed,
      HasFile, IsRecord, MemoryOwed, InMemory

LEMMA CleanNext ==
  /\ LeaseMs <= FenceMs /\ MaxCrashes = 0 /\ Undisturbed
  /\ Inv /\ Kept /\ Recognised /\ Clean /\ [Next]_vars
  => Clean'
  BY WritersKept, LeasesLastKept, RowToReleaseKept, FilesOwedKept, MemoryOwedKept
  DEF Clean, Recognised

\* Calls clean up after themselves: as long as no process crashes and nobody
\* reconciles the lane or cleans it up by force, a half-written file has its
\* writer at work, and once every call has returned and every claim is given
\* back before any lease has run out, no file and no claim map entry is left,
\* whichever acquisitions were refused or abandoned half way.
THEOREM NothingIsLeft ==
  ASSUME Undisturbed, LeaseMs <= FenceMs, MaxCrashes = 0
  PROVE  Spec => []NothingLeftBehind
  <1>1. Inv /\ Clean => NothingLeftBehind
    <2> SUFFICES ASSUME Inv, Clean PROVE NothingLeftBehind
      OBVIOUS
    <2>1. PartialHasWriter /\ TypeOK
      BY PartialIsOpen DEF Clean, Inv
    <2>2. ASSUME AtRest, Unhurried, NEW q \in Files PROVE files[q] = None
      <3>1. ASSUME files[q] \in Partial PROVE FALSE
        <4>1. PICK w \in Actor : files[q].writer = w
          BY <3>1 DEF Partial
        <4>2. AtWork(w, q)
          BY <3>1, <4>1 DEF Clean, WritersAtWork, OpenBy, IsPartial
        <4> QED
          BY <2>2, <4>2, IdleHasType DEF AtWork, Writing, AtRest
      <3>2. ASSUME files[q] \in Lease PROVE FALSE
        <4>1. PICK x \in Actor : files[q].owner = x
          BY <3>2 DEF Lease
        <4>2. FileOwed(x, q)
          BY <2>2, <3>2, <4>1 DEF Clean, FilesOwed, HasFile, IsRecord
        <4> QED
          BY <2>2, <4>2, IdleHasType DEF FileOwed, Owes, AtRest
      <3> QED
        BY <2>1, <3>1, <3>2 DEF TypeOK
    <2>3. ASSUME AtRest, Unhurried, NEW p \in Process PROVE inProcessClaims[p] = None
      <3>1. ASSUME inProcessClaims[p] # None PROVE FALSE
        <4>1. inProcessClaims[p] \in Lease
          BY <2>1, <3>1 DEF TypeOK
        <4>2. PICK x \in Actor : inProcessClaims[p].owner = x
          BY <4>1 DEF Lease
        <4> QED
          BY <2>3, <3>1, <4>2, IdleHasType DEF Clean, MemoryOwed, InMemory, AtRest
      <3> QED
        BY <3>1
    <2> QED
      BY <2>1, <2>2, <2>3 DEF NothingLeftBehind
  <1>2. Inv /\ Kept /\ Recognised /\ [Next]_vars => Recognised'
    BY RecognisedNext
  <1>3. Inv /\ Kept /\ Recognised /\ Clean /\ [Next]_vars => Clean'
    BY CleanNext
  <1> QED
    BY <1>1, <1>2, <1>3, InvInit, InvNext, KeptInit, KeptNext, RecognisedInit, CleanInit, PTL
    DEF Spec

=============================================================================

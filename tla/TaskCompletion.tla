----------------------------- MODULE TaskCompletion -----------------------------
(***************************************************************************)
(* How a task is completed.  An attempt to complete is evaluated, written  *)
(* down, and taken through a saga: its validation command is run under a   *)
(* fixed invocation id, the generation is suspended, the user is asked;    *)
(* acceptance commits the completion fact and settles the generation,      *)
(* rejection is recorded and reactivates it.  The process may crash        *)
(* anywhere; the task may be closed, which cancels it, and opened again in *)
(* the same process, where sagas of the session before are still running.  *)
(* The lifecycle record is one atomic value: see TaskLifecycle.            *)
(***************************************************************************)
EXTENDS Naturals, FiniteSets

CONSTANTS
    Attempt,       \* completion attempts
    None,
    MaxSessions,   \* bound on times the task is opened
    MaxGen,        \* bound on generations
    MaxTree,       \* bound on changes to the workspace
    MaxFaults      \* bound on writes and commits that fail

ASSUME CompletionAssumption ==
    /\ None \notin Attempt /\ IsFiniteSet(Attempt)
    /\ MaxSessions \in Nat \ {0} /\ MaxGen \in Nat \ {0}
    /\ MaxTree \in Nat /\ MaxFaults \in Nat

Session == 1 .. MaxSessions

VARIABLES
    life,         \* the lifecycle record of the task
    fact,         \* task_completions: the attempt that is on record, or None
    rejections,   \* task_rejections
    row,          \* completion_attempts, None until inserted
    terminal,     \* audit_events: the outcome of an attempt's command
    session,      \* the session that is open, the last one
    place,        \* where that session stands
    seen,         \* per session that was closed: generation and revision it saw last
    run,          \* where the saga of an attempt stands in a session
    version,      \* per session: workspaceStateVersion
    tree,         \* the content of the workspace
    tool,         \* a tool that changes the workspace: at work, or done writing
    slipped,      \* history: attempts during which a change was never counted
    verdict,      \* what the user answered on an attempt
    faults

store == <<fact, rejections, row, terminal>>
opened == <<session, place, seen>>
work == <<version, tree, tool, slipped>>
vars == <<life, store, opened, run, work, verdict, faults>>

\* late: was cancellation requested with no completion fact on record?
Life == [gen : 1 .. MaxGen, rev : Nat,
         state : {"active", "suspended", "completed", "cancelled"},
         fenced : BOOLEAN, late : BOOLEAN, awaits : Attempt \cup {None}]
\* What a decision is about: the version the checkpoint's digest is made with, the
\* workspace the digest is of, and the version that stands for both.
Decision == [mark : 0 .. MaxTree, tree : 0 .. MaxTree, version : 0 .. MaxTree]
Rejection == [dec : Decision, gen : 1 .. MaxGen, by : Attempt, rev : Nat]
Phase == {"prepared", "evidence_pending", "evidence_dispatching", "evidence_succeeded",
          "evidence_failed", "proposal_pending", "completed", "decision_rejected",
          "settlement_failed", "stale"}
Row == [phase : Phase, version : Nat, gen : 1 .. MaxGen, rev : Nat,
        dec : Decision, command : BOOLEAN, born : Session]
ASSUME NoneAssumption == None \notin Row
Place == {"settle", "recover", "suspend", "reconcile", "waiting", "up", "failed",
          "aborting", "closed"}
Step == {"idle", "locate", "count", "judge", "draft", "dispatch", "shell", "continue",
         "propose", "suspend", "ask", "commit", "settle", "done", "fail", "record",
         "reactivate", "rejected"}
\* The saga's copy of its row, the decision it was evaluated for, the event it
\* presents as evidence and the revision of its suspension.
Saga == [at : Step, phase : Phase, version : Nat, dec : Decision,
         evidence : BOOLEAN, rev : Nat]

TypeOK ==
    /\ life \in Life
    /\ fact \in Attempt \cup {None}
    /\ rejections \subseteq Rejection
    /\ row \in [Attempt -> Row \cup {None}]
    /\ terminal \in [Attempt -> {"none", "succeeded", "failed"}]
    /\ session \in Session /\ place \in Place
    /\ seen \in [Session -> [gen : 0 .. MaxGen, rev : Nat]]
    /\ run \in [Attempt -> [Session -> Saga]]
    /\ version \in [Session -> 0 .. MaxTree]
    /\ tree \in 0 .. MaxTree /\ tool \in {"none", "working", "written"}
    /\ slipped \subseteq Attempt
    /\ verdict \in [Attempt -> {"none", "yes", "no"}]
    /\ faults \in 0 .. MaxFaults

NoDecision == [mark |-> 0, tree |-> 0, version |-> 0]
Idle == [at |-> "idle", phase |-> "prepared", version |-> 0, dec |-> NoDecision,
         evidence |-> FALSE, rev |-> 0]
Unseen == [gen |-> 0, rev |-> 0]

\* The task has been created and its first generation activated.
Init ==
    /\ life = [gen |-> 1, rev |-> 2, state |-> "active", fenced |-> FALSE,
               late |-> FALSE, awaits |-> None]
    /\ fact = None /\ rejections = {}
    /\ row = [a \in Attempt |-> None]
    /\ terminal = [a \in Attempt |-> "none"]
    /\ session = 1 /\ place = "up"
    /\ seen = [s \in Session |-> Unseen]
    /\ run = [a \in Attempt |-> [s \in Session |-> Idle]]
    /\ version = [s \in Session |-> 0] /\ tree = 0 /\ tool = "none"
    /\ slipped = {}
    /\ verdict = [a \in Attempt |-> "none"]
    /\ faults = 0

--------------------------------------------------------------------------------
(* Lifecycle intents, each with the condition under which it is accepted *)

Over == life.state \in {"completed", "cancelled"}

CanSuspend == life.state = "active" /\ ~life.fenced
\* Mutant: the record is put into a state nobody else knows.
Suspended_Misnamed(a) == [life EXCEPT !.rev = @ + 1, !.state = "waiting", !.awaits = a]
Suspended(a) == [life EXCEPT !.rev = @ + 1, !.state = "suspended", !.awaits = a]

CanReactivate(a, rev) ==
    life.state = "suspended" /\ life.rev = rev /\ ~life.fenced /\ life.awaits = a
Activated == [life EXCEPT !.rev = @ + 1, !.state = "active", !.awaits = None]

\* A cancellation that was requested before the fact was committed fences it.
CanSettle == ~Over /\ ~(life.fenced /\ life.late)
Settled == [life EXCEPT !.rev = @ + 1, !.state = "completed", !.awaits = None]

Requested == [life EXCEPT !.rev = @ + 1, !.fenced = TRUE, !.late = (fact = None),
                          !.awaits = None]
Cancelled == [life EXCEPT !.rev = @ + 1, !.state = "cancelled", !.awaits = None]

\* Execution is admitted in the open session's active generation.
Admitted(s) == s = session /\ life.state = "active" /\ ~life.fenced

\* The record as a session's own task state has it.
Projection(s) == IF s = session THEN [gen |-> life.gen, rev |-> life.rev] ELSE seen[s]

Fault == faults < MaxFaults /\ faults' = faults + 1

--------------------------------------------------------------------------------
(* Attempt rows and sagas *)

At(a, s, step) == run[a][s].at = step
To(a, s, step) == run' = [run EXCEPT ![a][s].at = step]
Ends(a, s) == run' = [run EXCEPT ![a][s] = Idle]

\* updateCompletionAttemptCAS with the version the saga has read.
Won(a, s) == row[a].version = run[a][s].version
Write(a, s, phase) ==
    row' = IF Won(a, s)
           THEN [row EXCEPT ![a].phase = phase, ![a].version = @ + 1] ELSE row

\* The saga goes to a step with the row it has just written, if it has.
Reload(a, s, step, phase) ==
    LET saga == run[a][s] IN
    IF Won(a, s)
    THEN run' = [run EXCEPT ![a][s] = [saga EXCEPT !.at = step, !.phase = phase,
                                                   !.version = saga.version + 1]]
    ELSE To(a, s, step)

\* prepareCompletionAttempt, one await after the other.  It looks for a fact and
\* goes to take the checkpoint, whose digest begins with the version ...
LoopIsFree ==
    \A a \in Attempt :
        At(a, session, "idle") \/ (row[a] # None /\ row[a].born < session)

Evaluate(a) ==
    /\ place = "up" /\ Admitted(session) /\ LoopIsFree
    /\ row[a] = None /\ \A s \in Session : At(a, s, "idle")
    /\ fact = None
    /\ run' = [run EXCEPT ![a][session] =
                  [@ EXCEPT !.at = "locate", !.dec.mark = version[session]]]
    /\ UNCHANGED <<life, store, opened, work, verdict, faults>>

\* ... takes it from the workspace ...
Locate(a, s) ==
    /\ At(a, s, "locate")
    /\ run' = [run EXCEPT ![a][s].at = "count", ![a][s].dec.tree = tree]
    /\ UNCHANGED <<life, store, opened, work, verdict, faults>>

\* ... and reads the version the decision is for.
Count(a, s) ==
    /\ At(a, s, "count")
    /\ run' = [run EXCEPT ![a][s].at = "judge", ![a][s].dec.version = version[s]]
    /\ UNCHANGED <<life, store, opened, work, verdict, faults>>

\* A decision the user has rejected gets no other attempt, and one that is not
\* approved gets none.
Judge(a, s) ==
    /\ At(a, s, "judge")
    /\ \/ (\A r \in rejections : r.dec # run[a][s].dec) /\ To(a, s, "draft")
       \/ Ends(a, s)
    /\ UNCHANGED <<life, store, opened, work, verdict, faults>>

\* A fact on record settles the generation that attempts to complete.
SettleAgain ==
    /\ place = "up" /\ Admitted(session) /\ LoopIsFree
    /\ fact # None
    /\ life' = Settled
    /\ UNCHANGED <<store, opened, run, work, verdict, faults>>

\* The attempt is written down, and the saga consumes it.
Insert(a, s) ==
    /\ At(a, s, "draft")
    /\ \E command \in BOOLEAN :
         \E phase \in {"prepared"} \cup (IF command THEN {"evidence_pending"} ELSE {}) :
             /\ row' = [row EXCEPT ![a] =
                          [phase |-> phase, version |-> 1, gen |-> Projection(s).gen,
                           rev |-> Projection(s).rev, dec |-> run[a][s].dec,
                           command |-> command, born |-> s]]
             /\ run' = [run EXCEPT ![a][s] = [Idle EXCEPT !.at = "dispatch",
                                               !.phase = phase, !.version = 1]]
    /\ UNCHANGED <<life, fact, rejections, terminal, opened, work, verdict, faults>>

--------------------------------------------------------------------------------
(* runAttempt *)

Dispatches(a, s, phase) == At(a, s, "dispatch") /\ run[a][s].phase = phase

Prepared(a, s) ==
    LET next == IF row[a].command THEN "evidence_pending" ELSE "proposal_pending" IN
    /\ Dispatches(a, s, "prepared")
    /\ Write(a, s, next)
    /\ IF Won(a, s) THEN Reload(a, s, "dispatch", next) ELSE Ends(a, s)
    /\ UNCHANGED <<life, fact, rejections, terminal, opened, work, verdict, faults>>

Claim(a, s) ==
    /\ Dispatches(a, s, "evidence_pending")
    /\ Write(a, s, "evidence_dispatching")
    /\ IF Won(a, s) THEN Reload(a, s, "dispatch", "evidence_dispatching") ELSE Ends(a, s)
    /\ UNCHANGED <<life, fact, rejections, terminal, opened, work, verdict, faults>>

\* Mutant: a session knows of its own commands only.
Active_OwnSession(a) == At(a, session, "shell")
Active(a) == \E s \in Session : At(a, s, "shell")

\* The command has ended already, or it is still running.
Learn(a, s) ==
    LET next == IF terminal[a] = "succeeded" THEN "evidence_succeeded"
                ELSE "evidence_failed" IN
    /\ Dispatches(a, s, "evidence_dispatching")
    /\ terminal[a] # "none"
    /\ Write(a, s, next)
    /\ IF Won(a, s) THEN Reload(a, s, "dispatch", next) ELSE Ends(a, s)
    /\ UNCHANGED <<life, fact, rejections, terminal, opened, work, verdict, faults>>

Wait(a, s) ==
    /\ Dispatches(a, s, "evidence_dispatching")
    /\ terminal[a] = "none" /\ Active(a)
    /\ Ends(a, s)
    /\ UNCHANGED <<life, store, opened, work, verdict, faults>>

\* The command is run, or execution refuses it.
Execute(a, s) ==
    /\ Dispatches(a, s, "evidence_dispatching")
    /\ terminal[a] = "none" /\ ~Active(a) /\ Admitted(s)
    /\ To(a, s, "shell")
    /\ UNCHANGED <<life, store, opened, work, verdict, faults>>

Refuse(a, s) ==
    /\ Dispatches(a, s, "evidence_dispatching")
    /\ terminal[a] = "none" /\ ~Active(a)
    /\ To(a, s, "continue")
    /\ terminal' = [terminal EXCEPT ![a] = "failed"]
    /\ UNCHANGED <<life, fact, rejections, row, opened, work, verdict, faults>>

\* The command ends.  Its event is written in passing, and may get lost.
ShellEnds(a, s) ==
    /\ At(a, s, "shell")
    /\ \E outcome \in {"succeeded", "failed"} :
         /\ run' = [run EXCEPT ![a][s].at = "continue",
                               ![a][s].evidence = (outcome = "succeeded")]
         /\ \/ terminal' = [terminal EXCEPT ![a] = outcome] /\ UNCHANGED faults
            \/ Fault /\ UNCHANGED terminal
    /\ UNCHANGED <<life, fact, rejections, row, opened, work, verdict>>

\* A saga taken up with its evidence or its proposal on record.
Present(a, s) ==
    /\ At(a, s, "dispatch")
    /\ run[a][s].phase \in {"evidence_succeeded", "evidence_failed", "proposal_pending"}
    /\ run' = [run EXCEPT ![a][s].at = "continue",
                          ![a][s].evidence = (run[a][s].phase # "proposal_pending")]
    /\ UNCHANGED <<life, store, opened, work, verdict, faults>>

--------------------------------------------------------------------------------
(* continueCompletionAttempt *)

\* Mutant: evidence is verified where there is some, and not asked for.
Continue_Unasked(a, s) ==
    LET fresh == [run[a][s] EXCEPT !.at = "propose", !.phase = row[a].phase,
                                   !.version = row[a].version] IN
    /\ At(a, s, "continue")
    /\ \/ /\ ~run[a][s].evidence
          /\ run' = [run EXCEPT ![a][s] = fresh]
          /\ UNCHANGED row
       \/ /\ run[a][s].evidence /\ terminal[a] = "succeeded"
          /\ row' = [row EXCEPT ![a].phase = "evidence_succeeded", ![a].version = @ + 1]
          /\ run' = [run EXCEPT ![a][s] = [fresh EXCEPT !.version = row[a].version + 1]]
       \/ /\ run[a][s].evidence /\ terminal[a] # "succeeded"
          /\ Ends(a, s)
          /\ UNCHANGED row
    /\ UNCHANGED <<life, fact, rejections, terminal, opened, work, verdict, faults>>

\* The row is read again.  Evidence that is missing or failed ends the attempt;
\* evidence whose event cannot be found ends the saga only.
Continue(a, s) ==
    LET fresh == [run[a][s] EXCEPT !.at = "propose", !.phase = row[a].phase,
                                   !.version = row[a].version] IN
    /\ At(a, s, "continue")
    /\ \/ /\ ~row[a].command
          /\ run' = [run EXCEPT ![a][s] = fresh]
          /\ UNCHANGED row
       \/ /\ row[a].command /\ run[a][s].evidence /\ terminal[a] = "succeeded"
          /\ row' = [row EXCEPT ![a].phase = "evidence_succeeded", ![a].version = @ + 1]
          /\ run' = [run EXCEPT ![a][s] = [fresh EXCEPT !.version = row[a].version + 1]]
       \/ /\ row[a].command /\ (run[a][s].evidence => terminal[a] = "failed")
          /\ row' = [row EXCEPT ![a].phase = "evidence_failed", ![a].version = @ + 1]
          /\ Ends(a, s)
       \/ /\ row[a].command /\ run[a][s].evidence /\ terminal[a] = "none"
          /\ Ends(a, s)
          /\ UNCHANGED row
    /\ UNCHANGED <<life, fact, rejections, terminal, opened, work, verdict, faults>>

\* The lifecycle has to stand where it stood when the attempt was written down.
Propose(a, s) ==
    /\ At(a, s, "propose")
    /\ IF Projection(s).rev = row[a].rev
       THEN Write(a, s, "proposal_pending") /\ Reload(a, s, "suspend", "proposal_pending")
       ELSE Ends(a, s) /\ UNCHANGED row
    /\ UNCHANGED <<life, fact, rejections, terminal, opened, work, verdict, faults>>

\* Mutant: a suspension that was refused does not keep it from asking.
Suspend_Regardless(a, s) ==
    /\ At(a, s, "suspend")
    /\ life' = IF CanSuspend /\ life.gen = row[a].gen THEN Suspended(a) ELSE life
    /\ run' = [run EXCEPT ![a][s].at = "ask", ![a][s].rev = life.rev + 1]
    /\ UNCHANGED <<store, opened, work, verdict, faults>>

Suspend(a, s) ==
    /\ At(a, s, "suspend")
    /\ IF CanSuspend /\ life.gen = row[a].gen
       THEN /\ life' = Suspended(a)
            /\ run' = [run EXCEPT ![a][s].at = "ask", ![a][s].rev = life.rev + 1]
       ELSE Ends(a, s) /\ UNCHANGED life
    /\ UNCHANGED <<store, opened, work, verdict, faults>>

\* The question of a session that is being closed is not answered any more.
Answer(a, s) ==
    /\ At(a, s, "ask") /\ s = session /\ place # "aborting" /\ place # "closed"
    /\ \/ verdict' = [verdict EXCEPT ![a] = "yes"] /\ To(a, s, "commit")
       \/ verdict' = [verdict EXCEPT ![a] = "no"] /\ To(a, s, "record")
    /\ UNCHANGED <<life, store, opened, work, faults>>

AskThrows(a, s) ==
    /\ At(a, s, "ask") /\ (s < session \/ place \in {"aborting", "closed"})
    /\ Ends(a, s)
    /\ UNCHANGED <<life, store, opened, work, verdict, faults>>

\* Mutant: the state is not compared with the one evaluated.
Commit_Unchecked(a, s) ==
    /\ At(a, s, "commit")
    /\ \/ /\ fact' = IF fact = None THEN a ELSE fact
          /\ To(a, s, "settle")
       \/ /\ fact # None /\ row[fact].dec = row[a].dec
          /\ To(a, s, "fail")
          /\ UNCHANGED fact
    /\ UNCHANGED <<life, rejections, row, terminal, opened, work, verdict, faults>>

\* commitTaskCompletionTransaction: the state must be the one evaluated.  A fact
\* of another decision stands in for this one, one of the same decision may
\* have another payload.
Commit(a, s) ==
    /\ At(a, s, "commit")
    /\ \/ /\ version[s] = row[a].dec.version
          /\ fact' = IF fact = None THEN a ELSE fact
          /\ To(a, s, "settle")
       \/ /\ \/ version[s] # row[a].dec.version
             \/ fact # None /\ row[fact].dec = row[a].dec
          /\ To(a, s, "fail")
          /\ UNCHANGED fact
    /\ UNCHANGED <<life, rejections, row, terminal, opened, work, verdict, faults>>

Settle(a, s) ==
    /\ At(a, s, "settle")
    /\ IF CanSettle /\ life.gen = row[a].gen
       THEN life' = Settled /\ To(a, s, "done")
       ELSE To(a, s, "fail") /\ UNCHANGED life
    /\ UNCHANGED <<store, opened, work, verdict, faults>>

Closes(a, s, step, phase) ==
    /\ At(a, s, step)
    /\ Write(a, s, phase)
    /\ Ends(a, s)
    /\ UNCHANGED <<life, fact, rejections, terminal, opened, work, verdict, faults>>

Done(a, s) == Closes(a, s, "done", "completed")
Fail(a, s) == Closes(a, s, "fail", "settlement_failed")
Rejected(a, s) == Closes(a, s, "rejected", "decision_rejected")

\* Mutant: the rejection is recorded with the revision of the attempt, not with
\* that of its suspension.
Record_AttemptRevision(a, s) ==
    /\ At(a, s, "record")
    /\ rejections' = rejections \cup
         {[dec |-> row[a].dec, gen |-> row[a].gen, by |-> a, rev |-> row[a].rev]}
    /\ To(a, s, "reactivate")
    /\ UNCHANGED <<life, fact, row, terminal, opened, work, verdict, faults>>

\* One rejection is kept per decision.
Record(a, s) ==
    /\ At(a, s, "record")
    /\ rejections' = rejections \cup
         (IF \E r \in rejections : r.dec = row[a].dec THEN {}
          ELSE {[dec |-> row[a].dec, gen |-> row[a].gen, by |-> a, rev |-> run[a][s].rev]})
    /\ To(a, s, "reactivate")
    /\ UNCHANGED <<life, fact, row, terminal, opened, work, verdict, faults>>

Reactivate(a, s) ==
    /\ At(a, s, "reactivate")
    /\ IF CanReactivate(a, run[a][s].rev) /\ life.gen = row[a].gen
       THEN life' = Activated /\ To(a, s, "rejected")
       ELSE Ends(a, s) /\ UNCHANGED life
    /\ UNCHANGED <<store, opened, work, verdict, faults>>

\* Anything throws: a write, a lifecycle commit, the lease or a checkpoint.  From
\* the lease to the row's last write that ends as a failed settlement.
Throws(a, s) ==
    /\ ~At(a, s, "idle") /\ ~At(a, s, "shell")
    /\ Fault
    /\ \/ ~At(a, s, "settle") /\ ~At(a, s, "done") /\ Ends(a, s)
       \/ run[a][s].at \in {"commit", "settle", "done"} /\ To(a, s, "fail")
    /\ UNCHANGED <<life, store, opened, work, verdict>>

SagaStep(a, s) ==
    \/ Locate(a, s) \/ Count(a, s) \/ Judge(a, s)
    \/ Insert(a, s) \/ Prepared(a, s) \/ Claim(a, s) \/ Learn(a, s) \/ Wait(a, s)
    \/ Execute(a, s) \/ Refuse(a, s) \/ ShellEnds(a, s) \/ Present(a, s)
    \/ Continue(a, s) \/ Propose(a, s) \/ Suspend(a, s) \/ Answer(a, s) \/ AskThrows(a, s)
    \/ Commit(a, s) \/ Settle(a, s) \/ Done(a, s) \/ Fail(a, s)
    \/ Record(a, s) \/ Reactivate(a, s) \/ Rejected(a, s) \/ Throws(a, s)

--------------------------------------------------------------------------------
(* Sibling tools, and the sessions of the task *)

ToolStarts ==
    /\ place = "up" /\ Admitted(session)
    /\ tool = "none" /\ tool' = "working"
    /\ UNCHANGED <<life, store, opened, run, version, tree, slipped, verdict, faults>>

\* Its handler changes the workspace while it is dispatched.
ToolWrites ==
    /\ tool = "working" /\ tool' = "written"
    /\ tree < MaxTree /\ tree' = tree + 1
    /\ UNCHANGED <<life, store, opened, run, version, slipped, verdict, faults>>

\* The attempts whose decision is about a workspace, once it has been looked at.
Located == {a \in Attempt : row[a] # None \/ run[a][session].at \in {"count", "judge", "draft"}}

\* After enrichment, hook and policy a success is counted.  A call that was
\* cancelled, denied or failed is not, whatever it has written.
ToolEnds ==
    /\ tool # "none" /\ tool' = "none"
    /\ \/ /\ version[session] < MaxTree
          /\ version' = [version EXCEPT ![session] = @ + 1]
          /\ UNCHANGED slipped
       \/ /\ slipped' = IF tool = "written" THEN slipped \cup Located ELSE slipped
          /\ UNCHANGED version
    /\ UNCHANGED <<life, store, opened, run, tree, verdict, faults>>

Goes(next) == place' = next /\ UNCHANGED <<session, seen>>

\* prepareResumeLifecycle.  A fact on record settles what has not ended yet ...
Migrate ==
    /\ place = "settle"
    /\ \/ /\ fact # None => Over
          /\ Goes("recover") /\ UNCHANGED <<life, faults>>
       \/ /\ fact # None /\ CanSettle
          /\ life' = Settled /\ Goes("recover") /\ UNCHANGED faults
       \/ /\ fact # None /\ ~Over /\ (IF CanSettle THEN Fault ELSE UNCHANGED faults)
          /\ Goes("failed") /\ UNCHANGED life
    /\ UNCHANGED <<store, run, work, verdict>>

\* ... a suspension that waits for a decision recorded as rejected is lifted ...
Recover ==
    LET lifted == \E r \in rejections : r.gen = life.gen /\ CanReactivate(r.by, r.rev) IN
    /\ place = "recover"
    /\ \/ life' = (IF lifted THEN Activated ELSE life) /\ UNCHANGED faults
       \/ lifted /\ Fault /\ UNCHANGED life
    /\ Goes("suspend")
    /\ UNCHANGED <<store, run, work, verdict>>

\* ... and an interrupted generation is suspended.
Interrupt ==
    /\ place = "suspend"
    /\ \/ /\ life.state # "active"
          /\ Goes("reconcile") /\ UNCHANGED <<life, faults>>
       \/ /\ CanSuspend
          /\ life' = Suspended(None) /\ Goes("reconcile") /\ UNCHANGED faults
       \/ /\ life.state = "active" /\ (IF CanSuspend THEN Fault ELSE UNCHANGED faults)
          /\ Goes("failed") /\ UNCHANGED life
    /\ UNCHANGED <<store, run, work, verdict>>

\* Attempts that are under way are taken up, or set aside with their generation.
UnderWay == {a \in Attempt : row[a] # None /\
    row[a].phase \in {"prepared", "evidence_pending", "evidence_dispatching", "proposal_pending"}}

Reconcile ==
    LET stale == {a \in UnderWay : row[a].gen # life.gen} IN
    /\ place = "reconcile"
    /\ row' = [a \in Attempt |->
                 IF a \in stale THEN [row[a] EXCEPT !.phase = "stale", !.version = @ + 1]
                 ELSE row[a]]
    /\ run' = [a \in Attempt |->
                 IF a \in UnderWay \ stale
                 THEN [run[a] EXCEPT ![session] = [Idle EXCEPT !.at = "dispatch",
                         !.phase = row[a].phase, !.version = row[a].version]]
                 ELSE run[a]]
    /\ Goes("waiting")
    /\ UNCHANGED <<life, fact, rejections, terminal, work, verdict, faults>>

\* commitResumeLifecycle, when the user resumes.
Resume ==
    /\ place = "waiting"
    /\ \/ /\ life.state = "suspended" /\ ~life.fenced
          /\ life' = Activated /\ Goes("up")
       \/ /\ Over /\ life.gen < MaxGen
          /\ life' = [Activated EXCEPT !.gen = @ + 1, !.fenced = FALSE, !.late = FALSE]
          /\ Goes("up")
       \/ /\ ~Over /\ life.fenced
          /\ Goes("failed") /\ UNCHANGED life
    /\ UNCHANGED <<store, run, work, verdict, faults>>

\* abortTask: cancellation is requested, what is at work ends, and then the
\* cancellation is settled, unless the generation has ended by itself.
Cancel ==
    /\ place \in {"up", "waiting", "failed"}
    /\ life' = IF Over \/ life.fenced THEN life ELSE Requested
    /\ Goes("aborting")
    /\ UNCHANGED <<store, run, work, verdict, faults>>

SettleCancel ==
    /\ place = "aborting" /\ tool = "none"
    /\ life' = IF Over THEN life ELSE Cancelled
    /\ Goes("closed")
    /\ UNCHANGED <<store, run, work, verdict, faults>>

\* The task is opened again from its history.
Open ==
    /\ place = "closed" /\ session < MaxSessions
    /\ session' = session + 1 /\ place' = "settle"
    /\ seen' = [seen EXCEPT ![session] = Projection(session)]
    /\ UNCHANGED <<life, store, run, work, verdict, faults>>

\* The process dies, with every session of the task, and is started again.
Crash ==
    /\ session < MaxSessions
    /\ session' = session + 1 /\ place' = "settle"
    /\ seen' = [s \in Session |-> Unseen]
    /\ run' = [a \in Attempt |-> [s \in Session |-> Idle]]
    /\ tool' = "none"
    /\ UNCHANGED <<life, store, version, tree, slipped, verdict, faults>>

--------------------------------------------------------------------------------

Restore == Migrate \/ Recover \/ Interrupt \/ Reconcile

Next ==
    \/ \E a \in Attempt : Evaluate(a) \/ \E s \in Session : SagaStep(a, s)
    \/ SettleAgain
    \/ ToolStarts \/ ToolWrites \/ ToolEnds
    \/ Restore \/ Resume \/ Cancel \/ SettleCancel \/ Open \/ Crash

Spec == Init /\ [][Next]_vars

--------------------------------------------------------------------------------
(* Properties *)

\* A task is completed by a fact the user accepted, on evidence that its
\* command succeeded if the attempt asked for any (CompletionFunnel.ts,
\* continueCompletionAttempt).
FactIsEarned ==
    /\ fact # None =>
         /\ verdict[fact] = "yes"
         /\ row[fact].command => terminal[fact] = "succeeded"
    /\ life.state = "completed" => fact # None

\* A fixed command is not run twice at a time, however often its attempt is
\* taken up again.
OneCommandAtATime ==
    \A a \in Attempt : \A s, t \in Session :
        At(a, s, "shell") /\ At(a, t, "shell") => s = t

\* While a question is open, the generation of its attempt is suspended for it,
\* or the session is on its way out; so no two questions are open.
QuestionHoldsGeneration ==
    \A a \in Attempt :
        At(a, session, "ask") =>
            \/ life.state = "suspended" /\ life.awaits = a /\ life.gen = row[a].gen
            \/ place \in {"aborting", "closed"}

\* What the user accepted in a generation completes that generation, no other.
CompletionIsOfItsGeneration ==
    life.state = "completed" => row[fact].gen = life.gen

\* What the user decided is not lost in a crash: by the time the task is offered
\* for resumption, a fact on record is settled, and the suspension a rejected
\* attempt asked under has been lifted, unless the store refused to
\* (prepareResumeLifecycle).
RestoredDecisionIsApplied ==
    place = "waiting" =>
        /\ fact # None => Over
        /\ faults = 0 => \A r \in rejections : life.awaits # r.by

\* Of what the open session commits as accepted, no tool has changed the workspace
\* since the checkpoint was taken and been counted as successful after the version
\* was read; nor does an attempt written down before a restart, where the version
\* begins at zero again, get that far (commitTaskCompletionTransaction, "Task state
\* changed after completion evaluation").  The workspace is the one evaluated, then,
\* but for changes of a tool that is not counted yet or ended without success, or
\* that was counted while the checkpoint was taken.
AcceptedAsEvaluated ==
    [][\A a \in Attempt :
          At(a, session, "commit") /\ fact = None /\ fact' = a
             => \/ tree = row[a].dec.tree
                \/ tool = "written"
                \/ a \in slipped
                \/ row[a].dec.mark # row[a].dec.version]_vars
================================================================================

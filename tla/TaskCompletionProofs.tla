-------------------------- MODULE TaskCompletionProofs --------------------------
(***************************************************************************)
(* Proofs about TaskCompletion for every set of attempts and every bound:  *)
(* types, and the properties of facts, commands and questions, of what a   *)
(* restored task shows and of what is accepted.  Crashes, faults and sagas *)
(* of closed sessions may come anywhere the model lets them.               *)
(***************************************************************************)
EXTENDS TaskCompletion, TLAPS

--------------------------------------------------------------------------------
(* The inductive invariant *)

RowsFit == \A a \in Attempt :
    row[a] # None => row[a].gen <= life.gen /\ row[a].rev <= life.rev

\* The generation a closed session saw last is over for good.
Past(s) ==
    /\ seen[s].gen >= 1
    /\ life.gen > seen[s].gen \/ (life.gen = seen[s].gen /\ Over)

\* The attempt is being evaluated, and is not written down yet.
DraftStep == {"locate", "count", "judge", "draft"}
Drafting(a, s) == run[a][s].at \in DraftStep
USE DEF DraftStep, Drafting

\* A saga has a row once it is past its draft, and an attempt that is a draft
\* has one saga.
SagaFits(a, s) ==
    /\ s <= session
    /\ s < session => Past(s) /\ (row[a] # None => row[a].gen <= seen[s].gen)
    /\ IF Drafting(a, s)
       THEN row[a] = None /\ \A t \in Session \ {s} : At(a, t, "idle")
       ELSE row[a] # None

SagasFit ==
    /\ \A s \in Session : seen[s].rev <= life.rev
    /\ \A a \in Attempt, s \in Session : ~At(a, s, "idle") => SagaFits(a, s)

\* A saga past its evidence has it; a command under way has not ended.
Convinced(a, s) == run[a][s].at \in {"propose", "suspend", "ask", "commit"}
CommandsFit == \A a \in Attempt, s \in Session :
    /\ At(a, s, "shell") => terminal[a] = "none"
    /\ Convinced(a, s) /\ row[a].command => terminal[a] = "succeeded"

\* An attempt is decided once: deciding it has moved the lifecycle on.
VerdictsFit ==
    /\ \A a \in Attempt, s \in Session :
         /\ At(a, s, "ask") => row[a].rev < life.rev
         /\ At(a, s, "commit") => verdict[a] = "yes"
         /\ At(a, s, "record") => verdict[a] = "no"
         /\ At(a, s, "settle") => fact # None
    /\ \A a \in Attempt :
         /\ verdict[a] # "none" => row[a] # None /\ row[a].rev < life.rev
         /\ At(a, session, "suspend") \/ At(a, session, "ask") => verdict[a] = "none"
    /\ \A r \in rejections : verdict[r.by] # "none"

\* Nobody waits for a decision in a generation that is over or fenced.
LifeFits == life.awaits # None =>
    /\ life.state = "suspended" /\ ~life.fenced
    /\ row[life.awaits] # None /\ row[life.awaits].gen = life.gen

Restoring == place \in {"settle", "recover", "suspend", "reconcile"}
Leaving == place \in {"aborting", "closed"}

PlacesFit ==
    /\ Leaving => life.fenced \/ Over
    /\ place = "closed" => Over
    /\ place \in {"reconcile", "waiting"} => life.state # "active"
    /\ Restoring => \A a \in Attempt : At(a, session, "idle")
    /\ place = "failed" => life.fenced \/ \A a \in Attempt : At(a, session, "idle")
    /\ Restoring \/ place = "waiting" =>
         Over \/ \A a \in Attempt, s \in Session : s < session => At(a, s, "idle")

\* A saga of the open session that asks, or acts on the answer, has its
\* generation suspended for it.
Holds(a) == run[a][session].at \in {"ask", "commit", "settle", "record", "reactivate"}
HoldsFit == \A a \in Attempt : Holds(a) =>
    \/ Leaving
    \/ /\ place = "up"
       /\ life.state = "suspended" /\ life.awaits = a
       /\ life.gen = row[a].gen /\ life.rev = run[a][session].rev

\* A rejection on record is enough to lift the suspension its attempt waits in.
RejectionsFit == \A r \in rejections :
    life.awaits = r.by => r.gen = life.gen /\ r.rev = life.rev

RestoreFits ==
    /\ place \in {"recover", "suspend", "reconcile", "waiting"} => (fact # None => Over)
    /\ place \in {"suspend", "reconcile", "waiting"} /\ faults = 0 =>
         \A r \in rejections : life.awaits # r.by

Decisions == VerdictsFit /\ FactIsEarned
Sessions == LifeFits /\ PlacesFit /\ HoldsFit /\ RejectionsFit /\ RestoreFits

Inv ==
    /\ TypeOK /\ RowsFit /\ SagasFit
    /\ CommandsFit /\ OneCommandAtATime
    /\ Decisions /\ Sessions

--------------------------------------------------------------------------------
(* What a step of a saga may change *)

RowMoves(a, s) ==
    /\ row' \in [Attempt -> Row \cup {None}]
    /\ \A b \in Attempt : b # a => row'[b] = row[b]
    /\ row[a] # None =>
         /\ row'[a] # None
         /\ row'[a].gen = row[a].gen /\ row'[a].rev = row[a].rev
         /\ row'[a].command = row[a].command
         /\ row'[a].dec = row[a].dec /\ row'[a].born = row[a].born
    /\ row[a] = None /\ row'[a] # None =>
         /\ At(a, s, "draft")
         /\ row'[a].gen = Projection(s).gen /\ row'[a].rev = Projection(s).rev
         /\ row'[a].dec = run[a][s].dec /\ row'[a].born = s

EventMoves(a, s) ==
    /\ terminal' \in [Attempt -> {"none", "succeeded", "failed"}]
    /\ \A b \in Attempt : b # a => terminal'[b] = terminal[b]
    /\ \/ terminal'[a] = terminal[a]
       \/ At(a, s, "shell")
       \/ terminal[a] = "none" /\ ~Active(a)

VerdictMoves(a, s) ==
    \/ verdict' = verdict
    \/ /\ At(a, s, "ask") /\ s = session /\ ~Leaving
       /\ \E v \in {"yes", "no"} : verdict' = [verdict EXCEPT ![a] = v]

FactMoves(a, s) ==
    \/ fact' = fact
    \/ /\ At(a, s, "commit") /\ fact = None /\ fact' = a
       /\ version[s] = row[a].dec.version

RejectionMoves(a, s) ==
    \/ rejections' = rejections
    \/ /\ At(a, s, "record")
       /\ \E r \in Rejection :
            /\ r.by = a /\ r.gen = row[a].gen /\ r.rev = run[a][s].rev
            /\ rejections' = rejections \cup {r}

LifeMoves(a, s, x) ==
    \/ life' = life /\ x.at # "ask"
    \/ /\ At(a, s, "suspend") /\ CanSuspend /\ life.gen = row[a].gen
       /\ life' = Suspended(a) /\ x.at = "ask" /\ x.rev = life.rev + 1
    \/ /\ At(a, s, "settle") /\ CanSettle /\ life.gen = row[a].gen
       /\ life' = Settled /\ x.at = "done"
    \/ /\ At(a, s, "reactivate") /\ CanReactivate(a, run[a][s].rev)
       /\ life.gen = row[a].gen /\ life' = Activated /\ x.at = "rejected"

\* The evaluation goes on by one reading.
Drafts(a, s, x) ==
    \/ /\ At(a, s, "locate") /\ x.at = "count"
       /\ x.dec = [run[a][s].dec EXCEPT !.tree = tree]
    \/ /\ At(a, s, "count") /\ x.at = "judge"
       /\ x.dec = [run[a][s].dec EXCEPT !.version = version[s]]
    \/ /\ At(a, s, "judge") /\ x.at = "draft" /\ x.dec = run[a][s].dec

\* The saga goes from where it stands to x.
StepMoves(a, s, x) ==
    /\ ~At(a, s, "idle")
    /\ x.at \in DraftStep => Drafts(a, s, x)
    /\ At(a, s, "shell") => x.at # "shell"
    /\ x.at \notin DraftStep \cup {"idle"} => row'[a] # None
    /\ x.at = "shell" => terminal[a] = "none" /\ ~Active(a) /\ terminal' = terminal
    /\ x.at = "propose" => At(a, s, "continue") /\ (row[a].command => terminal[a] = "succeeded")
    /\ x.at = "suspend" => At(a, s, "propose") /\ Projection(s).rev = row[a].rev
    /\ x.at = "commit" => At(a, s, "ask") /\ s = session /\ verdict'[a] = "yes"
    /\ x.at = "record" => At(a, s, "ask") /\ s = session /\ verdict'[a] = "no"
    /\ x.at = "settle" => At(a, s, "commit") /\ fact' # None
    /\ x.at = "reactivate" => At(a, s, "record")
    /\ x.at \in {"commit", "record", "settle", "reactivate"} => x.rev = run[a][s].rev

Moves(a, s, x) ==
    /\ x \in Saga /\ run' = [run EXCEPT ![a][s] = x]
    /\ StepMoves(a, s, x) /\ LifeMoves(a, s, x)
    /\ RowMoves(a, s) /\ EventMoves(a, s) /\ VerdictMoves(a, s)
    /\ FactMoves(a, s) /\ RejectionMoves(a, s)
    /\ faults' \in faults .. MaxFaults
    /\ UNCHANGED <<opened, work>>

--------------------------------------------------------------------------------
(* Updates of rows and sagas *)

LEMMA NoneIsNothing ==
    /\ \A r \in Row : r # None
    /\ \A a \in Attempt : a # None
  BY CompletionAssumption, NoneAssumption

LEMMA SagaTypes ==
  ASSUME TypeOK, NEW a \in Attempt, NEW s \in Session
  PROVE  /\ run[a][s] \in Saga /\ run[a][s].at \in Step /\ run[a][s].phase \in Phase
         /\ run[a][s].version \in Nat /\ run[a][s].dec \in Decision
         /\ run[a][s].evidence \in BOOLEAN /\ run[a][s].rev \in Nat
<1>1. run[a][s] \in Saga
  BY DEF TypeOK
<1>. QED BY <1>1 DEF Saga

LEMMA IdleType == Idle \in Saga /\ Idle.at = "idle"
<1>1. NoDecision \in Decision
  BY CompletionAssumption DEF NoDecision, Decision
<1>. QED BY <1>1 DEF Idle, Saga, Step, Phase

LEMMA RunUpdate ==
  ASSUME TypeOK, NEW a \in Attempt, NEW s \in Session, NEW x \in Saga,
         run' = [run EXCEPT ![a][s] = x]
  PROVE  /\ run' \in [Attempt -> [Session -> Saga]]
         /\ run'[a][s] = x
         /\ \A b \in Attempt, t \in Session :
              <<b, t>> # <<a, s>> => run'[b][t] = run[b][t]
  BY DEF TypeOK

LEMMA EndsMove ==
  ASSUME NEW a \in Attempt, NEW s \in Session, Ends(a, s)
  PROVE  run' = [run EXCEPT ![a][s] = Idle]
  BY DEF Ends

LEMMA ToMove ==
  ASSUME TypeOK, NEW a \in Attempt, NEW s \in Session, NEW step \in Step, To(a, s, step)
  PROVE  \E x \in Saga : /\ run' = [run EXCEPT ![a][s] = x]
                         /\ x.at = step /\ x.rev = run[a][s].rev
                         /\ x.phase = run[a][s].phase
<1> DEFINE x == [run[a][s] EXCEPT !.at = step]
<1>1. run[a][s] \in Saga
  BY DEF TypeOK
<1>2. x \in Saga /\ x.at = step /\ x.rev = run[a][s].rev /\ x.phase = run[a][s].phase
  BY <1>1 DEF Saga
<1>3. run' = [run EXCEPT ![a][s] = x]
  BY DEF To
<1>. QED BY <1>2, <1>3

LEMMA ReloadMove ==
  ASSUME TypeOK, NEW a \in Attempt, NEW s \in Session, NEW step \in Step,
         NEW phase \in Phase, Reload(a, s, step, phase)
  PROVE  \E x \in Saga : run' = [run EXCEPT ![a][s] = x] /\ x.at = step
<1>1. PICK g \in Saga : g = run[a][s]
  BY SagaTypes
<1>2. PICK n \in Nat : n = g.version + 1
  BY <1>1 DEF Saga
<1>3. PICK x : x = [g EXCEPT !.at = step, !.phase = phase, !.version = n]
  OBVIOUS
<1>4. x \in Saga /\ x.at = step
  BY <1>3 DEF Saga
<1>5. CASE Won(a, s)
  <2>1. run' = [run EXCEPT ![a][s] = x]
    BY <1>1, <1>2, <1>3, <1>5 DEF Reload
  <2>. QED BY <1>4, <2>1
<1>6. CASE ~Won(a, s)
  BY <1>6, ToMove DEF Reload
<1>. QED BY <1>5, <1>6

\* A row keeps all but its phase and version.
LEMMA RowUpdate ==
  ASSUME TypeOK, NEW a \in Attempt, NEW s \in Session, NEW phase \in Phase,
         row[a] # None,
         row' = [row EXCEPT ![a].phase = phase, ![a].version = @ + 1] \/ row' = row
  PROVE  RowMoves(a, s) /\ row'[a] # None
<1>1. row[a] \in Row /\ row \in [Attempt -> Row \cup {None}]
  BY DEF TypeOK
<1>2. CASE row' = row
  BY <1>1, <1>2 DEF RowMoves
<1>3. CASE row' = [row EXCEPT ![a].phase = phase, ![a].version = @ + 1]
  <2>1. PICK r \in Row : r = row[a]
    BY <1>1
  <2>2. PICK n \in Nat : n = r.version + 1
    BY DEF Row
  <2>3. PICK x : x = [r EXCEPT !.phase = phase, !.version = n]
    OBVIOUS
  <2>4. /\ x \in Row /\ x.gen = r.gen /\ x.rev = r.rev /\ x.command = r.command
        /\ x.dec = r.dec /\ x.born = r.born
    BY <2>3 DEF Row
  <2>5. row' = [row EXCEPT ![a] = x]
    BY <1>1, <1>3, <2>1, <2>2, <2>3
  <2>6. row'[a] = x /\ x # None
    BY <1>1, <2>4, <2>5, NoneIsNothing
  <2>. QED BY <1>1, <2>1, <2>4, <2>5, <2>6 DEF RowMoves
<1>. QED BY <1>2, <1>3

LEMMA WriteMoves ==
  ASSUME TypeOK, NEW a \in Attempt, NEW s \in Session, NEW phase \in Phase,
         row[a] # None, Write(a, s, phase)
  PROVE  RowMoves(a, s) /\ row'[a] # None
  BY RowUpdate DEF Write

LEMMA RowsStay ==
  ASSUME TypeOK, NEW a \in Attempt, NEW s \in Session, row' = row
  PROVE  RowMoves(a, s)
  BY DEF TypeOK, RowMoves

--------------------------------------------------------------------------------
(* Every step of a saga moves like that *)

\* Where a saga stands, unless it is idle or a draft.
LEMMA SagaStands ==
  ASSUME Inv, NEW a \in Attempt, NEW s \in Session, ~At(a, s, "idle")
  PROVE  /\ SagaFits(a, s)
         /\ Drafting(a, s) => row[a] = None
         /\ ~Drafting(a, s) => row[a] \in Row /\ row[a] # None
  BY DEF Inv, SagasFit, SagaFits, TypeOK

\* What a step that touches neither life, verdicts, facts nor rejections leaves
\* to be shown.
Quiet(a, s, x) ==
    /\ x.at \notin {"ask", "commit", "record", "settle", "reactivate"}
    /\ UNCHANGED <<life, verdict, fact, rejections, opened, work>>

LEMMA QuietMoves ==
  ASSUME TypeOK, NEW a \in Attempt, NEW s \in Session, NEW x \in Saga, Quiet(a, s, x)
  PROVE  /\ LifeMoves(a, s, x) /\ VerdictMoves(a, s)
         /\ FactMoves(a, s) /\ RejectionMoves(a, s)
         /\ faults' = faults => faults' \in faults .. MaxFaults
         /\ faults' = faults + 1 /\ faults < MaxFaults => faults' \in faults .. MaxFaults
         /\ UNCHANGED <<opened, work>>
  BY CompletionAssumption
     DEF Quiet, LifeMoves, VerdictMoves, FactMoves, RejectionMoves, TypeOK

LEMMA FaultsMove ==
  ASSUME TypeOK, faults' = faults \/ Fault
  PROVE  faults' \in faults .. MaxFaults
  BY CompletionAssumption DEF TypeOK, Fault

LEMMA EventsStay ==
  ASSUME TypeOK, NEW a \in Attempt, NEW s \in Session, terminal' = terminal
  PROVE  EventMoves(a, s)
  BY DEF TypeOK, EventMoves

LEMMA InsertMoves ==
  ASSUME Inv, NEW a \in Attempt, NEW s \in Session, Insert(a, s)
  PROVE  \E x \in Saga : Moves(a, s, x)
<1>1. TypeOK /\ At(a, s, "draft") /\ ~At(a, s, "idle") /\ run[a][s].dec \in Decision
  BY SagaTypes DEF Insert, At, Inv
<1>2. row[a] = None /\ SagaFits(a, s)
  BY <1>1, SagaStands DEF At
<1>3. PICK command \in BOOLEAN,
           phase \in {"prepared", "evidence_pending"} :
        /\ row' = [row EXCEPT ![a] =
                     [phase |-> phase, version |-> 1, gen |-> Projection(s).gen,
                      rev |-> Projection(s).rev, dec |-> run[a][s].dec,
                      command |-> command, born |-> s]]
        /\ run' = [run EXCEPT ![a][s] = [Idle EXCEPT !.at = "dispatch",
                                          !.phase = phase, !.version = 1]]
  BY DEF Insert
<1>4. phase \in Phase
  BY <1>3 DEF Phase
<1>5. Projection(s).gen \in 1 .. MaxGen /\ Projection(s).rev \in Nat
  BY <1>1, <1>2, CompletionAssumption, SMTT(60) DEF Projection, SagaFits, Past, TypeOK, Life, Session
<1> DEFINE r == [phase |-> phase, version |-> 1, gen |-> Projection(s).gen,
                 rev |-> Projection(s).rev, dec |-> run[a][s].dec,
                 command |-> command, born |-> s]
<1>6. /\ r \in Row /\ r.gen = Projection(s).gen /\ r.rev = Projection(s).rev
      /\ r.dec = run[a][s].dec /\ r.born = s
  BY <1>1, <1>4, <1>5 DEF Row
<1>7. row' = [row EXCEPT ![a] = r]
  BY <1>3
<1>. HIDE DEF r
<1>8. row'[a] = r /\ r # None /\ row' \in [Attempt -> Row \cup {None}]
  BY <1>1, <1>6, <1>7, NoneIsNothing DEF TypeOK
<1>9. RowMoves(a, s)
  BY <1>1, <1>2, <1>6, <1>7, <1>8 DEF RowMoves, TypeOK
<1>10. PICK x : x = [Idle EXCEPT !.at = "dispatch", !.phase = phase, !.version = 1]
  OBVIOUS
<1>11. x \in Saga /\ x.at = "dispatch"
  BY <1>4, <1>10, IdleType DEF Saga, Step
<1>12. run' = [run EXCEPT ![a][s] = x]
  BY <1>3, <1>10
<1>13. Quiet(a, s, x) /\ faults' = faults /\ terminal' = terminal
  BY <1>11 DEF Quiet, Insert
<1>14. StepMoves(a, s, x)
  BY <1>1, <1>8, <1>11 DEF StepMoves, At
<1>. QED BY <1>1, <1>9, <1>11, <1>12, <1>13, <1>14, QuietMoves, EventsStay DEF Moves

\* A step that writes the row, or ends the saga when it has lost its version.
LEMMA WritingMoves ==
  ASSUME Inv, NEW a \in Attempt, NEW s \in Session, NEW phase \in Phase,
         run[a][s].at \notin DraftStep \cup {"idle"},
         Write(a, s, phase),
         Reload(a, s, "dispatch", phase) \/ Ends(a, s),
         UNCHANGED <<life, fact, rejections, terminal, opened, work, verdict, faults>>
  PROVE  \E x \in Saga : Moves(a, s, x)
<1>1. TypeOK /\ row[a] # None
  BY SagaStands DEF Inv, At
<1>2. RowMoves(a, s) /\ row'[a] # None
  BY <1>1, WriteMoves
<1>3. PICK x \in Saga : run' = [run EXCEPT ![a][s] = x] /\ x.at \in {"dispatch", "idle"}
  BY <1>1, ReloadMove, EndsMove, IdleType DEF Step
<1>4. Quiet(a, s, x)
  BY <1>3 DEF Quiet
<1>5. StepMoves(a, s, x)
  BY <1>2, <1>3 DEF StepMoves, At
<1>. QED BY <1>1, <1>2, <1>3, <1>4, <1>5, QuietMoves, EventsStay DEF Moves

LEMMA DispatchMoves ==
  ASSUME Inv, NEW a \in Attempt, NEW s \in Session,
         Prepared(a, s) \/ Claim(a, s) \/ Learn(a, s)
  PROVE  \E x \in Saga : Moves(a, s, x)
<1>1. run[a][s].at \notin DraftStep \cup {"idle"}
  BY DEF Prepared, Claim, Learn, Dispatches, At
<1>2. PICK phase \in Phase :
        /\ Write(a, s, phase)
        /\ Reload(a, s, "dispatch", phase) \/ Ends(a, s)
        /\ UNCHANGED <<life, fact, rejections, terminal, opened, work, verdict, faults>>
  <2>1. CASE Prepared(a, s)
    BY <2>1 DEF Prepared, Phase
  <2>2. CASE Claim(a, s)
    BY <2>2 DEF Claim, Phase
  <2>3. CASE Learn(a, s)
    BY <2>3 DEF Learn, Phase
  <2>. QED BY <2>1, <2>2, <2>3
<1>. QED BY <1>1, <1>2, WritingMoves

\* A step that leaves all but its saga alone.
LEMMA SilentMoves ==
  ASSUME Inv, NEW a \in Attempt, NEW s \in Session, NEW x \in Saga,
         run' = [run EXCEPT ![a][s] = x], ~At(a, s, "idle"),
         x.at \in {"idle", "shell", "continue", "fail"},
         x.at # "idle" => ~Drafting(a, s),
         x.at = "shell" => ~At(a, s, "shell") /\ terminal[a] = "none" /\ ~Active(a),
         UNCHANGED <<life, store, opened, work, verdict>>,
         faults' = faults \/ (faults' = faults + 1 /\ faults < MaxFaults)
  PROVE  \E y \in Saga : Moves(a, s, y)
<1>1. TypeOK /\ UNCHANGED <<fact, rejections, row, terminal>>
  BY DEF Inv, store
<1>2. Quiet(a, s, x)
  BY <1>1 DEF Quiet
<1>3. x.at # "idle" => row'[a] # None
  BY <1>1, SagaStands
<1>4. StepMoves(a, s, x)
  BY <1>1, <1>3 DEF StepMoves, At
<1>. QED BY <1>1, <1>2, <1>4, QuietMoves, EventsStay, RowsStay DEF Moves

LEMMA WaitMoves ==
  ASSUME Inv, NEW a \in Attempt, NEW s \in Session, Wait(a, s) \/ AskThrows(a, s)
  PROVE  \E x \in Saga : Moves(a, s, x)
<1>1. ~At(a, s, "idle") /\ Ends(a, s)
      /\ UNCHANGED <<life, store, opened, work, verdict, faults>>
  BY DEF Wait, AskThrows, Dispatches, At
<1>. QED BY <1>1, EndsMove, IdleType, SilentMoves

LEMMA ExecuteMoves ==
  ASSUME Inv, NEW a \in Attempt, NEW s \in Session, Execute(a, s)
  PROVE  \E x \in Saga : Moves(a, s, x)
<1>1. /\ At(a, s, "dispatch") /\ terminal[a] = "none" /\ ~Active(a)
      /\ To(a, s, "shell")
      /\ UNCHANGED <<life, store, opened, work, verdict, faults>>
  BY DEF Execute, Dispatches
<1>2. PICK x \in Saga : run' = [run EXCEPT ![a][s] = x] /\ x.at = "shell"
  BY <1>1, ToMove DEF Step, Inv
<1>. QED BY <1>1, <1>2, SilentMoves DEF At

LEMMA PresentMoves ==
  ASSUME Inv, NEW a \in Attempt, NEW s \in Session, Present(a, s)
  PROVE  \E x \in Saga : Moves(a, s, x)
<1>1. PICK v \in BOOLEAN :
        /\ At(a, s, "dispatch")
        /\ run' = [run EXCEPT ![a][s].at = "continue", ![a][s].evidence = v]
        /\ UNCHANGED <<life, store, opened, work, verdict, faults>>
  BY DEF Present
<1>2. PICK x : x = [run[a][s] EXCEPT !.at = "continue", !.evidence = v]
  OBVIOUS
<1>3. x \in Saga /\ x.at = "continue"
  <2>1. PICK g \in Saga : g = run[a][s]
    BY SagaTypes DEF Inv
  <2>. QED BY <1>2, <2>1 DEF Saga, Step
<1>4. run' = [run EXCEPT ![a][s] = x]
  BY <1>1, <1>2 DEF Inv, TypeOK
<1>. QED BY <1>1, <1>3, <1>4, SilentMoves DEF At

LEMMA RefuseMoves ==
  ASSUME Inv, NEW a \in Attempt, NEW s \in Session, Refuse(a, s)
  PROVE  \E x \in Saga : Moves(a, s, x)
<1>1. TypeOK /\ At(a, s, "dispatch") /\ terminal[a] = "none" /\ ~Active(a)
  BY DEF Refuse, Dispatches, Inv
<1>2. PICK x \in Saga : run' = [run EXCEPT ![a][s] = x] /\ x.at = "continue"
  BY <1>1, ToMove DEF Refuse, Step
<1>3. row[a] # None /\ row' = row
  BY <1>1, SagaStands DEF Refuse, At
<1>4. EventMoves(a, s)
  BY <1>1 DEF Refuse, EventMoves, TypeOK
<1>5. Quiet(a, s, x)
  BY <1>2 DEF Quiet, Refuse
<1>6. StepMoves(a, s, x)
  BY <1>1, <1>2, <1>3 DEF StepMoves, At
<1>. QED BY <1>1, <1>2, <1>3, <1>4, <1>5, <1>6, QuietMoves, RowsStay DEF Moves, Refuse

LEMMA ShellEndsMoves ==
  ASSUME Inv, NEW a \in Attempt, NEW s \in Session, ShellEnds(a, s)
  PROVE  \E x \in Saga : Moves(a, s, x)
<1>1. PICK outcome \in {"succeeded", "failed"} :
        /\ run' = [run EXCEPT ![a][s].at = "continue",
                              ![a][s].evidence = (outcome = "succeeded")]
        /\ \/ terminal' = [terminal EXCEPT ![a] = outcome] /\ faults' = faults
           \/ Fault /\ terminal' = terminal
  BY DEF ShellEnds
<1>2. TypeOK /\ At(a, s, "shell")
  BY DEF ShellEnds, Inv
<1>3. PICK v \in BOOLEAN : v = (outcome = "succeeded")
  OBVIOUS
<1>4. PICK x : x = [run[a][s] EXCEPT !.at = "continue", !.evidence = v]
  OBVIOUS
<1>5. x \in Saga /\ x.at = "continue"
  <2>1. PICK g \in Saga : g = run[a][s]
    BY <1>2, SagaTypes
  <2>. QED BY <1>4, <2>1 DEF Saga, Step
<1>6. run' = [run EXCEPT ![a][s] = x]
  <2>1. run' = [run EXCEPT ![a][s].at = "continue", ![a][s].evidence = v]
    BY <1>1, <1>3
  <2>. QED BY <1>2, <1>4, <2>1 DEF TypeOK
<1>7. row[a] # None /\ row' = row
  BY <1>2, SagaStands DEF ShellEnds, At
<1>8. EventMoves(a, s)
  BY <1>1, <1>2 DEF EventMoves, TypeOK
<1>9. Quiet(a, s, x)
  BY <1>5 DEF Quiet, ShellEnds
<1>10. StepMoves(a, s, x)
  BY <1>2, <1>5, <1>7 DEF StepMoves, At
<1>11. faults' \in faults .. MaxFaults
  BY <1>1, <1>2, FaultsMove
<1>. QED BY <1>2, <1>5, <1>6, <1>7, <1>8, <1>9, <1>10, <1>11, QuietMoves, RowsStay DEF Moves

\* The saga with its row read again.
LEMMA FreshSaga ==
  ASSUME TypeOK, NEW a \in Attempt, NEW s \in Session, row[a] # None,
         NEW n \in Nat, NEW x,
         x = [run[a][s] EXCEPT !.at = "propose", !.phase = row[a].phase, !.version = n]
  PROVE  x \in Saga /\ x.at = "propose"
<1>1. PICK g \in Saga : g = run[a][s]
  BY SagaTypes
<1>2. PICK p \in Phase : p = row[a].phase
  BY DEF TypeOK, Row
<1>3. x = [g EXCEPT !.at = "propose", !.phase = p, !.version = n]
  BY <1>1, <1>2
<1>. QED BY <1>3, ZenonT(90) DEF Saga, Step

LEMMA ContinueMoves ==
  ASSUME Inv, NEW a \in Attempt, NEW s \in Session, Continue(a, s)
  PROVE  \E x \in Saga : Moves(a, s, x)
<1> DEFINE fresh == [run[a][s] EXCEPT !.at = "propose", !.phase = row[a].phase,
                                      !.version = row[a].version]
           Read == \/ ~row[a].command
                   \/ row[a].command /\ run[a][s].evidence /\ terminal[a] = "succeeded"
<1>1. /\ TypeOK /\ At(a, s, "continue")
      /\ UNCHANGED <<life, fact, rejections, terminal, opened, work, verdict, faults>>
  BY DEF Continue, Inv
<1>2. row[a] \in Row /\ row[a] # None
  BY <1>1, SagaStands DEF At
<1>3. row[a].version \in Nat /\ row[a].version + 1 \in Nat
  BY <1>2 DEF Row
<1>4. \E x \in Saga :
        /\ run' = [run EXCEPT ![a][s] = x]
        /\ x.at = "idle" \/ (x.at = "propose" /\ (row[a].command => terminal[a] = "succeeded"))
        /\ RowMoves(a, s) /\ row'[a] # None
  <2>1. CASE ~row[a].command /\ run' = [run EXCEPT ![a][s] = fresh] /\ row' = row
    <3>1. fresh \in Saga /\ fresh.at = "propose"
      BY <1>1, <1>2, <1>3, FreshSaga, ZenonT(90)
    <3>. HIDE DEF fresh
    <3>. QED BY <1>1, <1>2, <2>1, <3>1, RowsStay
  <2>2. CASE /\ row[a].command /\ terminal[a] = "succeeded"
             /\ row' = [row EXCEPT ![a].phase = "evidence_succeeded", ![a].version = @ + 1]
             /\ run' = [run EXCEPT ![a][s] = [fresh EXCEPT !.version = row[a].version + 1]]
    <3>1. PICK n \in Nat : n = row[a].version + 1
      BY <1>3
    <3>2. PICK g \in Saga : g = fresh /\ g.at = "propose"
      <4>1. fresh \in Saga /\ fresh.at = "propose"
        BY <1>1, <1>2, <1>3, FreshSaga, ZenonT(90)
      <4>. HIDE DEF fresh
      <4>. QED BY <4>1
    <3>3. PICK x : x = [g EXCEPT !.version = n]
      OBVIOUS
    <3>4. x \in Saga /\ x.at = "propose"
      BY <3>2, <3>3 DEF Saga
    <3>5. run' = [run EXCEPT ![a][s] = x]
      <4>. HIDE DEF fresh
      <4>. QED BY <2>2, <3>1, <3>2, <3>3
    <3>6. RowMoves(a, s) /\ row'[a] # None
      BY <1>1, <1>2, <2>2, RowUpdate DEF Phase
    <3>. QED BY <2>2, <3>4, <3>5, <3>6
  <2>3. CASE /\ row' = [row EXCEPT ![a].phase = "evidence_failed", ![a].version = @ + 1]
             /\ Ends(a, s)
    <3>1. RowMoves(a, s) /\ row'[a] # None
      BY <1>1, <1>2, <2>3, RowUpdate DEF Phase
    <3>. QED BY <2>3, <3>1, EndsMove, IdleType
  <2>4. CASE Ends(a, s) /\ row' = row
    BY <1>1, <1>2, <2>4, RowsStay, EndsMove, IdleType
  <2>. QED BY <2>1, <2>2, <2>3, <2>4 DEF Continue
<1>5. PICK x \in Saga :
        /\ run' = [run EXCEPT ![a][s] = x]
        /\ x.at = "idle" \/ (x.at = "propose" /\ (row[a].command => terminal[a] = "succeeded"))
        /\ RowMoves(a, s) /\ row'[a] # None
  BY <1>4
<1>6. Quiet(a, s, x)
  BY <1>1, <1>5 DEF Quiet
<1>7. StepMoves(a, s, x)
  BY <1>1, <1>5 DEF StepMoves, At
<1>. QED BY <1>1, <1>5, <1>6, <1>7, QuietMoves, EventsStay DEF Moves

LEMMA ProposeMoves ==
  ASSUME Inv, NEW a \in Attempt, NEW s \in Session, Propose(a, s)
  PROVE  \E x \in Saga : Moves(a, s, x)
<1>1. /\ TypeOK /\ At(a, s, "propose")
      /\ UNCHANGED <<life, fact, rejections, terminal, opened, work, verdict, faults>>
  BY DEF Propose, Inv
<1>2. row[a] # None
  BY <1>1, SagaStands DEF At
<1>3. \E x \in Saga :
        /\ run' = [run EXCEPT ![a][s] = x]
        /\ x.at = "idle" \/ (x.at = "suspend" /\ Projection(s).rev = row[a].rev)
        /\ RowMoves(a, s) /\ row'[a] # None
  <2>1. CASE /\ Projection(s).rev = row[a].rev
             /\ Write(a, s, "proposal_pending")
             /\ Reload(a, s, "suspend", "proposal_pending")
    BY <1>1, <1>2, <2>1, WriteMoves, ReloadMove DEF Phase, Step
  <2>2. CASE Ends(a, s) /\ row' = row
    BY <1>1, <1>2, <2>2, EndsMove, IdleType, RowsStay
  <2>. QED BY <2>1, <2>2 DEF Propose
<1>4. PICK x \in Saga :
        /\ run' = [run EXCEPT ![a][s] = x]
        /\ x.at = "idle" \/ (x.at = "suspend" /\ Projection(s).rev = row[a].rev)
        /\ RowMoves(a, s) /\ row'[a] # None
  BY <1>3
<1>5. Quiet(a, s, x)
  BY <1>1, <1>4 DEF Quiet
<1>6. StepMoves(a, s, x)
  BY <1>1, <1>4 DEF StepMoves, At
<1>. QED BY <1>1, <1>4, <1>5, <1>6, QuietMoves, EventsStay DEF Moves

\* A step that leaves the row and the outcome of the command alone.
LEMMA StoreStays ==
  ASSUME Inv, NEW a \in Attempt, NEW s \in Session, ~At(a, s, "idle"),
         row' = row, terminal' = terminal
  PROVE  /\ RowMoves(a, s) /\ EventMoves(a, s)
         /\ ~Drafting(a, s) => row'[a] # None
  BY RowsStay, EventsStay, SagaStands DEF Inv

LEMMA SuspendMoves ==
  ASSUME Inv, NEW a \in Attempt, NEW s \in Session, Suspend(a, s)
  PROVE  \E x \in Saga : Moves(a, s, x)
<1>1. /\ TypeOK /\ At(a, s, "suspend")
      /\ UNCHANGED <<store, opened, work, verdict, faults>>
      /\ ~At(a, s, "idle") /\ ~Drafting(a, s)
  BY DEF Suspend, Inv, At
<1>2. /\ RowMoves(a, s) /\ EventMoves(a, s) /\ row'[a] # None
      /\ faults' \in faults .. MaxFaults
      /\ VerdictMoves(a, s) /\ FactMoves(a, s) /\ RejectionMoves(a, s)
  BY <1>1, StoreStays, CompletionAssumption
     DEF store, VerdictMoves, FactMoves, RejectionMoves, TypeOK
<1>3. CASE ~(CanSuspend /\ life.gen = row[a].gen)
  BY <1>1, <1>2, <1>3, EndsMove, IdleType DEF Suspend, Moves, StepMoves, LifeMoves, At
<1>4. CASE CanSuspend /\ life.gen = row[a].gen
  <2>1. /\ life' = Suspended(a)
        /\ run' = [run EXCEPT ![a][s].at = "ask", ![a][s].rev = life.rev + 1]
    BY <1>4 DEF Suspend
  <2>2. PICK n \in Nat : n = life.rev + 1
    BY <1>1 DEF TypeOK, Life
  <2>3. PICK x : x = [run[a][s] EXCEPT !.at = "ask", !.rev = n]
    OBVIOUS
  <2>4. x \in Saga /\ x.at = "ask" /\ x.rev = n
    <3>1. PICK g \in Saga : g = run[a][s]
      BY <1>1, SagaTypes
    <3>. QED BY <2>3, <3>1 DEF Saga, Step
  <2>5. run' = [run EXCEPT ![a][s] = x]
    BY <1>1, <2>1, <2>2, <2>3 DEF TypeOK
  <2>6. LifeMoves(a, s, x)
    BY <1>1, <1>4, <2>1, <2>2, <2>4 DEF LifeMoves
  <2>7. StepMoves(a, s, x)
    BY <1>1, <1>2, <2>4 DEF StepMoves, At
  <2>. QED BY <1>1, <1>2, <2>4, <2>5, <2>6, <2>7 DEF Moves
<1>. QED BY <1>3, <1>4

LEMMA AnswerMoves ==
  ASSUME Inv, NEW a \in Attempt, NEW s \in Session, Answer(a, s)
  PROVE  \E x \in Saga : Moves(a, s, x)
<1>1. /\ TypeOK /\ At(a, s, "ask") /\ s = session /\ ~Leaving
      /\ UNCHANGED <<life, store, opened, work, faults>>
      /\ ~At(a, s, "idle") /\ ~Drafting(a, s)
  BY DEF Answer, Inv, At, Leaving
<1>2. PICK v \in {"yes", "no"}, step \in {"commit", "record"} :
        /\ verdict' = [verdict EXCEPT ![a] = v] /\ To(a, s, step)
        /\ step = "commit" <=> v = "yes"
  BY DEF Answer
<1>3. PICK x \in Saga : /\ run' = [run EXCEPT ![a][s] = x]
                        /\ x.at = step /\ x.rev = run[a][s].rev
  BY <1>1, <1>2, ToMove DEF Step
<1>4. /\ RowMoves(a, s) /\ EventMoves(a, s) /\ row'[a] # None
      /\ faults' \in faults .. MaxFaults
      /\ VerdictMoves(a, s) /\ FactMoves(a, s) /\ RejectionMoves(a, s)
  BY <1>1, <1>2, StoreStays, FaultsMove
     DEF store, VerdictMoves, FactMoves, RejectionMoves
<1>5. LifeMoves(a, s, x)
  BY <1>1, <1>2, <1>3 DEF LifeMoves
<1>6. verdict'[a] = v
  BY <1>1, <1>2 DEF TypeOK
<1>7. StepMoves(a, s, x)
  BY <1>1, <1>2, <1>3, <1>4, <1>6 DEF StepMoves, At
<1>. QED BY <1>1, <1>3, <1>4, <1>5, <1>7 DEF Moves

LEMMA CommitMoves ==
  ASSUME Inv, NEW a \in Attempt, NEW s \in Session, Commit(a, s)
  PROVE  \E x \in Saga : Moves(a, s, x)
<1>1. /\ TypeOK /\ At(a, s, "commit")
      /\ UNCHANGED <<life, rejections, row, terminal, opened, work, verdict, faults>>
      /\ ~At(a, s, "idle") /\ ~Drafting(a, s)
  BY DEF Commit, Inv, At
<1>2. PICK step \in {"settle", "fail"} :
        /\ To(a, s, step)
        /\ step = "settle" => /\ fact' = IF fact = None THEN a ELSE fact
                              /\ version[s] = row[a].dec.version
        /\ step = "fail" => fact' = fact
  BY DEF Commit
<1>3. PICK x \in Saga : /\ run' = [run EXCEPT ![a][s] = x]
                        /\ x.at = step /\ x.rev = run[a][s].rev
  BY <1>1, <1>2, ToMove DEF Step
<1>4. /\ RowMoves(a, s) /\ EventMoves(a, s) /\ row'[a] # None
      /\ faults' \in faults .. MaxFaults
      /\ VerdictMoves(a, s) /\ RejectionMoves(a, s)
  BY <1>1, StoreStays, FaultsMove DEF VerdictMoves, RejectionMoves
<1>5. FactMoves(a, s) /\ (step = "settle" => fact' # None)
  BY <1>1, <1>2, NoneIsNothing DEF FactMoves
<1>6. LifeMoves(a, s, x)
  BY <1>1, <1>2, <1>3 DEF LifeMoves
<1>7. StepMoves(a, s, x)
  BY <1>1, <1>2, <1>3, <1>4, <1>5 DEF StepMoves, At
<1>. QED BY <1>1, <1>3, <1>4, <1>5, <1>6, <1>7 DEF Moves

LEMMA SettleMoves ==
  ASSUME Inv, NEW a \in Attempt, NEW s \in Session, Settle(a, s)
  PROVE  \E x \in Saga : Moves(a, s, x)
<1>1. /\ TypeOK /\ At(a, s, "settle")
      /\ UNCHANGED <<store, opened, work, verdict, faults>>
      /\ ~At(a, s, "idle") /\ ~Drafting(a, s)
  BY DEF Settle, Inv, At
<1>2. PICK step \in {"done", "fail"} :
        /\ To(a, s, step)
        /\ step = "done" => CanSettle /\ life.gen = row[a].gen /\ life' = Settled
        /\ step = "fail" => life' = life
  BY DEF Settle
<1>3. PICK x \in Saga : run' = [run EXCEPT ![a][s] = x] /\ x.at = step
  BY <1>1, <1>2, ToMove DEF Step
<1>4. /\ RowMoves(a, s) /\ EventMoves(a, s) /\ row'[a] # None
      /\ faults' \in faults .. MaxFaults
      /\ VerdictMoves(a, s) /\ FactMoves(a, s) /\ RejectionMoves(a, s)
  BY <1>1, StoreStays, FaultsMove
     DEF store, VerdictMoves, FactMoves, RejectionMoves
<1>5. LifeMoves(a, s, x)
  BY <1>1, <1>2, <1>3 DEF LifeMoves
<1>6. StepMoves(a, s, x)
  BY <1>1, <1>2, <1>3, <1>4 DEF StepMoves, At
<1>. QED BY <1>1, <1>3, <1>4, <1>5, <1>6 DEF Moves

LEMMA ClosesMoves ==
  ASSUME Inv, NEW a \in Attempt, NEW s \in Session,
         Done(a, s) \/ Fail(a, s) \/ Rejected(a, s)
  PROVE  \E x \in Saga : Moves(a, s, x)
<1>1. PICK step \in {"done", "fail", "rejected"}, phase \in Phase :
        Closes(a, s, step, phase)
  BY DEF Done, Fail, Rejected, Phase
<1>. QED BY <1>1, WritingMoves DEF Closes, At

LEMMA RecordMoves ==
  ASSUME Inv, NEW a \in Attempt, NEW s \in Session, Record(a, s)
  PROVE  \E x \in Saga : Moves(a, s, x)
<1>1. /\ TypeOK /\ At(a, s, "record") /\ To(a, s, "reactivate")
      /\ UNCHANGED <<life, fact, row, terminal, opened, work, verdict, faults>>
      /\ ~At(a, s, "idle") /\ ~Drafting(a, s)
  BY DEF Record, Inv, At
<1>2. PICK x \in Saga : /\ run' = [run EXCEPT ![a][s] = x]
                        /\ x.at = "reactivate" /\ x.rev = run[a][s].rev
  BY <1>1, ToMove DEF Step
<1>3. /\ RowMoves(a, s) /\ EventMoves(a, s) /\ row'[a] # None
      /\ faults' \in faults .. MaxFaults
      /\ VerdictMoves(a, s) /\ FactMoves(a, s)
  BY <1>1, StoreStays, FaultsMove DEF VerdictMoves, FactMoves
<1>4. row[a] \in Row
  BY <1>1, SagaStands
<1>5. RejectionMoves(a, s)
  <2> DEFINE r == [dec |-> row[a].dec, gen |-> row[a].gen, by |-> a, rev |-> run[a][s].rev]
  <2>1. r \in Rejection /\ r.by = a /\ r.gen = row[a].gen /\ r.rev = run[a][s].rev
    BY <1>1, <1>4, SagaTypes DEF Rejection, Row
  <2>2. rejections' = rejections \/ rejections' = rejections \cup {r}
    BY DEF Record
  <2>. QED BY <1>1, <2>1, <2>2 DEF RejectionMoves
<1>6. LifeMoves(a, s, x)
  BY <1>1, <1>2 DEF LifeMoves
<1>7. StepMoves(a, s, x)
  BY <1>1, <1>2, <1>3 DEF StepMoves, At
<1>. QED BY <1>1, <1>2, <1>3, <1>5, <1>6, <1>7 DEF Moves

LEMMA ReactivateMoves ==
  ASSUME Inv, NEW a \in Attempt, NEW s \in Session, Reactivate(a, s)
  PROVE  \E x \in Saga : Moves(a, s, x)
<1>1. /\ TypeOK /\ At(a, s, "reactivate")
      /\ UNCHANGED <<store, opened, work, verdict, faults>>
      /\ ~At(a, s, "idle") /\ ~Drafting(a, s)
  BY DEF Reactivate, Inv, At
<1>2. \E x \in Saga :
        /\ run' = [run EXCEPT ![a][s] = x]
        /\ \/ x.at = "idle" /\ life' = life
           \/ /\ x.at = "rejected" /\ CanReactivate(a, run[a][s].rev)
              /\ life.gen = row[a].gen /\ life' = Activated
  BY <1>1, ToMove, EndsMove, IdleType DEF Reactivate, Step
<1>3. PICK x \in Saga :
        /\ run' = [run EXCEPT ![a][s] = x]
        /\ \/ x.at = "idle" /\ life' = life
           \/ /\ x.at = "rejected" /\ CanReactivate(a, run[a][s].rev)
              /\ life.gen = row[a].gen /\ life' = Activated
  BY <1>2
<1>4. /\ RowMoves(a, s) /\ EventMoves(a, s) /\ row'[a] # None
      /\ faults' \in faults .. MaxFaults
      /\ VerdictMoves(a, s) /\ FactMoves(a, s) /\ RejectionMoves(a, s)
  BY <1>1, StoreStays, FaultsMove
     DEF store, VerdictMoves, FactMoves, RejectionMoves
<1>5. LifeMoves(a, s, x)
  BY <1>1, <1>3 DEF LifeMoves
<1>6. StepMoves(a, s, x)
  BY <1>1, <1>3, <1>4 DEF StepMoves, At
<1>. QED BY <1>1, <1>3, <1>4, <1>5, <1>6 DEF Moves

LEMMA ThrowsMoves ==
  ASSUME Inv, NEW a \in Attempt, NEW s \in Session, Throws(a, s)
  PROVE  \E x \in Saga : Moves(a, s, x)
<1>1. /\ TypeOK /\ ~At(a, s, "idle")
      /\ UNCHANGED <<life, store, opened, work, verdict>>
      /\ faults' = faults + 1 /\ faults < MaxFaults
  BY DEF Throws, Inv, Fault
<1>2. CASE Ends(a, s)
  BY <1>1, <1>2, EndsMove, IdleType, SilentMoves
<1>3. CASE run[a][s].at \in {"commit", "settle", "done"} /\ To(a, s, "fail")
  <2>1. PICK x \in Saga : run' = [run EXCEPT ![a][s] = x] /\ x.at = "fail"
    BY <1>1, <1>3, ToMove DEF Step
  <2>. QED BY <1>1, <1>3, <2>1, SilentMoves DEF At
<1>. QED BY <1>2, <1>3 DEF Throws

\* The evaluation changes its own saga only.
LEMMA DraftMoves ==
  ASSUME Inv, NEW a \in Attempt, NEW s \in Session, Locate(a, s) \/ Count(a, s) \/ Judge(a, s)
  PROVE  \E x \in Saga : Moves(a, s, x)
<1>1. /\ TypeOK /\ ~At(a, s, "idle")
      /\ UNCHANGED <<life, store, opened, work, verdict, faults>>
  BY DEF Locate, Count, Judge, Inv, At
<1>2. PICK g \in Saga : g = run[a][s] /\ g.dec \in Decision
  BY <1>1, SagaTypes
<1>3. CASE Ends(a, s)
  BY <1>1, <1>3, EndsMove, IdleType, SilentMoves
<1>4. ASSUME NEW x \in Saga, run' = [run EXCEPT ![a][s] = x], Drafts(a, s, x)
      PROVE  Moves(a, s, x)
  <2>1. x.at \in {"count", "judge", "draft"} /\ ~At(a, s, "shell")
    BY <1>4 DEF Drafts, At
  <2>2. StepMoves(a, s, x)
    BY <1>1, <1>4, <2>1 DEF StepMoves
  <2>3. Quiet(a, s, x) /\ row' = row /\ terminal' = terminal
    BY <1>1, <2>1 DEF Quiet, store
  <2>. QED BY <1>1, <1>4, <2>2, <2>3, QuietMoves, EventsStay, RowsStay DEF Moves
<1>5. CASE Locate(a, s)
  <2>1. PICK x : x = [g EXCEPT !.at = "count", !.dec.tree = tree]
    OBVIOUS
  <2>2. [g.dec EXCEPT !.tree = tree] \in Decision
    BY <1>1, <1>2 DEF TypeOK, Decision
  <2>3. x \in Saga /\ x.at = "count" /\ x.dec = [g.dec EXCEPT !.tree = tree]
    BY <2>1, <2>2 DEF Saga, Step
  <2>4. run' = [run EXCEPT ![a][s] = x] /\ At(a, s, "locate")
    BY <1>1, <1>2, <1>5, <2>1 DEF Locate, TypeOK, Saga
  <2>. QED BY <1>2, <1>4, <2>3, <2>4 DEF Drafts
<1>6. CASE Count(a, s)
  <2>1. PICK x : x = [g EXCEPT !.at = "judge", !.dec.version = version[s]]
    OBVIOUS
  <2>2. [g.dec EXCEPT !.version = version[s]] \in Decision
    BY <1>1, <1>2 DEF TypeOK, Decision
  <2>3. x \in Saga /\ x.at = "judge" /\ x.dec = [g.dec EXCEPT !.version = version[s]]
    BY <2>1, <2>2 DEF Saga, Step
  <2>4. run' = [run EXCEPT ![a][s] = x] /\ At(a, s, "count")
    BY <1>1, <1>2, <1>6, <2>1 DEF Count, TypeOK, Saga
  <2>. QED BY <1>2, <1>4, <2>3, <2>4 DEF Drafts
<1>7. CASE At(a, s, "judge") /\ To(a, s, "draft")
  <2>1. PICK x : x = [g EXCEPT !.at = "draft"]
    OBVIOUS
  <2>2. x \in Saga /\ x.at = "draft" /\ x.dec = g.dec
    BY <2>1 DEF Saga, Step
  <2>3. run' = [run EXCEPT ![a][s] = x]
    BY <1>1, <1>2, <1>7, <2>1 DEF To, TypeOK, Saga
  <2>. QED BY <1>2, <1>4, <1>7, <2>2, <2>3 DEF Drafts
<1>. QED BY <1>3, <1>5, <1>6, <1>7 DEF Judge

LEMMA SagaMoves ==
  ASSUME Inv, NEW a \in Attempt, NEW s \in Session, SagaStep(a, s)
  PROVE  \E x \in Saga : Moves(a, s, x)
  BY DraftMoves, InsertMoves, DispatchMoves, WaitMoves, ExecuteMoves, RefuseMoves, ShellEndsMoves,
     PresentMoves, ContinueMoves, ProposeMoves, SuspendMoves, AnswerMoves, CommitMoves,
     SettleMoves, ClosesMoves, RecordMoves, ReactivateMoves, ThrowsMoves DEF SagaStep

--------------------------------------------------------------------------------
(* The lifecycle record *)

LEMMA SuspendedIs ==
  ASSUME TypeOK, NEW a \in Attempt \cup {None}, life' = Suspended(a)
  PROVE  /\ life' \in Life /\ life'.gen = life.gen /\ life'.rev = life.rev + 1
         /\ life'.state = "suspended" /\ life'.fenced = life.fenced
         /\ life'.late = life.late /\ life'.awaits = a
<1>1. PICK l \in Life, n \in Nat : l = life /\ n = l.rev + 1
  BY DEF TypeOK, Life
<1>2. life' = [l EXCEPT !.rev = n, !.state = "suspended", !.awaits = a]
  BY <1>1 DEF Suspended
<1>3. /\ life' \in Life /\ life'.gen = l.gen /\ life'.rev = n /\ life'.state = "suspended"
      /\ life'.fenced = l.fenced /\ life'.late = l.late /\ life'.awaits = a
  BY <1>2 DEF Life
<1>. QED BY <1>1, <1>3

LEMMA ActivatedIs ==
  ASSUME TypeOK, life' = Activated
  PROVE  /\ life' \in Life /\ life'.gen = life.gen /\ life'.rev = life.rev + 1
         /\ life'.state = "active" /\ life'.fenced = life.fenced
         /\ life'.late = life.late /\ life'.awaits = None
<1>1. PICK l \in Life, n \in Nat : l = life /\ n = l.rev + 1
  BY DEF TypeOK, Life
<1>2. life' = [l EXCEPT !.rev = n, !.state = "active", !.awaits = None]
  BY <1>1 DEF Activated
<1>3. /\ life' \in Life /\ life'.gen = l.gen /\ life'.rev = n /\ life'.state = "active"
      /\ life'.fenced = l.fenced /\ life'.late = l.late /\ life'.awaits = None
  BY <1>2 DEF Life
<1>. QED BY <1>1, <1>3

LEMMA SettledIs ==
  ASSUME TypeOK, life' = Settled
  PROVE  /\ life' \in Life /\ life'.gen = life.gen /\ life'.rev = life.rev + 1
         /\ life'.state = "completed" /\ life'.fenced = life.fenced
         /\ life'.late = life.late /\ life'.awaits = None
<1>1. PICK l \in Life, n \in Nat : l = life /\ n = l.rev + 1
  BY DEF TypeOK, Life
<1>2. life' = [l EXCEPT !.rev = n, !.state = "completed", !.awaits = None]
  BY <1>1 DEF Settled
<1>3. /\ life' \in Life /\ life'.gen = l.gen /\ life'.rev = n /\ life'.state = "completed"
      /\ life'.fenced = l.fenced /\ life'.late = l.late /\ life'.awaits = None
  BY <1>2 DEF Life
<1>. QED BY <1>1, <1>3

LEMMA CancelledIs ==
  ASSUME TypeOK, life' = Cancelled
  PROVE  /\ life' \in Life /\ life'.gen = life.gen /\ life'.rev = life.rev + 1
         /\ life'.state = "cancelled" /\ life'.fenced = life.fenced
         /\ life'.late = life.late /\ life'.awaits = None
<1>1. PICK l \in Life, n \in Nat : l = life /\ n = l.rev + 1
  BY DEF TypeOK, Life
<1>2. life' = [l EXCEPT !.rev = n, !.state = "cancelled", !.awaits = None]
  BY <1>1 DEF Cancelled
<1>3. /\ life' \in Life /\ life'.gen = l.gen /\ life'.rev = n /\ life'.state = "cancelled"
      /\ life'.fenced = l.fenced /\ life'.late = l.late /\ life'.awaits = None
  BY <1>2 DEF Life
<1>. QED BY <1>1, <1>3

LEMMA RequestedIs ==
  ASSUME TypeOK, life' = Requested
  PROVE  /\ life' \in Life /\ life'.gen = life.gen /\ life'.rev = life.rev + 1
         /\ life'.state = life.state /\ life'.fenced /\ life'.awaits = None
<1>1. PICK l \in Life, n \in Nat : l = life /\ n = l.rev + 1
  BY DEF TypeOK, Life
<1>2. PICK late \in BOOLEAN : late = (fact = None)
  OBVIOUS
<1>3. life' = [l EXCEPT !.rev = n, !.fenced = TRUE, !.late = late, !.awaits = None]
  BY <1>1, <1>2 DEF Requested
<1>4. /\ life' \in Life /\ life'.gen = l.gen /\ life'.rev = n /\ life'.state = l.state
      /\ life'.fenced /\ life'.awaits = None
  BY <1>3 DEF Life
<1>. QED BY <1>1, <1>4

LEMMA RenewedIs ==
  ASSUME TypeOK, life.gen < MaxGen,
         life' = [Activated EXCEPT !.gen = @ + 1, !.fenced = FALSE, !.late = FALSE]
  PROVE  /\ life' \in Life /\ life'.gen = life.gen + 1 /\ life'.rev = life.rev + 1
         /\ life'.state = "active" /\ ~life'.fenced /\ life'.awaits = None
<1>1. PICK l \in Life, n \in Nat : l = life /\ n = l.rev + 1
  BY DEF TypeOK, Life
<1>2. PICK y : y = [l EXCEPT !.rev = n, !.state = "active", !.awaits = None]
  OBVIOUS
<1>3. y = Activated
  BY <1>1, <1>2 DEF Activated
<1>4. /\ y \in Life /\ y.gen = l.gen /\ y.rev = n
      /\ y.state = "active" /\ y.awaits = None
  BY <1>2 DEF Life
<1>5. PICK g \in 1 .. MaxGen : g = y.gen + 1
  BY <1>1, <1>4, CompletionAssumption DEF Life
<1>6. life' = [y EXCEPT !.gen = g, !.fenced = FALSE, !.late = FALSE]
  BY <1>3, <1>5
<1>7. y \in Life
  BY <1>4
<1>8. /\ life' \in Life /\ life'.gen = g /\ life'.rev = y.rev /\ life'.state = y.state
      /\ ~life'.fenced /\ life'.awaits = y.awaits
  BY <1>6, <1>7 DEF Life
<1>. QED BY <1>1, <1>4, <1>5, <1>8

--------------------------------------------------------------------------------
(* Moves keep the invariant *)

\* A saga of a session that was closed cannot move the lifecycle any more.
LEMMA ClosedSessionsMoveNothing ==
  ASSUME Inv, NEW a \in Attempt, NEW s \in Session, NEW x \in Saga, Moves(a, s, x),
         s # session
  PROVE  life' = life
<1>1. /\ TypeOK /\ LifeMoves(a, s, x) /\ ~At(a, s, "idle")
      /\ At(a, s, "suspend") \/ At(a, s, "settle") \/ At(a, s, "reactivate")
           => ~Drafting(a, s)
  BY DEF Moves, StepMoves, Inv, At
<1>2. SagaFits(a, s) /\ (~Drafting(a, s) => row[a] \in Row /\ row[a] # None)
  BY <1>1, SagaStands
<1>3. s < session /\ Past(s) /\ (row[a] # None => row[a].gen <= seen[s].gen)
  BY <1>1, <1>2 DEF SagaFits, Session, TypeOK
<1>4. /\ life.gen \in Nat /\ seen[s].gen \in Nat
      /\ row[a] # None => row[a].gen \in Nat
  BY <1>1 DEF TypeOK, Life, Row
<1>5. Over \/ (row[a] # None => life.gen # row[a].gen)
  BY <1>3, <1>4 DEF Past
<1>. QED BY <1>1, <1>2, <1>5 DEF LifeMoves, CanSuspend, CanSettle, CanReactivate, Over

LEMMA MoveFacts ==
  ASSUME Inv, NEW a \in Attempt, NEW s \in Session, NEW x \in Saga, Moves(a, s, x)
  PROVE  /\ TypeOK'
         /\ run'[a][s] = x
         /\ \A b \in Attempt, t \in Session :
              <<b, t>> # <<a, s>> => run'[b][t] = run[b][t]
         /\ life'.gen = life.gen /\ life.rev <= life'.rev
         /\ life.gen \in Nat /\ life.rev \in Nat /\ life'.rev \in Nat
         /\ Over => life' = life
         /\ \A b \in Attempt : row[b] # None =>
              /\ row'[b] # None /\ row'[b].gen = row[b].gen /\ row'[b].rev = row[b].rev
              /\ row'[b].command = row[b].command
         /\ session' = session /\ place' = place /\ seen' = seen
         /\ version' = version /\ tree' = tree /\ tool' = tool /\ slipped' = slipped
         /\ Over => Over'
<1>1. TypeOK /\ run' = [run EXCEPT ![a][s] = x]
  BY DEF Moves, Inv
<1>2. /\ session' = session /\ place' = place /\ seen' = seen
      /\ version' = version /\ tree' = tree /\ tool' = tool /\ slipped' = slipped
  BY DEF Moves, opened, work
<1>3. /\ life' \in Life /\ life'.gen = life.gen /\ life.rev <= life'.rev
      /\ life.gen \in Nat /\ life.rev \in Nat /\ life'.rev \in Nat
  <2>1. LifeMoves(a, s, x) /\ life \in Life
    BY <1>1 DEF Moves, TypeOK
  <2>2. life.rev \in Nat /\ life.gen \in Nat
    BY <2>1 DEF Life
  <2>3. CASE life' = life
    BY <2>1, <2>2, <2>3
  <2>4. CASE life' = Suspended(a)
    BY <1>1, <2>2, <2>4, SuspendedIs
  <2>5. CASE life' = Settled
    BY <1>1, <2>2, <2>5, SettledIs
  <2>6. CASE life' = Activated
    BY <1>1, <2>2, <2>6, ActivatedIs
  <2>. QED BY <2>1, <2>3, <2>4, <2>5, <2>6 DEF LifeMoves
<1>4. Over => life' = life
  BY DEF Moves, LifeMoves, CanSuspend, CanSettle, CanReactivate, Over
<1>5. TypeOK'
  <2>1. run' \in [Attempt -> [Session -> Saga]]
    BY <1>1, RunUpdate
  <2>2. /\ row' \in [Attempt -> Row \cup {None}]
        /\ terminal' \in [Attempt -> {"none", "succeeded", "failed"}]
    BY DEF Moves, RowMoves, EventMoves
  <2>3. verdict' \in [Attempt -> {"none", "yes", "no"}]
    BY <1>1 DEF Moves, VerdictMoves, TypeOK
  <2>4. fact' \in Attempt \cup {None} /\ rejections' \subseteq Rejection
    BY <1>1 DEF Moves, FactMoves, RejectionMoves, TypeOK
  <2>5. faults' \in 0 .. MaxFaults
    BY <1>1, CompletionAssumption DEF Moves, TypeOK
  <2>. QED BY <1>1, <1>2, <1>3, <2>1, <2>2, <2>3, <2>4, <2>5 DEF TypeOK
<1>6. \A b \in Attempt : row[b] # None =>
        /\ row'[b] # None /\ row'[b].gen = row[b].gen /\ row'[b].rev = row[b].rev
        /\ row'[b].command = row[b].command
  BY DEF Moves, RowMoves
<1>7. Over => Over'
  BY <1>4 DEF Over
<1>. QED BY <1>1, <1>2, <1>3, <1>4, <1>5, <1>6, <1>7, RunUpdate, ZenonT(90)

LEMMA MoveKeepsRows ==
  ASSUME Inv, NEW a \in Attempt, NEW s \in Session, NEW x \in Saga, Moves(a, s, x)
  PROVE  RowsFit' /\ SagasFit'
<1>2. /\ TypeOK /\ ~At(a, s, "idle")
      /\ x.at \notin DraftStep \cup {"idle"} => row'[a] # None
      /\ x.at \in DraftStep => Drafting(a, s) /\ ~At(a, s, "draft")
      /\ RowMoves(a, s)
  BY DEF Moves, StepMoves, Drafts, At, Inv
<1>3. SagaFits(a, s)
  BY <1>2, SagaStands
<1>4. \A t \in Session : seen[t].gen \in Nat /\ seen[t].rev \in Nat
  BY <1>2 DEF TypeOK
<1>5. row[a] = None /\ row'[a] # None =>
        /\ At(a, s, "draft")
        /\ row'[a].gen = Projection(s).gen /\ row'[a].rev = Projection(s).rev
  BY <1>2 DEF RowMoves
<1>6. /\ Projection(s).gen <= life.gen /\ Projection(s).rev <= life.rev
      /\ s < session => Projection(s).gen = seen[s].gen
  <2>1. CASE s = session
    BY <1>2, <2>1, MoveFacts DEF Projection, Session, TypeOK
  <2>2. CASE s # session
    <3>1. s < session
      BY <1>2, <1>3, <2>2 DEF SagaFits, Session, TypeOK
    <3>2. Projection(s) = seen[s]
      BY <2>2 DEF Projection
    <3>. QED BY <1>3, <1>4, <3>1, <3>2, MoveFacts DEF SagaFits, Past, Inv, SagasFit
  <2>. QED BY <2>1, <2>2
<1>7. RowsFit'
  <2> SUFFICES ASSUME NEW b \in Attempt, row'[b] # None
               PROVE  row'[b].gen <= life'.gen /\ row'[b].rev <= life'.rev
    BY DEF RowsFit
  <2>1. CASE row[b] # None
    <3>1. row[b].gen \in Nat /\ row[b].rev \in Nat
      BY <1>2, <2>1 DEF TypeOK, Row
    <3>. QED BY <2>1, <3>1, MoveFacts DEF Inv, RowsFit
  <2>2. CASE row[b] = None
    <3>1. b = a
      BY <1>2, <2>2 DEF RowMoves
    <3>2. row'[a].rev \in Nat /\ row'[a].gen \in Nat
      BY <3>1, MoveFacts DEF TypeOK, Row
    <3>. QED BY <1>5, <1>6, <2>2, <3>1, <3>2, MoveFacts
  <2>. QED BY <2>1, <2>2
<1>8. SagasFit'
  <2>1. \A t \in Session : seen'[t].rev <= life'.rev
    BY <1>4, MoveFacts DEF Inv, SagasFit
  <2>2. \A t \in Session : Past(t) => Past(t)'
    BY MoveFacts DEF Past
  <2>3. ASSUME NEW b \in Attempt, NEW t \in Session, ~At(b, t, "idle")'
        PROVE  SagaFits(b, t)'
    <3>1. CASE <<b, t>> = <<a, s>>
      <4>1. b = a /\ t = s /\ run'[a][s] = x
        BY <3>1, MoveFacts
      <4>2. CASE x.at \in DraftStep
        <5>1. row'[a] = None /\ \A u \in Session \ {s} : At(a, u, "idle")
          BY <1>2, <1>3, <1>5, <4>2 DEF SagaFits
        <5>2. \A u \in Session \ {s} : run'[a][u].at = "idle"
          BY <5>1, MoveFacts DEF At
        <5>. QED BY <1>3, <2>2, <4>1, <4>2, <5>1, <5>2, MoveFacts DEF SagaFits, At
      <4>3. CASE x.at \notin DraftStep
        <5>1. row'[a] # None
          BY <1>2, <2>3, <4>1, <4>3 DEF At
        <5>2. s < session => Past(s)' /\ row'[a].gen <= seen[s].gen
          BY <1>2, <1>3, <1>4, <1>5, <1>6, <2>2, <5>1, MoveFacts DEF SagaFits
        <5>. QED BY <1>3, <4>1, <4>3, <5>1, <5>2, MoveFacts DEF SagaFits
      <4>. QED BY <4>2, <4>3
    <3>2. CASE <<b, t>> # <<a, s>>
      <4>1. run'[b][t] = run[b][t] /\ ~At(b, t, "idle") /\ SagaFits(b, t)
        BY <2>3, <3>2, MoveFacts, SagaStands DEF At
      <4>2. CASE Drafting(b, t)
        <5>1. b # a
          BY <1>2, <3>2, <4>1, <4>2 DEF SagaFits
        <5>2. row'[b] = row[b] /\ \A u \in Session : run'[b][u] = run[b][u]
          BY <1>2, <5>1, MoveFacts DEF RowMoves
        <5>. QED BY <2>2, <4>1, <4>2, <5>2, MoveFacts DEF SagaFits, At
      <4>3. CASE ~Drafting(b, t)
        BY <2>2, <4>1, <4>3, MoveFacts DEF SagaFits, At
      <4>. QED BY <4>2, <4>3
    <3>. QED BY <3>1, <3>2
  <2>. QED BY <2>1, <2>3 DEF SagasFit
<1>. QED BY <1>7, <1>8

LEMMA MoveKeepsCommands ==
  ASSUME Inv, NEW a \in Attempt, NEW s \in Session, NEW x \in Saga, Moves(a, s, x)
  PROVE  CommandsFit' /\ OneCommandAtATime'
<1>1. /\ TypeOK /\ StepMoves(a, s, x) /\ EventMoves(a, s) /\ RowMoves(a, s)
      /\ CommandsFit /\ OneCommandAtATime
  BY DEF Moves, Inv
<1>2. \A b \in Attempt, t \in Session :
        /\ <<b, t>> # <<a, s>> => run'[b][t] = run[b][t]
        /\ <<b, t>> = <<a, s>> => run'[b][t] = x
  BY MoveFacts
<1>3. OneCommandAtATime'
  BY <1>1, <1>2 DEF OneCommandAtATime, StepMoves, Active, At
<1>4. ASSUME NEW b \in Attempt, NEW t \in Session, run'[b][t].at = "shell"
      PROVE  terminal'[b] = "none"
  <2>1. CASE b # a
    BY <1>1, <1>2, <1>4, <2>1 DEF EventMoves, CommandsFit, At
  <2>2. CASE b = a
    <3>1. CASE t = s
      <4>1. x.at = "shell"
        BY <1>2, <1>4, <2>2, <3>1
      <4>. QED BY <1>1, <2>2, <4>1 DEF StepMoves
    <3>2. CASE t # s
      <4>1. At(a, t, "shell") /\ terminal[a] = "none"
        BY <1>1, <1>2, <1>4, <2>2, <3>2 DEF CommandsFit, At
      <4>2. Active(a) /\ ~At(a, s, "shell")
        BY <1>1, <3>2, <4>1 DEF Active, OneCommandAtATime
      <4>. QED BY <1>1, <2>2, <4>1, <4>2 DEF EventMoves
    <3>. QED BY <3>1, <3>2
  <2>. QED BY <2>1, <2>2
<1>5. ASSUME NEW b \in Attempt, terminal[b] = "succeeded"
      PROVE  terminal'[b] = "succeeded"
  BY <1>1, <1>5 DEF EventMoves, CommandsFit
<1>6. ASSUME NEW b \in Attempt, NEW t \in Session, Convinced(b, t)', row'[b].command
      PROVE  terminal'[b] = "succeeded"
  <2>1. CASE <<b, t>> # <<a, s>>
    <3>1. Convinced(b, t) /\ ~At(b, t, "idle") /\ ~Drafting(b, t)
      BY <1>2, <1>6, <2>1 DEF Convinced, At
    <3>2. row[b] # None
      BY <3>1, SagaStands
    <3>3. row[b].command
      BY <1>6, <3>2, MoveFacts
    <3>. QED BY <1>1, <1>5, <3>1, <3>3 DEF CommandsFit
  <2>2. CASE <<b, t>> = <<a, s>>
    <3>1. x.at \in {"propose", "suspend", "ask", "commit"}
      BY <1>2, <1>6, <2>2 DEF Convinced
    <3>2. x.at # "propose" => Convinced(a, s)
      BY <1>1, <3>1 DEF Moves, LifeMoves, StepMoves, Convinced, At
    <3>3. row[a] # None
      <4>1. ~At(a, s, "idle") /\ ~Drafting(a, s)
        <5>1. CASE x.at = "propose"
          BY <1>1, <5>1 DEF StepMoves, At
        <5>2. CASE x.at # "propose"
          BY <3>2, <5>2 DEF Convinced, At
        <5>. QED BY <5>1, <5>2
      <4>. QED BY <4>1, SagaStands
    <3>4. row[a].command
      BY <1>6, <2>2, <3>3, MoveFacts
    <3>5. terminal[a] = "succeeded"
      BY <1>1, <3>2, <3>4 DEF StepMoves, CommandsFit
    <3>. QED BY <1>5, <2>2, <3>5
  <2>. QED BY <2>1, <2>2
<1>7. CommandsFit'
  BY <1>4, <1>6 DEF CommandsFit, At
<1>. QED BY <1>3, <1>7

LEMMA MoveKeepsDecisions ==
  ASSUME Inv, NEW a \in Attempt, NEW s \in Session, NEW x \in Saga, Moves(a, s, x)
  PROVE  Decisions'
<1>1. /\ TypeOK /\ StepMoves(a, s, x) /\ LifeMoves(a, s, x) /\ VerdictMoves(a, s)
      /\ FactMoves(a, s) /\ RejectionMoves(a, s) /\ VerdictsFit /\ FactIsEarned
      /\ RowsFit
  BY DEF Moves, Inv, Decisions
<1>2. \A b \in Attempt, t \in Session :
        /\ <<b, t>> # <<a, s>> => run'[b][t] = run[b][t]
        /\ <<b, t>> = <<a, s>> => run'[b][t] = x
  BY MoveFacts
<1>3. \A b \in Attempt : row[b] # None => row[b].rev \in Nat /\ row[b].rev <= life.rev
  BY <1>1 DEF RowsFit, TypeOK, Row
\* A verdict is given once, by the saga that asks in the open session.
<1>4. \A b \in Attempt : verdict[b] # "none" => verdict'[b] = verdict[b]
  BY <1>1 DEF VerdictMoves, VerdictsFit, TypeOK
<1>5. ASSUME NEW b \in Attempt, NEW t \in Session, run'[b][t].at = "ask"
      PROVE  row'[b].rev < life'.rev
  <2>1. CASE <<b, t>> # <<a, s>>
    <3>1. At(b, t, "ask") /\ ~At(b, t, "idle") /\ ~Drafting(b, t)
      BY <1>2, <1>5, <2>1 DEF At
    <3>2. row[b] # None /\ row[b].rev < life.rev
      BY <1>1, <3>1, SagaStands DEF VerdictsFit
    <3>. QED BY <1>3, <3>2, MoveFacts
  <2>2. CASE <<b, t>> = <<a, s>>
    <3>1. x.at = "ask" /\ b = a
      BY <1>2, <1>5, <2>2
    <3>2. At(a, s, "suspend") /\ life' = Suspended(a)
      BY <1>1, <3>1 DEF LifeMoves
    <3>3. row[a] # None
      BY <3>2, SagaStands DEF At
    <3>4. life'.rev = life.rev + 1
      BY <1>1, <3>2, SuspendedIs
    <3>. QED BY <1>3, <3>1, <3>3, <3>4, MoveFacts
  <2>. QED BY <2>1, <2>2
<1>6. ASSUME NEW b \in Attempt, NEW t \in Session
      PROVE  /\ run'[b][t].at = "commit" => verdict'[b] = "yes"
             /\ run'[b][t].at = "record" => verdict'[b] = "no"
             /\ run'[b][t].at = "settle" => fact' # None
  BY <1>1, <1>2, <1>4 DEF StepMoves, VerdictsFit, FactMoves, At
<1>7. ASSUME NEW b \in Attempt, verdict'[b] # "none"
      PROVE  row'[b] # None /\ row'[b].rev < life'.rev
  <2>1. row[b] # None /\ row[b].rev < life.rev
    <3>1. CASE verdict[b] # "none"
      BY <1>1, <3>1 DEF VerdictsFit
    <3>2. CASE verdict[b] = "none"
      <4>1. b = a /\ At(a, s, "ask")
        BY <1>1, <1>7, <3>2 DEF VerdictMoves, TypeOK
      <4>2. row[a] # None
        BY <4>1, SagaStands DEF At
      <4>. QED BY <1>1, <4>1, <4>2 DEF VerdictsFit
    <3>. QED BY <3>1, <3>2
  <2>. QED BY <1>3, <2>1, MoveFacts
<1>8. ASSUME NEW b \in Attempt,
             run'[b][session].at = "suspend" \/ run'[b][session].at = "ask"
      PROVE  verdict'[b] = "none"
  <2>1. session \in Session
    BY <1>1 DEF TypeOK
  <2>2. verdict[b] = "none"
    <3>1. CASE <<b, session>> # <<a, s>>
      BY <1>1, <1>2, <1>8, <2>1, <3>1 DEF VerdictsFit, At
    <3>2. CASE <<b, session>> = <<a, s>>
      <4>1. b = a /\ s = session /\ (x.at = "suspend" \/ x.at = "ask")
        BY <1>2, <1>8, <2>1, <3>2
      <4>2. CASE x.at = "ask"
        BY <1>1, <4>1, <4>2 DEF LifeMoves, VerdictsFit
      <4>3. CASE x.at = "suspend"
        <5>1. At(a, s, "propose") /\ life.rev = row[a].rev
          BY <1>1, <4>1, <4>3 DEF StepMoves, Projection
        <5>2. row[a] # None
          BY <5>1, SagaStands DEF At
        <5>. QED BY <1>1, <1>3, <4>1, <5>1, <5>2 DEF VerdictsFit
      <4>. QED BY <4>1, <4>2, <4>3
    <3>. QED BY <3>1, <3>2
  <2>3. CASE b # a
    BY <1>1, <2>2, <2>3 DEF VerdictMoves, TypeOK
  <2>4. CASE b = a
    <3>1. ~(At(a, s, "ask") /\ s = session)
      BY <1>1, <1>2, <1>8, <2>4 DEF StepMoves, LifeMoves, At
    <3>. QED BY <1>1, <2>2, <2>4, <3>1 DEF VerdictMoves
  <2>. QED BY <2>3, <2>4
<1>9. \A r \in rejections' : verdict'[r.by] # "none"
  <2>1. \A r \in rejections : r.by \in Attempt /\ verdict'[r.by] # "none"
    BY <1>1, <1>4 DEF VerdictsFit, TypeOK, Rejection
  <2>2. At(a, s, "record") => verdict'[a] # "none"
    BY <1>1, <1>4 DEF VerdictsFit
  <2>. QED BY <1>1, <2>1, <2>2 DEF RejectionMoves
<1>10. VerdictsFit'
  BY <1>5, <1>6, <1>7, <1>8, <1>9, MoveFacts DEF VerdictsFit, At
<1>11. fact' # None => /\ verdict'[fact'] = "yes"
                       /\ row'[fact'].command => terminal'[fact'] = "succeeded"
  <2>1. CASE fact' = fact /\ fact # None
    <3>1. /\ fact \in Attempt /\ verdict[fact] = "yes"
          /\ row[fact].command => terminal[fact] = "succeeded"
      BY <1>1, <2>1 DEF FactIsEarned, TypeOK
    <3>2. row[fact] # None /\ verdict'[fact] = "yes"
      BY <1>1, <1>4, <3>1 DEF VerdictsFit
    <3>3. terminal[fact] = "succeeded" => terminal'[fact] = "succeeded"
      BY <3>1 DEF Moves, EventMoves, Inv, CommandsFit
    <3>. QED BY <2>1, <3>1, <3>2, <3>3, MoveFacts
  <2>2. CASE fact' = a /\ At(a, s, "commit")
    <3>1. verdict[a] = "yes" /\ row[a] # None
      BY <1>1, <2>2, SagaStands DEF VerdictsFit, At
    <3>2. row[a].command => terminal[a] = "succeeded"
      BY <2>2 DEF Inv, CommandsFit, Convinced, At
    <3>3. terminal[a] = "succeeded" => terminal'[a] = "succeeded"
      BY DEF Moves, EventMoves, Inv, CommandsFit
    <3>. QED BY <1>4, <2>2, <3>1, <3>2, <3>3, MoveFacts
  <2>. QED BY <1>1, <2>1, <2>2 DEF FactMoves
<1>12. life'.state = "completed" => fact' # None
  <2>1. fact # None => fact' # None
    BY <1>1 DEF FactMoves
  <2>2. CASE life' = life
    BY <1>1, <2>1, <2>2 DEF FactIsEarned
  <2>3. CASE life' = Suspended(a)
    BY <1>1, <2>3, SuspendedIs
  <2>4. CASE At(a, s, "settle")
    BY <1>1, <2>1, <2>4 DEF VerdictsFit
  <2>5. CASE life' = Activated
    BY <1>1, <2>5, ActivatedIs
  <2>. QED BY <1>1, <2>2, <2>3, <2>4, <2>5 DEF LifeMoves
<1>. QED BY <1>10, <1>11, <1>12 DEF Decisions, FactIsEarned

\* Only a saga of the open session moves the lifecycle, and not while the
\* session is restored, waits, or has failed.
LEMMA MovesOfLife ==
  ASSUME Inv, NEW a \in Attempt, NEW s \in Session, NEW x \in Saga, Moves(a, s, x)
  PROVE  /\ life' = life \/ (/\ s = session
                             /\ place = "up" \/ (place = "aborting" /\ life' = Settled))
         /\ Restoring => s # session
         /\ (Restoring \/ place = "waiting") /\ s # session => Over
<1>1. /\ TypeOK /\ LifeMoves(a, s, x) /\ ~At(a, s, "idle") /\ PlacesFit /\ HoldsFit
  BY DEF Moves, StepMoves, Inv, Sessions
<1>2. Restoring => s # session
  BY <1>1 DEF PlacesFit
<1>3. s # session => s < session
  BY <1>1, SagaStands DEF SagaFits, Session, TypeOK
<1>4. (Restoring \/ place = "waiting") /\ s # session => Over
  BY <1>1, <1>3 DEF PlacesFit
<1>5. ASSUME life' # life PROVE s = session /\ place \in {"up", "aborting", "waiting", "failed", "closed"}
  BY <1>1, <1>2, <1>5, ClosedSessionsMoveNothing DEF Restoring, TypeOK, Place
<1>6. ASSUME life' # life PROVE place # "closed"
  BY <1>1, <1>6, MoveFacts DEF PlacesFit
<1>7. ASSUME life' # life, place \in {"waiting", "failed"} PROVE FALSE
  <2>1. s = session
    BY <1>5, <1>7
  <2>2. ~Holds(a)
    BY <1>1, <1>7 DEF HoldsFit, Leaving
  <2>3. At(a, s, "suspend") /\ CanSuspend
    BY <1>1, <1>7, <2>1, <2>2 DEF LifeMoves, Holds, At
  <2>. QED BY <1>1, <1>7, <2>1, <2>3 DEF CanSuspend, PlacesFit, At
<1>8. ASSUME life' # life, place = "aborting" PROVE life' = Settled
  BY <1>1, <1>8 DEF PlacesFit, Leaving, LifeMoves, CanSuspend, CanReactivate, Over
<1>. QED BY <1>2, <1>4, <1>5, <1>6, <1>7, <1>8

LEMMA MoveKeepsPlaces ==
  ASSUME Inv, NEW a \in Attempt, NEW s \in Session, NEW x \in Saga, Moves(a, s, x)
  PROVE  PlacesFit'
<1>1. /\ TypeOK /\ PlacesFit /\ ~At(a, s, "idle") /\ place' = place /\ session' = session
  BY MoveFacts DEF Moves, StepMoves, Inv, Sessions
<1>2. \A b \in Attempt, t \in Session : <<b, t>> # <<a, s>> => run'[b][t] = run[b][t]
  BY MoveFacts
<1>3. Leaving' => (life.fenced \/ Over)'
  <2>1. CASE life' = life
    BY <1>1, <2>1 DEF PlacesFit, Leaving, Over
  <2>2. CASE life' = Settled
    BY <1>1, <2>2, SettledIs DEF Over
  <2>3. CASE place = "up"
    BY <1>1, <2>3 DEF Leaving
  <2>. QED BY <2>1, <2>2, <2>3, MovesOfLife
<1>4. place' = "closed" => Over'
  BY <1>1, MoveFacts DEF PlacesFit
<1>5. place' \in {"reconcile", "waiting"} => life'.state # "active"
  BY <1>1, MovesOfLife DEF PlacesFit
<1>6. session \in Session
  BY <1>1 DEF TypeOK
<1>7. Restoring' => \A b \in Attempt : At(b, session, "idle")'
  BY <1>1, <1>2, <1>6, MovesOfLife DEF PlacesFit, Restoring, At
<1>8. place' = "failed" => life'.fenced \/ \A b \in Attempt : At(b, session, "idle")'
  <2> SUFFICES ASSUME place = "failed"
               PROVE  life'.fenced \/ \A b \in Attempt : At(b, session, "idle")'
    BY <1>1
  <2>1. life' = life
    BY MovesOfLife
  <2>2. CASE life.fenced
    BY <2>1, <2>2
  <2>3. CASE ~life.fenced
    <3>1. s # session
      BY <1>1, <2>3 DEF PlacesFit
    <3>. QED BY <1>1, <1>2, <1>6, <2>3, <3>1 DEF PlacesFit, At
  <2>. QED BY <2>2, <2>3
<1>9. Restoring' \/ place' = "waiting" =>
        Over' \/ \A b \in Attempt, t \in Session : t < session' => At(b, t, "idle")'
  <2> SUFFICES ASSUME Restoring \/ place = "waiting", ~Over
               PROVE  \A b \in Attempt, t \in Session : t < session => At(b, t, "idle")'
    BY <1>1, MoveFacts DEF Restoring
  <2>1. s = session
    BY MovesOfLife
  <2>. QED BY <1>1, <1>2, <1>6, <2>1 DEF PlacesFit, At, Session
<1>. QED BY <1>1, <1>3, <1>4, <1>5, <1>7, <1>8, <1>9 DEF PlacesFit

LEMMA MoveKeepsHolds ==
  ASSUME Inv, NEW a \in Attempt, NEW s \in Session, NEW x \in Saga, Moves(a, s, x)
  PROVE  LifeFits' /\ HoldsFit'
<1>1. /\ TypeOK /\ PlacesFit /\ HoldsFit /\ LifeFits
      /\ StepMoves(a, s, x) /\ LifeMoves(a, s, x)
      /\ place' = place /\ session' = session /\ session \in Session
  BY MoveFacts DEF Moves, Inv, Sessions, TypeOK
<1>2. \A b \in Attempt, t \in Session :
        /\ <<b, t>> # <<a, s>> => run'[b][t] = run[b][t]
        /\ <<b, t>> = <<a, s>> => run'[b][t] = x
  BY MoveFacts
<1>3. LifeFits'
  <2>1. CASE life' = life
    <3>1. life.awaits \in Attempt \cup {None}
      BY <1>1 DEF TypeOK, Life
    <3>. QED BY <1>1, <2>1, <3>1, MoveFacts DEF LifeFits
  <2>2. CASE life' = Suspended(a) /\ At(a, s, "suspend") /\ CanSuspend /\ life.gen = row[a].gen
    <3>1. row[a] # None
      BY <2>2, SagaStands DEF At
    <3>. QED BY <1>1, <2>2, <3>1, SuspendedIs, MoveFacts DEF LifeFits, CanSuspend
  <2>3. CASE life' = Settled
    BY <1>1, <2>3, SettledIs DEF LifeFits
  <2>4. CASE life' = Activated
    BY <1>1, <2>4, ActivatedIs DEF LifeFits
  <2>. QED BY <1>1, <2>1, <2>2, <2>3, <2>4 DEF LifeMoves
<1>4. HoldsFit'
  <2> SUFFICES ASSUME NEW b \in Attempt, Holds(b)', ~Leaving
               PROVE  /\ place = "up" /\ life'.state = "suspended" /\ life'.awaits = b
                      /\ life'.gen = row'[b].gen /\ life'.rev = run'[b][session].rev
    BY <1>1 DEF HoldsFit, Leaving
  <2>1. CASE b = a /\ s = session
    <3>1. x.at \in {"ask", "commit", "settle", "record", "reactivate"}
          /\ run'[b][session] = x
      BY <1>1, <1>2, <2>1 DEF Holds
    <3>2. CASE x.at = "ask"
      <4>1. /\ life' = Suspended(a) /\ At(a, s, "suspend") /\ life.gen = row[a].gen
            /\ x.rev = life.rev + 1
        BY <1>1, <3>2 DEF LifeMoves
      <4>2. /\ life'.state = "suspended" /\ life'.awaits = a
            /\ life'.gen = life.gen /\ life'.rev = life.rev + 1
        BY <1>1, <4>1, SuspendedIs
      <4>3. place = "up"
        <5>1. life' # life
          BY <4>2, MoveFacts
        <5>. QED BY <5>1, MovesOfLife DEF Leaving
      <4>4. row'[a].gen = row[a].gen
        BY <4>1, SagaStands, MoveFacts DEF At
      <4>. QED BY <2>1, <3>1, <4>1, <4>2, <4>3, <4>4
    <3>3. CASE x.at # "ask"
      <4>1. Holds(a) /\ ~At(a, s, "idle") /\ ~Drafting(a, s) /\ x.rev = run[a][s].rev
        BY <1>1, <2>1, <3>1, <3>3 DEF StepMoves, Holds, At
      <4>2. life' = life
        BY <1>1, <3>1, <3>3 DEF LifeMoves
      <4>3. row[a] # None /\ row'[a].gen = row[a].gen
        BY <4>1, SagaStands, MoveFacts
      <4>. QED BY <1>1, <2>1, <3>1, <4>1, <4>2, <4>3 DEF HoldsFit
    <3>. QED BY <3>2, <3>3
  <2>2. CASE ~(b = a /\ s = session)
    <3>1. run'[b][session] = run[b][session] /\ Holds(b)
      BY <1>1, <1>2, <2>2 DEF Holds
    <3>2. /\ place = "up" /\ life.state = "suspended" /\ life.awaits = b
          /\ life.gen = row[b].gen /\ life.rev = run[b][session].rev
      BY <1>1, <3>1 DEF HoldsFit
    <3>3. row[b] # None
      BY <1>1, <3>1, SagaStands DEF Holds, At
    <3>4. life' = life
      <4> SUFFICES ASSUME life' # life PROVE FALSE
        OBVIOUS
      <4>1. s = session
        BY MovesOfLife
      <4>2. At(a, s, "settle") \/ At(a, s, "reactivate")
        BY <1>1, <3>2 DEF LifeMoves, CanSuspend
      <4>3. Holds(a)
        BY <4>1, <4>2 DEF Holds, At
      <4>. QED BY <1>1, <2>2, <3>2, <4>1, <4>3 DEF HoldsFit
    <3>. QED BY <3>1, <3>2, <3>3, <3>4, MoveFacts
  <2>. QED BY <2>1, <2>2
<1>. QED BY <1>3, <1>4

\* A saga of a closed session acts on an answer only when nobody waits for it.
LEMMA ClosedSessionsAreNotAwaited ==
  ASSUME Inv, NEW a \in Attempt, NEW s \in Session, s # session,
         ~At(a, s, "idle"), ~Drafting(a, s)
  PROVE  life.awaits # a
<1>1. TypeOK /\ LifeFits
  BY DEF Inv, Sessions
<1>2. row[a] \in Row /\ row[a] # None /\ SagaFits(a, s) /\ a # None
  BY SagaStands, NoneIsNothing
<1>3. Past(s) /\ row[a].gen <= seen[s].gen
  BY <1>1, <1>2 DEF SagaFits, Session, TypeOK
<1>4. life.gen \in Nat /\ seen[s].gen \in Nat /\ row[a].gen \in Nat
  BY <1>1, <1>2 DEF TypeOK, Life, Row
<1>. QED BY <1>1, <1>2, <1>3, <1>4 DEF LifeFits, Past, Over

LEMMA MoveKeepsRejections ==
  ASSUME Inv, NEW a \in Attempt, NEW s \in Session, NEW x \in Saga, Moves(a, s, x)
  PROVE  RejectionsFit' /\ RestoreFits'
<1>1. /\ TypeOK /\ PlacesFit /\ HoldsFit /\ LifeFits /\ RejectionsFit /\ RestoreFits
      /\ VerdictsFit /\ LifeMoves(a, s, x) /\ FactMoves(a, s) /\ RejectionMoves(a, s)
      /\ place' = place /\ session' = session
      /\ faults' \in faults .. MaxFaults
  BY MoveFacts DEF Moves, Inv, Sessions, Decisions
<1>2. \A r \in rejections' : r.by \in Attempt /\ r.by # None
  BY MoveFacts, NoneIsNothing DEF TypeOK, Rejection
\* A rejection written now is known to whoever is awaited.
<1>3. ASSUME At(a, s, "record"), life.awaits = a
      PROVE  /\ s = session /\ place = "up"
             /\ life.gen = row[a].gen /\ life.rev = run[a][s].rev
  <2>1. s = session
    BY <1>3, ClosedSessionsAreNotAwaited DEF At
  <2>2. Holds(a) /\ a # None
    BY <1>3, <2>1, NoneIsNothing DEF Holds, At
  <2>3. ~Leaving
    BY <1>1, <1>3, <2>2 DEF PlacesFit, LifeFits, Over
  <2>. QED BY <1>1, <2>1, <2>2, <2>3 DEF HoldsFit
<1>4. RejectionsFit'
  <2> SUFFICES ASSUME NEW r \in rejections', life'.awaits = r.by
               PROVE  r.gen = life'.gen /\ r.rev = life'.rev
    BY DEF RejectionsFit
  <2>1. CASE life' = life
    BY <1>1, <1>3, <2>1 DEF RejectionsFit, RejectionMoves
  <2>2. CASE life' = Suspended(a) /\ At(a, s, "suspend") /\ life' # life
    <3>1. r \in rejections /\ r.by = a
      BY <1>1, <2>2, SuspendedIs DEF RejectionMoves, At
    <3>2. s = session
      BY <2>2, MovesOfLife
    <3>. QED BY <1>1, <2>2, <3>1, <3>2 DEF VerdictsFit
  <2>3. CASE life' = Settled
    BY <1>1, <1>2, <2>3, SettledIs
  <2>4. CASE life' = Activated
    BY <1>1, <1>2, <2>4, ActivatedIs
  <2>. QED BY <1>1, <2>1, <2>2, <2>3, <2>4 DEF LifeMoves
<1>5. place \in {"recover", "suspend", "reconcile", "waiting"} => life' = life
  BY MovesOfLife DEF Restoring
<1>6. place' \in {"recover", "suspend", "reconcile", "waiting"} => (fact' # None => Over')
  <2> SUFFICES ASSUME place \in {"recover", "suspend", "reconcile", "waiting"}, fact' # None
               PROVE  Over
    BY <1>1, MoveFacts
  <2>1. CASE fact # None
    BY <1>1, <2>1 DEF RestoreFits
  <2>2. CASE At(a, s, "commit")
    <3>1. s # session
      BY <1>1, <2>2 DEF HoldsFit, Holds, At, Leaving
    <3>. QED BY <3>1, MovesOfLife DEF Restoring
  <2>. QED BY <1>1, <2>1, <2>2 DEF FactMoves
<1>7. place' \in {"suspend", "reconcile", "waiting"} /\ faults' = 0 =>
        \A r \in rejections' : life'.awaits # r.by
  <2> SUFFICES ASSUME place \in {"suspend", "reconcile", "waiting"}, faults' = 0,
                      NEW r \in rejections'
               PROVE  life.awaits # r.by
    BY <1>1, <1>5
  <2>1. faults = 0
    BY <1>1 DEF TypeOK
  <2>2. CASE r \in rejections
    BY <1>1, <2>1, <2>2 DEF RestoreFits
  <2>3. CASE At(a, s, "record") /\ r.by = a
    BY <1>3, <2>3
  <2>. QED BY <1>1, <2>2, <2>3 DEF RejectionMoves
<1>8. RestoreFits'
  BY <1>6, <1>7 DEF RestoreFits
<1>. QED BY <1>4, <1>8

LEMMA SagaKeepsInv ==
  ASSUME Inv, NEW a \in Attempt, NEW s \in Session, SagaStep(a, s)
  PROVE  Inv'
<1>1. PICK x \in Saga : Moves(a, s, x)
  BY SagaMoves
<1>. QED BY <1>1, MoveFacts, MoveKeepsRows, MoveKeepsCommands, MoveKeepsDecisions,
            MoveKeepsPlaces, MoveKeepsHolds, MoveKeepsRejections DEF Inv, Sessions

--------------------------------------------------------------------------------
(* Steps of the open session *)

\* Steps that move the lifecycle and the session's place, and no saga.
LifeSteps(next) ==
    /\ next \in Life /\ life' = next
    /\ next.rev >= life.rev
    /\ \/ next.gen = life.gen /\ (Over => Over')
       \/ next.gen > life.gen
    /\ next.state = "completed" => fact # None
    /\ place' \in Place /\ faults' \in faults .. MaxFaults
    /\ UNCHANGED <<store, session, seen, run, work, verdict>>

LEMMA LifeStepFacts ==
  ASSUME Inv, NEW next, LifeSteps(next)
  PROVE  /\ TypeOK' /\ RowsFit' /\ SagasFit'
         /\ CommandsFit' /\ OneCommandAtATime' /\ Decisions'
<1>1. /\ TypeOK
      /\ row' = row /\ fact' = fact /\ rejections' = rejections /\ terminal' = terminal
      /\ session' = session /\ seen' = seen /\ run' = run /\ verdict' = verdict
      /\ version' = version /\ tree' = tree /\ tool' = tool /\ slipped' = slipped
  BY DEF Inv, LifeSteps, store, work
<1>2. TypeOK'
  <2>1. faults' \in 0 .. MaxFaults
    BY <1>1, CompletionAssumption DEF LifeSteps, TypeOK
  <2>. QED BY <1>1, <2>1 DEF LifeSteps, TypeOK
<1>3. /\ life.rev \in Nat /\ life.gen \in Nat /\ life'.rev \in Nat /\ life'.gen \in Nat
      /\ life'.rev >= life.rev /\ life'.gen >= life.gen
  BY <1>1, <1>2 DEF LifeSteps, TypeOK, Life
<1>5. \A a \in Attempt : row[a] # None => row[a].gen \in Nat /\ row[a].rev \in Nat
  BY <1>1 DEF TypeOK, Row
<1>6. RowsFit'
  BY <1>1, <1>3, <1>5 DEF Inv, RowsFit
<1>7. \A s \in Session : seen[s].rev \in Nat /\ seen[s].gen \in Nat
  BY <1>1 DEF TypeOK
<1>8. \A s \in Session : Past(s) => Past(s)'
  BY <1>1, <1>3, <1>7 DEF Past, LifeSteps
<1>9. SagasFit'
  BY <1>1, <1>3, <1>7, <1>8 DEF Inv, SagasFit, SagaFits, At
<1>10. CommandsFit' /\ OneCommandAtATime'
  BY <1>1 DEF Inv, CommandsFit, OneCommandAtATime, At, Convinced
<1>11. \A a \in Attempt : row[a] # None /\ row[a].rev < life.rev => row[a].rev < life'.rev
  BY <1>3, <1>5
<1>12. \A a \in Attempt, s \in Session : At(a, s, "ask") => row[a] # None
  BY SagaStands DEF At
<1>13. VerdictsFit'
  BY <1>1, <1>11, <1>12 DEF Inv, Decisions, VerdictsFit, At
<1>14. FactIsEarned'
  BY <1>1 DEF Inv, Decisions, FactIsEarned, LifeSteps
<1>. QED BY <1>2, <1>6, <1>9, <1>10, <1>13, <1>14 DEF Decisions

LEMMA SettleAgainKeepsInv ==
  ASSUME Inv, SettleAgain
  PROVE  Inv'
<1>1. /\ TypeOK /\ Sessions /\ life' = Settled /\ place = "up" /\ place' = place
      /\ life.state = "active" /\ fact # None /\ faults' = faults
      /\ UNCHANGED <<store, session, seen, run, work, verdict>>
  BY DEF SettleAgain, Inv, Admitted, opened
<1>2. /\ life' \in Life /\ life'.gen = life.gen /\ life'.rev = life.rev + 1
      /\ life'.state = "completed" /\ life'.awaits = None
  BY <1>1, SettledIs
<1>3. life.rev \in Nat
  BY <1>1 DEF TypeOK, Life
<1>4. LifeSteps(life')
  BY <1>1, <1>2, <1>3, FaultsMove DEF LifeSteps, Over, TypeOK
<1>5. \A a \in Attempt : ~Holds(a)
  BY <1>1 DEF Sessions, HoldsFit, Leaving
<1>6. \A r \in rejections : r.by # None
  BY <1>1, NoneIsNothing DEF TypeOK, Rejection
<1>7. Sessions'
  BY <1>1, <1>2, <1>5, <1>6
     DEF Sessions, LifeFits, PlacesFit, HoldsFit, RejectionsFit, RestoreFits,
         Restoring, Leaving, Holds, store, Over
<1>. QED BY <1>4, <1>7, LifeStepFacts DEF Inv

\* While the task is restored or waits no saga of the open session holds it.
LEMMA NobodyHolds ==
  ASSUME Inv, place \notin {"up", "aborting", "closed"}
  PROVE  \A a \in Attempt : ~Holds(a)
  BY DEF Inv, Sessions, HoldsFit, Leaving

LEMMA NobodyIsRejectedByNone ==
  ASSUME TypeOK
  PROVE  \A r \in rejections : r.by \in Attempt /\ r.by # None
  BY NoneIsNothing DEF TypeOK, Rejection

LEMMA MigrateKeepsInv ==
  ASSUME Inv, Migrate
  PROVE  Inv'
<1>1. /\ TypeOK /\ Sessions /\ place = "settle"
      /\ UNCHANGED <<store, session, seen, run, work, verdict>>
      /\ fact' = fact /\ rejections' = rejections /\ row' = row
  BY DEF Migrate, Inv, Goes, store
<1>2. \/ life' = life /\ place' = "recover" /\ (fact # None => Over)
      \/ life' = Settled /\ place' = "recover" /\ fact # None /\ CanSettle
      \/ life' = life /\ place' = "failed"
  BY DEF Migrate, Goes
<1>3. faults' = faults \/ Fault
  BY DEF Migrate
<1>4. /\ life' \in Life /\ life'.gen = life.gen /\ life'.rev >= life.rev
      /\ Over => Over'
      /\ life'.state = "completed" => fact # None
      /\ life' = life \/ (Over' /\ life'.awaits = None)
  <2>1. life \in Life /\ life.rev \in Nat
    BY <1>1 DEF TypeOK, Life
  <2>2. CASE life' = life
    BY <2>1, <2>2 DEF Over, Inv, Decisions, FactIsEarned
  <2>3. CASE life' = Settled /\ fact # None
    BY <1>1, <2>1, <2>3, SettledIs DEF Over
  <2>. QED BY <1>2, <2>2, <2>3
<1>5. LifeSteps(life')
  BY <1>1, <1>2, <1>3, <1>4, FaultsMove DEF LifeSteps, Place
<1>6. \A a \in Attempt : ~Holds(a)
  BY <1>1, NobodyHolds
<1>7. LifeFits' /\ RejectionsFit'
  BY <1>1, <1>4, NobodyIsRejectedByNone DEF Sessions, LifeFits, RejectionsFit
<1>8. PlacesFit'
  BY <1>1, <1>2, <1>4 DEF Sessions, PlacesFit, Leaving, Restoring, At
<1>9. HoldsFit'
  BY <1>1, <1>6 DEF HoldsFit, Holds
<1>10. RestoreFits'
  <2>1. life' = Settled => Over'
    BY <1>1, SettledIs DEF Over
  <2>. QED BY <1>1, <1>2, <1>4, <2>1 DEF RestoreFits
<1>. QED BY <1>5, <1>7, <1>8, <1>9, <1>10, LifeStepFacts DEF Inv, Sessions

LEMMA RecoverKeepsInv ==
  ASSUME Inv, Recover
  PROVE  Inv'
<1> DEFINE lifted == \E r \in rejections : r.gen = life.gen /\ CanReactivate(r.by, r.rev)
<1>1. /\ TypeOK /\ Sessions /\ place = "recover" /\ place' = "suspend"
      /\ UNCHANGED <<store, session, seen, run, work, verdict>>
      /\ fact' = fact /\ rejections' = rejections /\ row' = row
  BY DEF Recover, Inv, Goes, store
<1>2. \/ lifted /\ life' = Activated /\ faults' = faults
      \/ ~lifted /\ life' = life /\ faults' = faults
      \/ lifted /\ life' = life /\ faults' = faults + 1 /\ faults < MaxFaults
  BY DEF Recover, Fault
<1>3. lifted => life.state = "suspended"
  BY DEF CanReactivate
<1>4. /\ life' \in Life /\ life'.gen = life.gen /\ life'.rev >= life.rev
      /\ Over => life' = life
      /\ life'.state = "completed" => fact # None
      /\ life' = life \/ (life'.awaits = None /\ ~Over)
  <2>. HIDE DEF lifted
  <2>1. life \in Life /\ life.rev \in Nat
    BY <1>1 DEF TypeOK, Life
  <2>2. CASE life' = life
    BY <2>1, <2>2 DEF Inv, Decisions, FactIsEarned
  <2>3. CASE life' = Activated /\ lifted
    BY <1>1, <1>3, <2>1, <2>3, ActivatedIs DEF Over
  <2>. QED BY <1>2, <2>2, <2>3
<1>5. LifeSteps(life')
  <2>. HIDE DEF lifted
  <2>1. faults' = faults \/ Fault
    BY <1>2 DEF Fault
  <2>. QED BY <1>1, <1>4, <2>1, FaultsMove DEF LifeSteps, Place, Over
<1>6. \A a \in Attempt : ~Holds(a)
  BY <1>1, NobodyHolds
<1>7. LifeFits' /\ RejectionsFit'
  BY <1>1, <1>4, NobodyIsRejectedByNone DEF Sessions, LifeFits, RejectionsFit
<1>8. PlacesFit'
  BY <1>1, <1>4 DEF Sessions, PlacesFit, Leaving, Restoring, At, Over
<1>9. HoldsFit'
  BY <1>1, <1>6 DEF HoldsFit, Holds
<1>10. faults' = 0 => \A r \in rejections : life'.awaits # r.by
  <2> SUFFICES ASSUME faults' = 0, NEW r \in rejections, life'.awaits = r.by PROVE FALSE
    OBVIOUS
  <2>1. faults = 0 /\ faults' = faults
    BY <1>1, <1>2 DEF TypeOK
  <2>2. r.by # None
    BY <1>1, NobodyIsRejectedByNone
  <2>3. life' = life /\ life.awaits = r.by
    BY <1>4, <2>2
  <2>4. r.gen = life.gen /\ r.rev = life.rev /\ life.state = "suspended" /\ ~life.fenced
    BY <1>1, <2>2, <2>3 DEF Sessions, RejectionsFit, LifeFits
  <2>5. lifted
    BY <2>3, <2>4 DEF CanReactivate
  <2>6. life' = Activated
    BY <1>1, <1>2, <2>1, <2>5 DEF TypeOK
  <2>. QED BY <1>1, <2>2, <2>6, ActivatedIs
<1>11. RestoreFits'
  BY <1>1, <1>4, <1>10 DEF Sessions, RestoreFits, Over
<1>. QED BY <1>5, <1>7, <1>8, <1>9, <1>11, LifeStepFacts DEF Inv, Sessions

LEMMA InterruptKeepsInv ==
  ASSUME Inv, Interrupt
  PROVE  Inv'
<1>1. /\ TypeOK /\ Sessions /\ place = "suspend"
      /\ UNCHANGED <<store, session, seen, run, work, verdict>>
      /\ fact' = fact /\ rejections' = rejections /\ row' = row
  BY DEF Interrupt, Inv, Goes, store
<1>2. \/ life' = life /\ place' = "reconcile" /\ life.state # "active"
      \/ life' = Suspended(None) /\ place' = "reconcile" /\ CanSuspend
      \/ life' = life /\ place' = "failed"
  BY DEF Interrupt, Goes
<1>3. faults' = faults \/ Fault
  BY DEF Interrupt
<1>4. /\ life' \in Life /\ life'.gen = life.gen /\ life'.rev >= life.rev
      /\ Over => life' = life
      /\ life'.state = "completed" => fact # None
      /\ life' = life \/ life'.awaits = None
      /\ place' = "reconcile" => life'.state # "active"
  <2>1. life \in Life /\ life.rev \in Nat
    BY <1>1 DEF TypeOK, Life
  <2>2. CASE life' = life
    <3>1. place' = "reconcile" => life.state # "active"
      <4>1. CASE life = Suspended(None)
        BY <1>1, <2>2, <4>1, SuspendedIs
      <4>2. CASE life # Suspended(None)
        BY <1>2, <2>2, <4>2
      <4>. QED BY <4>1, <4>2
    <3>. QED BY <2>1, <2>2, <3>1 DEF Inv, Decisions, FactIsEarned
  <2>3. CASE life' = Suspended(None) /\ CanSuspend
    BY <1>1, <2>1, <2>3, SuspendedIs DEF Over, CanSuspend
  <2>. QED BY <1>2, <2>2, <2>3
<1>5. LifeSteps(life')
  BY <1>1, <1>2, <1>3, <1>4, FaultsMove DEF LifeSteps, Place, Over
<1>6. \A a \in Attempt : ~Holds(a)
  BY <1>1, NobodyHolds
<1>7. LifeFits' /\ RejectionsFit'
  BY <1>1, <1>4, NobodyIsRejectedByNone DEF Sessions, LifeFits, RejectionsFit
<1>8. PlacesFit'
  BY <1>1, <1>2, <1>4 DEF Sessions, PlacesFit, Leaving, Restoring, At, Over
<1>9. HoldsFit'
  BY <1>1, <1>6 DEF HoldsFit, Holds
<1>10. faults' = 0 => faults = 0
  BY <1>1, <1>3 DEF Fault, TypeOK
<1>11. RestoreFits'
  BY <1>1, <1>4, <1>10, NobodyIsRejectedByNone DEF Sessions, RestoreFits, Over
<1>. QED BY <1>5, <1>7, <1>8, <1>9, <1>11, LifeStepFacts DEF Inv, Sessions

LEMMA ResumeKeepsInv ==
  ASSUME Inv, Resume
  PROVE  Inv'
<1> DEFINE renewed == [Activated EXCEPT !.gen = @ + 1, !.fenced = FALSE, !.late = FALSE]
<1>1. /\ TypeOK /\ Sessions /\ place = "waiting" /\ faults' = faults
      /\ UNCHANGED <<store, session, seen, run, work, verdict>>
      /\ fact' = fact /\ rejections' = rejections /\ row' = row
  BY DEF Resume, Inv, Goes, store
<1>2. \/ life.state = "suspended" /\ life' = Activated /\ place' = "up"
      \/ life.gen < MaxGen /\ life' = renewed /\ place' = "up"
      \/ life.fenced /\ life' = life /\ place' = "failed"
  BY DEF Resume, Goes
<1>3. /\ life' \in Life /\ life'.rev >= life.rev
      /\ (life'.gen = life.gen /\ (Over => Over')) \/ life'.gen > life.gen
      /\ life'.state = "completed" => fact # None
      /\ life' = life \/ life'.awaits = None
  <2>1. life \in Life /\ life.rev \in Nat /\ life.gen \in Nat
    BY <1>1 DEF TypeOK, Life
  <2>2. CASE life' = life
    BY <2>1, <2>2 DEF Inv, Decisions, FactIsEarned, Over
  <2>3. CASE life.state = "suspended" /\ life' = Activated
    BY <1>1, <2>1, <2>3, ActivatedIs DEF Over
  <2>4. CASE life.gen < MaxGen /\ life' = renewed
    BY <1>1, <2>1, <2>4, RenewedIs
  <2>. QED BY <1>2, <2>2, <2>3, <2>4
<1>4. place' = "up" \/ (place' = "failed" /\ life'.fenced)
  BY <1>2
<1>. HIDE DEF renewed
<1>5. LifeSteps(life')
  BY <1>1, <1>3, <1>4, FaultsMove DEF LifeSteps, Place
<1>6. \A a \in Attempt : ~Holds(a)
  BY <1>1, NobodyHolds
<1>7. LifeFits' /\ RejectionsFit'
  BY <1>1, <1>3, NobodyIsRejectedByNone DEF Sessions, LifeFits, RejectionsFit
<1>8. PlacesFit' /\ RestoreFits'
  BY <1>4 DEF PlacesFit, RestoreFits, Leaving, Restoring
<1>9. HoldsFit'
  BY <1>1, <1>6 DEF HoldsFit, Holds
<1>. QED BY <1>5, <1>7, <1>8, <1>9, LifeStepFacts DEF Inv, Sessions

LEMMA CancelKeepsInv ==
  ASSUME Inv, Cancel \/ SettleCancel
  PROVE  Inv'
<1>1. /\ TypeOK /\ Sessions /\ faults' = faults
      /\ UNCHANGED <<store, session, seen, run, work, verdict>>
      /\ fact' = fact /\ rejections' = rejections /\ row' = row
  BY DEF Cancel, SettleCancel, Inv, Goes, store
<1>2. \/ place' = "aborting" /\ life' = (IF Over \/ life.fenced THEN life ELSE Requested)
      \/ place' = "closed" /\ life' = (IF Over THEN life ELSE Cancelled)
  BY DEF Cancel, SettleCancel, Goes
<1>3. /\ life' \in Life /\ life'.gen = life.gen /\ life'.rev >= life.rev
      /\ Over => Over'
      /\ life'.state = "completed" => fact # None
      /\ life' = life \/ life'.awaits = None
      /\ life'.fenced \/ Over'
      /\ place' = "closed" => Over'
  <2>1. life \in Life /\ life.rev \in Nat
    BY <1>1 DEF TypeOK, Life
  <2>2. life.state = "completed" => fact # None
    BY DEF Inv, Decisions, FactIsEarned
  <2>3. CASE place' = "aborting" /\ (Over \/ life.fenced)
    BY <1>2, <2>1, <2>2, <2>3 DEF Over
  <2>4. CASE place' = "aborting" /\ ~(Over \/ life.fenced)
    BY <1>1, <1>2, <2>1, <2>2, <2>4, RequestedIs DEF Over
  <2>5. CASE place' = "closed" /\ Over
    BY <1>2, <2>1, <2>2, <2>5 DEF Over
  <2>6. CASE place' = "closed" /\ ~Over
    BY <1>1, <1>2, <2>1, <2>6, CancelledIs DEF Over
  <2>. QED BY <1>2, <2>3, <2>4, <2>5, <2>6
<1>4. place' \in {"aborting", "closed"}
  BY <1>2
<1>5. LifeSteps(life')
  BY <1>1, <1>3, <1>4, FaultsMove DEF LifeSteps, Place
<1>6. LifeFits' /\ RejectionsFit'
  BY <1>1, <1>3, NobodyIsRejectedByNone DEF Sessions, LifeFits, RejectionsFit
<1>7. PlacesFit' /\ RestoreFits' /\ HoldsFit'
  BY <1>3, <1>4 DEF PlacesFit, RestoreFits, HoldsFit, Leaving, Restoring
<1>. QED BY <1>5, <1>6, <1>7, LifeStepFacts DEF Inv, Sessions

LEMMA ToolKeepsInv ==
  ASSUME Inv, ToolStarts \/ ToolWrites \/ ToolEnds
  PROVE  Inv'
<1>1. /\ TypeOK /\ session \in Session
      /\ UNCHANGED <<life, store, opened, run, verdict, faults>>
  BY DEF ToolStarts, ToolWrites, ToolEnds, Inv, TypeOK
<1>2. /\ tool' \in {"none", "working", "written"} /\ slipped' \subseteq Attempt
      /\ tree' \in 0 .. MaxTree
  BY <1>1, CompletionAssumption DEF ToolStarts, ToolWrites, ToolEnds, Located, TypeOK
<1>3. version' \in [Session -> 0 .. MaxTree]
  <2>1. CASE version' = version
    BY <1>1, <2>1 DEF TypeOK
  <2>2. CASE version[session] < MaxTree /\ version' = [version EXCEPT ![session] = @ + 1]
    <3>1. version[session] + 1 \in 0 .. MaxTree
      BY <1>1, <2>2, CompletionAssumption DEF TypeOK
    <3>. QED BY <1>1, <2>2, <3>1 DEF TypeOK
  <2>. QED BY <2>1, <2>2 DEF ToolStarts, ToolWrites, ToolEnds
<1>9. TypeOK'
  BY <1>1, <1>2, <1>3 DEF TypeOK, store, opened
<1>4. RowsFit' /\ SagasFit'
  BY <1>1 DEF Inv, RowsFit, SagasFit, SagaFits, Past, Over, At, store, opened
<1>5. CommandsFit' /\ OneCommandAtATime'
  BY <1>1 DEF Inv, CommandsFit, OneCommandAtATime, Convinced, At, store, opened
<1>6. Decisions'
  BY <1>1 DEF Inv, Decisions, VerdictsFit, FactIsEarned, At, store, opened
<1>7. Sessions'
  BY <1>1 DEF Inv, Sessions, LifeFits, PlacesFit, HoldsFit, RejectionsFit, RestoreFits,
              Restoring, Leaving, Holds, Over, At, store, opened
<1>. QED BY <1>9, <1>4, <1>5, <1>6, <1>7 DEF Inv

\* The evaluation starts with a mark of the open session's counter.
LEMMA EvaluateStarts ==
  ASSUME TypeOK, NEW a \in Attempt, Evaluate(a)
  PROVE  \E x \in Saga :
           /\ x.at = "locate" /\ x.dec.mark = version[session]
           /\ run' \in [Attempt -> [Session -> Saga]] /\ run'[a][session] = x
           /\ \A b \in Attempt, t \in Session :
                <<b, t>> # <<a, session>> => run'[b][t] = run[b][t]
<1>1. session \in Session /\ run \in [Attempt -> [Session -> Saga]]
  BY DEF TypeOK
<1>2. PICK g \in Saga : g = run[a][session]
  BY <1>1
<1>3. PICK m \in 0 .. MaxTree : m = version[session]
  BY DEF TypeOK
<1>4. PICK d : d = [g.dec EXCEPT !.mark = m]
  OBVIOUS
<1>5. d \in Decision /\ d.mark = m
  <2>1. g.dec \in Decision
    BY DEF Saga
  <2>. QED BY <1>4, <2>1 DEF Decision
<1>8. PICK x : x = [g EXCEPT !.at = "locate", !.dec = d]
  OBVIOUS
<1>6. x \in Saga /\ x.at = "locate" /\ x.dec = d
  BY <1>5, <1>8 DEF Saga, Step
<1>7. run' = [run EXCEPT ![a][session] = x]
  <2>1. run' = [run EXCEPT ![a][session] = [@ EXCEPT !.at = "locate", !.dec.mark = m]]
    BY <1>3 DEF Evaluate
  <2>2. x = [g EXCEPT !.at = "locate", !.dec = [g.dec EXCEPT !.mark = m]]
    BY <1>4, <1>8
  <2>3. [g EXCEPT !.at = "locate", !.dec = [g.dec EXCEPT !.mark = m]]
          = [g EXCEPT !.at = "locate", !.dec.mark = m]
    BY DEF Saga
  <2>4. x = [run[a][session] EXCEPT !.at = "locate", !.dec.mark = m]
    BY <1>2, <2>2, <2>3
  <2>. QED BY <1>1, <2>1, <2>4
<1>9. PICK s \in Session : s = session
  BY <1>1
<1>10. run' = [run EXCEPT ![a][s] = x]
  BY <1>7, <1>9
<1>11. /\ run' \in [Attempt -> [Session -> Saga]] /\ run'[a][s] = x
       /\ \A b \in Attempt, t \in Session :
            <<b, t>> # <<a, s>> => run'[b][t] = run[b][t]
  BY <1>1, <1>6, <1>10
<1>12. x.dec.mark = version[session]
  BY <1>3, <1>5, <1>6
<1>. QED BY <1>6, <1>9, <1>11, <1>12, Zenon

\* The attempt starts as a draft of the open session.
LEMMA EvaluateKeepsInv ==
  ASSUME Inv, NEW a \in Attempt, Evaluate(a)
  PROVE  Inv'
<1>1. /\ TypeOK /\ session \in Session /\ Sessions /\ place = "up"
      /\ row[a] = None /\ \A s \in Session : At(a, s, "idle")
      /\ UNCHANGED <<life, fact, rejections, row, terminal, session, place, seen,
                     version, tree, tool, slipped, verdict, faults>>
  BY DEF Evaluate, Inv, TypeOK, store, opened, work
<1>2. PICK x \in Saga :
        /\ x.at = "locate"
        /\ run' \in [Attempt -> [Session -> Saga]] /\ run'[a][session] = x
        /\ \A b \in Attempt, t \in Session :
              <<b, t>> # <<a, session>> => run'[b][t] = run[b][t]
  BY <1>1, EvaluateStarts
<1>7. TypeOK'
  BY <1>1, <1>2 DEF TypeOK
<1>8. RowsFit'
  BY <1>1 DEF Inv, RowsFit
<1>9. SagasFit'
  <2>1. ASSUME NEW b \in Attempt, NEW t \in Session, ~At(b, t, "idle")'
        PROVE  SagaFits(b, t)'
    <3>1. CASE b = a
      <4>1. t = session /\ run'[b][t] = x
        BY <1>1, <1>2, <2>1, <3>1 DEF At
      <4>. QED BY <1>1, <1>2, <3>1, <4>1 DEF SagaFits, At, Session, TypeOK
    <3>2. CASE b # a
      <4>1. \A u \in Session : run'[b][u] = run[b][u]
        BY <1>2, <3>2
      <4>2. SagaFits(b, t)
        BY <2>1, <4>1, SagaStands DEF At
      <4>. QED BY <1>1, <4>1, <4>2 DEF SagaFits, Past, Over, At
    <3>. QED BY <3>1, <3>2
  <2>. QED BY <1>1, <2>1 DEF Inv, SagasFit
<1>10. \A b \in Attempt, t \in Session :
          run'[b][t] = run[b][t] \/ (b = a /\ t = session /\ run'[b][t].at = "locate")
  BY <1>2
<1>11. CommandsFit' /\ OneCommandAtATime'
  BY <1>1, <1>10 DEF Inv, CommandsFit, OneCommandAtATime, Convinced, At
<1>12. Decisions'
  BY <1>1, <1>10 DEF Inv, Decisions, VerdictsFit, FactIsEarned, At
<1>13. Sessions'
  <2>1. LifeFits' /\ RejectionsFit' /\ RestoreFits'
    BY <1>1 DEF Sessions, LifeFits, RejectionsFit, RestoreFits, Over
  <2>2. PlacesFit'
    BY <1>1 DEF PlacesFit, Leaving, Restoring
  <2>3. \A b \in Attempt : Holds(b)' => Holds(b) /\ run'[b][session] = run[b][session]
    BY <1>1, <1>10 DEF Holds
  <2>4. HoldsFit'
    BY <1>1, <2>3 DEF Sessions, HoldsFit, Leaving
  <2>. QED BY <2>1, <2>2, <2>4 DEF Sessions
<1>. QED BY <1>7, <1>8, <1>9, <1>11, <1>12, <1>13 DEF Inv

\* Reconciliation ends rows or takes up their sagas, and keeps what rows say.
LEMMA ReconcileMoves ==
  ASSUME Inv, Reconcile
  PROVE  /\ row' \in [Attempt -> Row \cup {None}] /\ run' \in [Attempt -> [Session -> Saga]]
         /\ \A a \in Attempt :
              /\ row[a] = None <=> row'[a] = None
              /\ row[a] # None => /\ row'[a].gen = row[a].gen /\ row'[a].rev = row[a].rev
                                  /\ row'[a].command = row[a].command
                                  /\ row'[a].dec = row[a].dec /\ row'[a].born = row[a].born
         /\ \A a \in Attempt, t \in Session :
              \/ run'[a][t] = run[a][t]
              \/ t = session /\ run'[a][t].at = "dispatch" /\ row[a] # None
<1> DEFINE stale == {a \in UnderWay : row[a].gen # life.gen}
<1>1. /\ TypeOK /\ session \in Session
      /\ row' = [a \in Attempt |->
                   IF a \in stale THEN [row[a] EXCEPT !.phase = "stale", !.version = @ + 1]
                   ELSE row[a]]
      /\ run' = [a \in Attempt |->
                   IF a \in UnderWay \ stale
                   THEN [run[a] EXCEPT ![session] = [Idle EXCEPT !.at = "dispatch",
                           !.phase = row[a].phase, !.version = row[a].version]]
                   ELSE run[a]]
  BY ZenonT(90) DEF Reconcile, Inv, TypeOK
<1>2. \A a \in stale : a \in Attempt /\ row[a] \in Row /\ row[a] # None
  BY <1>1, ZenonT(90) DEF UnderWay, TypeOK
<1>3. \A a \in UnderWay \ stale : a \in Attempt /\ row[a] \in Row /\ row[a] # None
  BY <1>1 DEF UnderWay, TypeOK
<1>4. \A a \in Attempt :
        /\ row'[a] \in Row \cup {None}
        /\ row[a] = None <=> row'[a] = None
        /\ row[a] # None => /\ row'[a].gen = row[a].gen /\ row'[a].rev = row[a].rev
                            /\ row'[a].command = row[a].command
                            /\ row'[a].dec = row[a].dec /\ row'[a].born = row[a].born
  <2> SUFFICES ASSUME NEW a \in Attempt
               PROVE  /\ row'[a] \in Row \cup {None}
                      /\ row[a] = None <=> row'[a] = None
                      /\ row[a] # None => /\ row'[a].gen = row[a].gen
                                          /\ row'[a].rev = row[a].rev
                                          /\ row'[a].command = row[a].command
                                          /\ row'[a].dec = row[a].dec
                                          /\ row'[a].born = row[a].born
    OBVIOUS
  <2>1. CASE a \notin stale
    <3>. HIDE DEF stale
    <3>. QED BY <1>1, <2>1 DEF TypeOK
  <2>2. CASE a \in stale
    <3>1. PICK r \in Row : r = row[a] /\ r # None
      BY <1>2, <2>2
    <3>2. PICK n \in Nat : n = r.version + 1
      BY <3>1 DEF Row
    <3>3. PICK y : y = [r EXCEPT !.phase = "stale", !.version = n]
      OBVIOUS
    <3>4. /\ y \in Row /\ y.gen = r.gen /\ y.rev = r.rev /\ y.command = r.command
          /\ y.dec = r.dec /\ y.born = r.born
      BY <3>3 DEF Row, Phase
    <3>5. row'[a] = y
      <4>. HIDE DEF stale
      <4>. QED BY <1>1, <2>2, <3>1, <3>2, <3>3
    <3>. QED BY <3>1, <3>4, <3>5, NoneIsNothing
  <2>. QED BY <2>1, <2>2
<1>5. \A a \in Attempt :
        /\ run'[a] \in [Session -> Saga]
        /\ \A t \in Session : t # session => run'[a][t] = run[a][t]
        /\ \/ run'[a][session] = run[a][session]
           \/ run'[a][session].at = "dispatch" /\ row[a] # None
  <2> SUFFICES ASSUME NEW a \in Attempt
               PROVE  /\ run'[a] \in [Session -> Saga]
                      /\ \A t \in Session : t # session => run'[a][t] = run[a][t]
                      /\ \/ run'[a][session] = run[a][session]
                         \/ run'[a][session].at = "dispatch" /\ row[a] # None
    OBVIOUS
  <2>0. run[a] \in [Session -> Saga]
    BY <1>1, ZenonT(90) DEF TypeOK
  <2>1. CASE a \notin UnderWay \ stale
    <3>. HIDE DEF stale
    <3>. QED BY <1>1, <2>0, <2>1, ZenonT(90)
  <2>2. CASE a \in UnderWay \ stale
    <3>1. PICK r \in Row : r = row[a] /\ row[a] # None
      BY <1>3, <2>2
    <3>2. PICK phase \in Phase, n \in Nat : phase = row[a].phase /\ n = row[a].version
      BY <3>1 DEF Row
    <3>3. PICK y : y = [Idle EXCEPT !.at = "dispatch", !.phase = phase, !.version = n]
      OBVIOUS
    <3>4. y \in Saga /\ y.at = "dispatch"
      BY <3>3, IdleType DEF Saga, Step
    <3>5. run'[a] = [run[a] EXCEPT ![session] = y]
      <4>. HIDE DEF stale
      <4>. QED BY <1>1, <2>2, <3>2, <3>3
    <3>. QED BY <1>1, <2>0, <3>1, <3>4, <3>5
  <2>. QED BY <2>1, <2>2
<1>6. DOMAIN run' = Attempt /\ DOMAIN row' = Attempt
      /\ row' = [a \in Attempt |-> row'[a]] /\ run' = [a \in Attempt |-> run'[a]]
  <2>. HIDE DEF stale
  <2>. QED BY <1>1
<1>. HIDE DEF stale
<1>7. row' \in [Attempt -> Row \cup {None}] /\ run' \in [Attempt -> [Session -> Saga]]
  BY <1>4, <1>5, <1>6
<1>. QED BY <1>4, <1>5, <1>7

\* Sagas of the open session are taken up where their rows stand.
LEMMA ReconcileKeepsInv ==
  ASSUME Inv, Reconcile
  PROVE  Inv'
<1>0. session \in Session /\ session' = session
  BY DEF Reconcile, Goes, Inv, TypeOK
<1>1. /\ TypeOK /\ session \in Session /\ Sessions /\ place = "reconcile"
      /\ place' = "waiting"
      /\ UNCHANGED <<life, fact, rejections, terminal, session, seen,
                     version, tree, tool, slipped, verdict, faults>>
  BY DEF Reconcile, Inv, TypeOK, Goes, work
<1>4. \A a \in Attempt :
        /\ row[a] = None <=> row'[a] = None
        /\ row[a] # None => /\ row'[a].gen = row[a].gen /\ row'[a].rev = row[a].rev
                            /\ row'[a].command = row[a].command
  BY ReconcileMoves
<1>7. TypeOK'
  BY <1>1, ReconcileMoves DEF TypeOK, Place
<1>8. RowsFit'
  BY <1>1, <1>4 DEF Inv, RowsFit
<1>9. \A a \in Attempt : At(a, session, "idle")
  BY <1>1 DEF Sessions, PlacesFit, Restoring
<1>10. \A a \in Attempt, t \in Session :
         \/ run'[a][t] = run[a][t]
         \/ t = session /\ run'[a][t].at = "dispatch" /\ row[a] # None
  BY ReconcileMoves
<1>11. SagasFit'
  <2>1. ASSUME NEW a \in Attempt, NEW t \in Session, ~At(a, t, "idle")'
        PROVE  SagaFits(a, t)'
    <3>1. CASE run'[a][t] = run[a][t]
      <4>1. ~At(a, t, "idle") /\ SagaFits(a, t)
        BY <2>1, <3>1, SagaStands DEF At
      <4>2. CASE Drafting(a, t)
        <5>1. row[a] = None /\ \A u \in Session : run'[a][u] = run[a][u]
          BY <1>10, <4>1, <4>2 DEF SagaFits
        <5>. QED BY <1>1, <1>4, <4>1, <5>1 DEF SagaFits, Past, Over, At
      <4>3. CASE ~Drafting(a, t)
        BY <1>1, <1>4, <3>1, <4>1, <4>3 DEF SagaFits, Past, Over, At
      <4>. QED BY <4>2, <4>3
    <3>2. CASE t = session /\ run'[a][t].at = "dispatch" /\ row[a] # None
      <4>1. session' = session /\ session \in Nat
        BY <1>0 DEF Session
      <4>2. t <= session' /\ ~(t < session') /\ row'[a] # None /\ ~Drafting(a, t)'
        BY <1>4, <3>2, <4>1 DEF At
      <4>. QED BY <4>2 DEF SagaFits
    <3>. QED BY <1>10, <3>1, <3>2
  <2>. QED BY <1>1, <2>1 DEF Inv, SagasFit
<1>12. CommandsFit' /\ OneCommandAtATime'
  <2>1. CommandsFit /\ OneCommandAtATime
    BY DEF Inv
  <2>2. \A a \in Attempt, t \in Session : Convinced(a, t) => row[a] # None
    BY SagaStands DEF Convinced, At
  <2>3. \A a \in Attempt, t \in Session :
           /\ At(a, t, "shell")' => At(a, t, "shell")
           /\ Convinced(a, t)' => Convinced(a, t)
    BY <1>10 DEF At, Convinced
  <2>4. CommandsFit'
    BY <1>1, <1>4, <2>1, <2>2, <2>3 DEF CommandsFit
  <2>5. OneCommandAtATime'
    BY <2>1, <2>3 DEF OneCommandAtATime
  <2>. QED BY <2>4, <2>5
<1>13. Decisions'
  <2>1. VerdictsFit /\ FactIsEarned
    BY DEF Inv, Decisions
  <2>2. \A a \in Attempt, t \in Session : At(a, t, "ask") => row[a] # None
    BY SagaStands DEF At
  <2>3. \A a \in Attempt, t \in Session :
           /\ At(a, t, "ask")' => At(a, t, "ask")
           /\ At(a, t, "commit")' => At(a, t, "commit")
           /\ At(a, t, "record")' => At(a, t, "record")
           /\ At(a, t, "settle")' => At(a, t, "settle")
           /\ At(a, t, "suspend")' => At(a, t, "suspend")
    BY <1>10 DEF At
  <2>4. VerdictsFit'
    BY <1>1, <1>4, <2>1, <2>2, <2>3 DEF VerdictsFit
  <2>5. fact # None => fact \in Attempt /\ row[fact] # None
    BY <1>1, <2>1 DEF VerdictsFit, FactIsEarned, TypeOK
  <2>6. FactIsEarned'
    BY <1>1, <1>4, <2>1, <2>5 DEF FactIsEarned
  <2>. QED BY <2>4, <2>6 DEF Decisions
<1>14. Sessions'
  <2>1. life.awaits \in Attempt \cup {None}
    BY <1>1 DEF TypeOK, Life
  <2>2. LifeFits' /\ RejectionsFit' /\ RestoreFits'
    BY <1>1, <1>4, <2>1 DEF Sessions, LifeFits, RejectionsFit, RestoreFits, Over
  <2>3. PlacesFit'
    <3>1. \A a \in Attempt, t \in Session :
             t < session /\ At(a, t, "idle") => At(a, t, "idle")'
      <4>1. \A t \in Session : t < session => t # session
        BY <1>0 DEF Session
      <4>. QED BY <1>10, <4>1, Zenon DEF At
    <3>2. life.state # "active"
          /\ (Over \/ \A a \in Attempt, t \in Session : t < session => At(a, t, "idle"))
      BY <1>1 DEF Sessions, PlacesFit, Restoring
    <3>. QED BY <1>1, <3>1, <3>2 DEF PlacesFit, Leaving, Restoring, Over
  <2>4. \A a \in Attempt : ~Holds(a)'
    <3>1. \A a \in Attempt : run'[a][session].at \in {"idle", "dispatch"}
      BY <1>1, <1>9, <1>10 DEF At
    <3>. QED BY <1>1, <3>1 DEF Holds
  <2>. QED BY <2>2, <2>3, <2>4 DEF Sessions, HoldsFit
<1>. QED BY <1>7, <1>8, <1>11, <1>12, <1>13, <1>14, SMTT(60) DEF Inv

--------------------------------------------------------------------------------
(* A session after a session *)

\* The sagas of a task that is closed are from now on those of a past session.
LEMMA OpenKeepsInv ==
  ASSUME Inv, Open
  PROVE  Inv'
<1>1. /\ TypeOK /\ Sessions /\ place = "closed" /\ place' = "settle"
      /\ session \in Session /\ session < MaxSessions /\ session' = session + 1
      /\ seen' = [seen EXCEPT ![session] = [gen |-> life.gen, rev |-> life.rev]]
      /\ UNCHANGED <<life, fact, rejections, row, terminal, run, version, tree, tool, slipped, verdict, faults>>
  BY DEF Open, Inv, TypeOK, store, work, Projection
<1>2. Over
  BY <1>1 DEF Sessions, PlacesFit
<1>3. /\ session \in Nat /\ session' \in Session /\ Session \subseteq Nat
      /\ \A t \in Session : t < session' <=> t <= session
  BY <1>1, CompletionAssumption DEF Session
<1>4. life.gen \in 1 .. MaxGen /\ life.gen \in Nat /\ life.rev \in Nat
  BY <1>1 DEF TypeOK, Life
<1>5. /\ seen' \in [Session -> [gen : 0 .. MaxGen, rev : Nat]]
      /\ seen'[session].gen = life.gen /\ seen'[session].rev = life.rev
      /\ \A t \in Session : t # session => seen'[t] = seen[t]
  <2>1. [gen |-> life.gen, rev |-> life.rev] \in [gen : 0 .. MaxGen, rev : Nat]
    BY <1>4, CompletionAssumption
  <2>. QED BY <1>1, <2>1 DEF TypeOK
<1>6. TypeOK'
  BY <1>1, <1>3, <1>5 DEF TypeOK, Place
<1>7. RowsFit'
  BY <1>1 DEF Inv, RowsFit
<1>8. \A a \in Attempt : At(a, session', "idle")
  <2> SUFFICES ASSUME NEW a \in Attempt, ~At(a, session', "idle") PROVE FALSE
    OBVIOUS
  <2>1. SagaFits(a, session')
    BY <1>3, SagaStands
  <2>. QED BY <1>1, <1>3, <2>1 DEF SagaFits
<1>9. SagasFit'
  <2>1. ASSUME NEW a \in Attempt, NEW t \in Session, ~At(a, t, "idle")'
        PROVE  SagaFits(a, t)'
    <3>1. SagaFits(a, t)
      BY <1>1, <2>1, SagaStands DEF At
    <3>2. t <= session /\ t < session' /\ t <= session' /\ t \in Nat
      BY <1>1, <1>3, <3>1 DEF SagaFits
    <3>3. Past(t)' /\ (row[a] # None => row[a].gen <= seen'[t].gen)
      <4>1. CASE t = session
        BY <1>1, <1>2, <1>4, <1>5, <4>1 DEF Inv, RowsFit, Past, Over
      <4>2. CASE t # session
        <5>1. t < session
          BY <1>3, <3>2, <4>2
        <5>. QED BY <1>1, <1>5, <3>1, <4>2, <5>1 DEF SagaFits, Past, Over
      <4>. QED BY <4>1, <4>2
    <3>. QED BY <1>1, <3>1, <3>2, <3>3 DEF SagaFits, At
  <2>2. \A t \in Session : seen'[t].rev <= life.rev
    BY <1>4, <1>5 DEF Inv, SagasFit
  <2>. QED BY <1>1, <2>1, <2>2 DEF SagasFit
<1>10. CommandsFit' /\ OneCommandAtATime'
  BY <1>1 DEF Inv, CommandsFit, OneCommandAtATime, Convinced, At
<1>11. Decisions'
  <2>1. VerdictsFit /\ FactIsEarned
    BY DEF Inv, Decisions
  <2>2. \A a \in Attempt : ~At(a, session, "suspend")' /\ ~At(a, session, "ask")'
    <3>1. \A a \in Attempt : run'[a][session'].at = "idle"
      BY <1>1, <1>8 DEF At
    <3>. QED BY <3>1 DEF At
  <2>3. VerdictsFit'
    BY <1>1, <2>1, <2>2 DEF VerdictsFit, At
  <2>4. FactIsEarned'
    BY <1>1, <2>1 DEF FactIsEarned
  <2>. QED BY <2>3, <2>4 DEF Decisions
<1>12. Sessions'
  <2>1. LifeFits' /\ RejectionsFit' /\ RestoreFits'
    BY <1>1 DEF Sessions, LifeFits, RejectionsFit, RestoreFits
  <2>2. \A a \in Attempt : run'[a][session'].at = "idle"
    BY <1>1, <1>8 DEF At
  <2>3. PlacesFit'
    BY <1>1, <1>2, <2>2 DEF PlacesFit, Leaving, Restoring, Over, At
  <2>4. HoldsFit'
    BY <2>2 DEF HoldsFit, Holds
  <2>. QED BY <2>1, <2>3, <2>4 DEF Sessions
<1>. QED BY <1>6, <1>7, <1>9, <1>10, <1>11, <1>12 DEF Inv

\* A crash leaves what is stored, and no saga.
LEMMA CrashKeepsInv ==
  ASSUME Inv, Crash
  PROVE  Inv'
<1>1. /\ TypeOK /\ Sessions /\ place' = "settle" /\ tool' = "none"
      /\ session \in Session /\ session < MaxSessions /\ session' = session + 1
      /\ seen' = [s \in Session |-> Unseen]
      /\ run' = [a \in Attempt |-> [s \in Session |-> Idle]]
      /\ UNCHANGED <<life, fact, rejections, row, terminal, version, tree, slipped, verdict, faults>>
  BY DEF Crash, Inv, TypeOK, store
<1>2. session' \in Session
  BY <1>1, CompletionAssumption DEF Session
<1>3. /\ \A a \in Attempt, t \in Session : run'[a][t].at = "idle"
      /\ run' \in [Attempt -> [Session -> Saga]]
  BY <1>1, IdleType
<1>4. \A t \in Session : seen'[t].rev = 0
  BY <1>1 DEF Unseen
<1>5. TypeOK'
  <2>1. seen' \in [Session -> [gen : 0 .. MaxGen, rev : Nat]]
    BY <1>1, CompletionAssumption DEF Unseen
  <2>. QED BY <1>1, <1>2, <1>3, <2>1 DEF TypeOK, Place
<1>6. RowsFit'
  BY <1>1 DEF Inv, RowsFit
<1>7. SagasFit'
  <2>1. life.rev >= 0
    BY <1>1 DEF TypeOK, Life
  <2>. QED BY <1>1, <1>3, <1>4, <2>1 DEF SagasFit, At
<1>8. CommandsFit' /\ OneCommandAtATime'
  BY <1>3 DEF CommandsFit, OneCommandAtATime, Convinced, At
<1>9. Decisions'
  <2>1. VerdictsFit /\ FactIsEarned
    BY DEF Inv, Decisions
  <2>2. \A a \in Attempt : run'[a][session'].at = "idle"
    BY <1>2, <1>3
  <2>3. VerdictsFit'
    BY <1>1, <1>3, <2>1, <2>2 DEF VerdictsFit, At
  <2>4. FactIsEarned'
    BY <1>1, <2>1 DEF FactIsEarned
  <2>. QED BY <2>3, <2>4 DEF Decisions
<1>10. Sessions'
  <2>1. LifeFits' /\ RejectionsFit' /\ RestoreFits'
    BY <1>1 DEF Sessions, LifeFits, RejectionsFit, RestoreFits
  <2>2. \A a \in Attempt : run'[a][session'].at = "idle"
    BY <1>2, <1>3
  <2>3. PlacesFit'
    BY <1>1, <1>3, <2>2 DEF PlacesFit, Leaving, Restoring, At
  <2>4. HoldsFit'
    BY <2>2 DEF HoldsFit, Holds
  <2>. QED BY <2>1, <2>3, <2>4 DEF Sessions
<1>. QED BY <1>5, <1>6, <1>7, <1>8, <1>9, <1>10 DEF Inv

--------------------------------------------------------------------------------
(* Theorems *)

LEMMA InitInv == Init => Inv
<1> SUFFICES ASSUME Init PROVE Inv
  OBVIOUS
<1>1. /\ life = [gen |-> 1, rev |-> 2, state |-> "active", fenced |-> FALSE,
                 late |-> FALSE, awaits |-> None]
      /\ fact = None /\ rejections = {} /\ session = 1 /\ place = "up"
      /\ tree = 0 /\ tool = "none" /\ slipped = {} /\ faults = 0
      /\ row = [a \in Attempt |-> None]
      /\ terminal = [a \in Attempt |-> "none"]
      /\ verdict = [a \in Attempt |-> "none"]
      /\ seen = [s \in Session |-> Unseen]
      /\ run = [a \in Attempt |-> [s \in Session |-> Idle]]
      /\ version = [s \in Session |-> 0]
  BY DEF Init
<1>2. \A a \in Attempt, t \in Session : run[a][t].at = "idle"
  BY <1>1, IdleType
<1>3. TypeOK
  <2>1. life \in Life
    BY <1>1, CompletionAssumption DEF Life
  <2>2. run \in [Attempt -> [Session -> Saga]]
    BY <1>1, IdleType
  <2>3. seen \in [Session -> [gen : 0 .. MaxGen, rev : Nat]]
    BY <1>1, CompletionAssumption DEF Unseen
  <2>4. session \in Session /\ place \in Place
    BY <1>1, CompletionAssumption DEF Session, Place
  <2>5. version \in [Session -> 0 .. MaxTree] /\ tree \in 0 .. MaxTree
        /\ faults \in 0 .. MaxFaults
    BY <1>1, CompletionAssumption
  <2>6. /\ row \in [Attempt -> Row \cup {None}]
        /\ terminal \in [Attempt -> {"none", "succeeded", "failed"}]
        /\ verdict \in [Attempt -> {"none", "yes", "no"}]
    BY <1>1
  <2>. QED BY <1>1, <2>1, <2>2, <2>3, <2>4, <2>5, <2>6 DEF TypeOK
<1>4. RowsFit
  BY <1>1 DEF RowsFit
<1>5. SagasFit
  <2>1. \A t \in Session : seen[t].rev <= life.rev
    BY <1>1 DEF Unseen
  <2>. QED BY <1>2, <2>1 DEF SagasFit, At
<1>6. CommandsFit /\ OneCommandAtATime
  BY <1>2 DEF CommandsFit, OneCommandAtATime, Convinced, At
<1>7. session \in Session
  BY <1>3 DEF TypeOK
<1>8. Decisions
  BY <1>1, <1>2, <1>7 DEF Decisions, VerdictsFit, FactIsEarned, At
<1>9. Sessions
  BY <1>1, <1>2, <1>7
     DEF Sessions, LifeFits, PlacesFit, HoldsFit, RejectionsFit, RestoreFits,
         Restoring, Leaving, Holds, At
<1>. QED BY <1>3, <1>4, <1>5, <1>6, <1>8, <1>9 DEF Inv

LEMMA StutterKeepsInv ==
  ASSUME Inv, UNCHANGED vars
  PROVE  Inv'
<1>1. UNCHANGED <<life, fact, rejections, row, terminal, session, place, seen, run,
                  version, tree, tool, slipped, verdict, faults>>
  BY DEF vars, store, opened, work
<1>2. TypeOK' /\ RowsFit'
  BY <1>1 DEF Inv, TypeOK, RowsFit
<1>3. SagasFit'
  BY <1>1 DEF Inv, SagasFit, SagaFits, Past, Over, At
<1>4. CommandsFit' /\ OneCommandAtATime'
  BY <1>1 DEF Inv, CommandsFit, OneCommandAtATime, Convinced, At
<1>5. Decisions'
  BY <1>1 DEF Inv, Decisions, VerdictsFit, FactIsEarned, At
<1>6. Sessions'
  BY <1>1 DEF Inv, Sessions, LifeFits, PlacesFit, HoldsFit, RejectionsFit, RestoreFits,
              Restoring, Leaving, Holds, Over, At
<1>. QED BY <1>2, <1>3, <1>4, <1>5, <1>6 DEF Inv

\* Every action keeps the invariant, whatever its actor and whenever it comes.
LEMMA NextKeepsInv ==
  ASSUME Inv, [Next]_vars
  PROVE  Inv'
<1>1. CASE \E a \in Attempt : Evaluate(a)
  BY <1>1, EvaluateKeepsInv
<1>2. CASE \E a \in Attempt : \E s \in Session : SagaStep(a, s)
  BY <1>2, SagaKeepsInv
<1>3. CASE SettleAgain
  BY <1>3, SettleAgainKeepsInv
<1>4. CASE ToolStarts \/ ToolWrites \/ ToolEnds
  BY <1>4, ToolKeepsInv
<1>5. CASE Restore
  BY <1>5, MigrateKeepsInv, RecoverKeepsInv, InterruptKeepsInv, ReconcileKeepsInv
     DEF Restore
<1>6. CASE Resume
  BY <1>6, ResumeKeepsInv
<1>7. CASE Cancel \/ SettleCancel
  BY <1>7, CancelKeepsInv
<1>8. CASE Open \/ Crash
  BY <1>8, OpenKeepsInv, CrashKeepsInv
<1>9. CASE UNCHANGED vars
  BY <1>9, StutterKeepsInv
<1>. QED BY <1>1, <1>2, <1>3, <1>4, <1>5, <1>6, <1>7, <1>8, <1>9 DEF Next

\* The inductive invariant holds in every reachable state: what a saga has
\* reached fits its row, the lifecycle and the session that is open.
THEOREM InvHolds == Spec => []Inv
<1>1. Init => Inv
  BY InitInv
<1>2. Inv /\ [Next]_vars => Inv'
  BY NextKeepsInv
<1>. QED BY <1>1, <1>2, PTL DEF Spec

\* Lifecycle, rows, sagas, sessions and workspace stay within their types.
THEOREM TypeCorrect == Spec => []TypeOK
<1>1. Inv => TypeOK
  BY DEF Inv
<1>. QED BY <1>1, InvHolds, PTL

\* A fact on record was accepted by the user, on a command that succeeded if
\* the attempt asked for one, and no generation is completed without a fact:
\* whatever crashes, faults and stale sagas come between (CompletionFunnel.ts,
\* continueCompletionAttempt).
THEOREM FactsAreEarned == Spec => []FactIsEarned
<1>1. Inv => FactIsEarned
  BY DEF Inv, Decisions
<1>. QED BY <1>1, InvHolds, PTL

\* However often an attempt is taken up again, by the sagas of as many sessions
\* as there are, its command runs once at a time (CompletionSagaCoordinator.ts,
\* isInvocationActive).
THEOREM OneCommand == Spec => []OneCommandAtATime
<1>1. Inv => OneCommandAtATime
  BY DEF Inv
<1>. QED BY <1>1, InvHolds, PTL

\* A question is open only while the lifecycle is suspended for its attempt in
\* its generation, or while the session is being closed.
THEOREM QuestionIsHeld == Spec => []QuestionHoldsGeneration
<1>1. Inv => QuestionHoldsGeneration
  BY DEF Inv, Sessions, HoldsFit, Holds, Leaving, QuestionHoldsGeneration, At
<1>. QED BY <1>1, InvHolds, PTL

\* When the restored task waits for the user, a fact on record has ended its
\* generation and no rejected attempt is awaited, unless a write was refused
\* (prepareResumeLifecycle).
THEOREM DecisionsAreRestored == Spec => []RestoredDecisionIsApplied
<1>1. Inv => RestoredDecisionIsApplied
  BY DEF Inv, Sessions, RestoreFits, RestoredDecisionIsApplied
<1>. QED BY <1>1, InvHolds, PTL

--------------------------------------------------------------------------------
(* What is accepted is what was evaluated *)

\* The workspace is the one decision d of attempt a looked at, but for a change
\* that is not counted.
Stays(a, d) == tree = d.tree \/ tool = "written" \/ a \in slipped

\* The counter of the open session tells whether it is.
Aligned(a, d) ==
    /\ d.version <= version[session]
    /\ version[session] = d.version => Stays(a, d) \/ d.mark # d.version
Fresh(a) == row[a].born = session /\ Aligned(a, row[a].dec)

\* An evaluation that has not read the counter again compares with its mark.
Consistent(a, x) ==
    /\ x.at \in {"locate", "count"} => x.dec.mark <= version[session]
    /\ x.at = "count" /\ version[session] = x.dec.mark => Stays(a, x.dec)
    /\ x.at \in {"judge", "draft"} => Aligned(a, x.dec)

\* The saga of an attempt that the open session has evaluated itself.
Own(a) == ~At(a, session, "idle") /\ (row[a] # None => row[a].born = session)

Offering == Restoring \/ place = "waiting"

\* A row is unknown to the sessions before the one it was written in.
BornFits == \A a \in Attempt : row[a] # None =>
    /\ row[a].born <= session
    /\ \A s \in Session : s < row[a].born => At(a, s, "idle")
    /\ Offering => row[a].born < session

OneOwn == \A a, b \in Attempt : Own(a) /\ Own(b) => a = b

DraftsFit == \A a \in Attempt : Drafting(a, session) =>
    /\ place \in {"up", "aborting", "closed"} /\ life.state # "suspended"
    /\ Consistent(a, run[a][session])

\* A row that stands at the lifecycle's own revision was written by the open
\* session, if that session may still act on it.
WrittenFits == \A a \in Attempt :
    row[a] # None /\ row[a].gen = life.gen /\ row[a].rev = life.rev =>
      /\ life.state # "suspended"
      /\ place = "up" /\ CanSuspend => Fresh(a)

AskersFit == \A a \in Attempt :
    /\ At(a, session, "suspend") /\ row[a].gen = life.gen =>
         Over \/ life.fenced \/ (life.state = "active" /\ Fresh(a))
    /\ At(a, session, "ask") \/ At(a, session, "commit") => Fresh(a)

EvalFits == BornFits /\ OneOwn /\ DraftsFit /\ WrittenFits /\ AskersFit

\* A step of the lifecycle moves its revision on, and with it what the rows
\* written before are worth.
LEMMA LifeKeepsEval ==
  ASSUME Inv, EvalFits, UNCHANGED <<row, run, session, work>>,
         life.rev \in Nat, life'.rev \in Nat,
         life' = life \/ life'.rev > life.rev,
         Offering' => Offering,
         place' = "up" => place = "up" \/ life'.rev > life.rev,
         \A a \in Attempt : Drafting(a, session) =>
            place' \in {"up", "aborting", "closed"} /\ life'.state # "suspended",
         \A a \in Attempt : At(a, session, "suspend") /\ row[a].gen = life'.gen =>
            life' = life \/ Over' \/ life'.fenced
  PROVE  EvalFits'
<1>1. BornFits'
  BY DEF EvalFits, BornFits, At
<1>2. OneOwn'
  BY DEF EvalFits, OneOwn, Own, At
<1>3. DraftsFit'
  BY DEF EvalFits, DraftsFit, Consistent, Aligned, Stays, work, At
<1>4. WrittenFits'
  <2> SUFFICES ASSUME NEW a \in Attempt, row[a] # None,
                      row[a].gen = life'.gen, row[a].rev = life'.rev
               PROVE  /\ life'.state # "suspended"
                      /\ place' = "up" /\ CanSuspend' => Fresh(a)
    BY DEF WrittenFits, Fresh, Aligned, Stays, work
  <2>1. row[a].rev <= life.rev
    BY DEF Inv, RowsFit
  <2>2. life' = life
    BY <2>1
  <2>. QED BY <2>2 DEF EvalFits, WrittenFits, CanSuspend
<1>5. AskersFit'
  <2> SUFFICES ASSUME NEW a \in Attempt
               PROVE  /\ At(a, session, "suspend") /\ row[a].gen = life'.gen =>
                           Over' \/ life'.fenced \/ (life'.state = "active" /\ Fresh(a))
                      /\ At(a, session, "ask") \/ At(a, session, "commit") => Fresh(a)
    BY DEF AskersFit, Fresh, Aligned, Stays, work, At
  <2>. QED BY DEF EvalFits, AskersFit, Over
<1>. QED BY <1>1, <1>2, <1>3, <1>4, <1>5 DEF EvalFits

\* While the task is restored, waits or has failed no draft is at work.
LEMMA RestoringIsIdle ==
  ASSUME Inv, Restoring
  PROVE  \A a \in Attempt : At(a, session, "idle")
  BY DEF Inv, Sessions, PlacesFit

LEMMA LifeIsTyped ==
  ASSUME Inv
  PROVE  /\ life \in Life /\ life.rev \in Nat /\ life.gen \in Nat
         /\ life.state \in {"active", "suspended", "completed", "cancelled"}
         /\ \A n \in Nat : n = life.rev + 1 => n > life.rev
  BY DEF Inv, TypeOK, Life

LEMMA RestoreKeepsEval ==
  ASSUME Inv, EvalFits, Migrate \/ Recover \/ Interrupt
  PROVE  EvalFits'
<1>1. /\ UNCHANGED <<row, run, session, work>> /\ Restoring /\ TypeOK
      /\ place' # "up"
  BY DEF Migrate, Recover, Interrupt, Goes, store, Restoring, Inv
<1>2. \A a \in Attempt : At(a, session, "idle")
  BY <1>1, RestoringIsIdle
<1>3. \/ life' = life \/ life' = Settled \/ life' = Activated \/ life' = Suspended(None)
  BY DEF Migrate, Recover, Interrupt
<1>4. life' = life \/ life'.rev = life.rev + 1
  BY <1>1, <1>3, SettledIs, ActivatedIs, SuspendedIs
<1>5. life.rev \in Nat /\ life'.rev \in Nat /\ (life' = life \/ life'.rev > life.rev)
  BY <1>4, LifeIsTyped
<1>. QED BY <1>1, <1>2, <1>5, LifeKeepsEval DEF Offering, At

LEMMA ResumeKeepsEval ==
  ASSUME Inv, EvalFits, Resume
  PROVE  EvalFits'
<1> DEFINE renewed == [Activated EXCEPT !.gen = @ + 1, !.fenced = FALSE, !.late = FALSE]
<1>1. /\ UNCHANGED <<row, run, session, work>> /\ place = "waiting" /\ TypeOK
      /\ Offering
  BY DEF Resume, Goes, store, Offering, Inv
<1>2. \/ life.state = "suspended" /\ ~life.fenced /\ life' = Activated /\ place' = "up"
      \/ life.gen < MaxGen /\ life' = renewed /\ place' = "up"
      \/ life' = life /\ place' = "failed"
  BY DEF Resume, Goes
<1>3. \A a \in Attempt : ~Drafting(a, session)
  BY <1>1 DEF EvalFits, DraftsFit
<1>4. /\ life.rev \in Nat /\ life.gen \in Nat /\ life'.rev \in Nat
      /\ life' = life \/ life'.rev > life.rev
      /\ place' = "up" => life'.rev > life.rev
      /\ \/ life' = life
         \/ life.state = "suspended" /\ ~life.fenced /\ life'.gen = life.gen
         \/ life'.gen = life.gen + 1
  <2>. HIDE DEF renewed
  <2>1. CASE life.state = "suspended" /\ ~life.fenced /\ life' = Activated
    BY <1>1, <2>1, LifeIsTyped, ActivatedIs
  <2>2. CASE life.gen < MaxGen /\ life' = renewed
    BY <1>1, <2>2, LifeIsTyped, RenewedIs DEF renewed
  <2>3. CASE life' = life /\ place' = "failed"
    BY <2>3, LifeIsTyped
  <2>. QED BY <1>2, <2>1, <2>2, <2>3
<1>. HIDE DEF renewed
<1>5. ASSUME NEW a \in Attempt, At(a, session, "suspend"), row[a].gen = life'.gen
      PROVE  life' = life
  <2>1. session \in Session
    BY <1>1 DEF TypeOK
  <2>2. row[a] # None
    BY <1>5, <2>1, SagaStands DEF At
  <2>3. row[a].gen <= life.gen
    BY <2>2 DEF Inv, RowsFit
  <2>. QED BY <1>4, <1>5, <2>3 DEF EvalFits, AskersFit, Over
<1>. QED BY <1>1, <1>2, <1>3, <1>4, <1>5, LifeKeepsEval

LEMMA CancelKeepsEval ==
  ASSUME Inv, EvalFits, Cancel \/ SettleCancel
  PROVE  EvalFits'
<1>1. /\ UNCHANGED <<row, run, session, work>> /\ TypeOK
      /\ place' \in {"aborting", "closed"}
  BY DEF Cancel, SettleCancel, Goes, store, Inv
<1>2. life' = life \/ life' = Requested \/ life' = Cancelled
  BY DEF Cancel, SettleCancel
<1>3. /\ life' = life \/ life'.rev = life.rev + 1
      /\ life' = life \/ life'.fenced \/ Over'
      /\ life'.state = life.state \/ life'.state = "cancelled"
  BY <1>1, <1>2, RequestedIs, CancelledIs DEF Over
<1>4. life.rev \in Nat /\ life'.rev \in Nat /\ (life' = life \/ life'.rev > life.rev)
  BY <1>3, LifeIsTyped
<1>5. \A a \in Attempt : Drafting(a, session) => life'.state # "suspended"
  BY <1>3 DEF EvalFits, DraftsFit
<1>6. ~Offering' /\ place' # "up"
  BY <1>1 DEF Offering, Restoring
<1>. QED BY <1>1, <1>3, <1>4, <1>5, <1>6, LifeKeepsEval

LEMMA SettleAgainKeepsEval ==
  ASSUME Inv, EvalFits, SettleAgain
  PROVE  EvalFits'
<1>1. /\ UNCHANGED <<row, run, session, work, place>> /\ TypeOK
      /\ life' = Settled /\ place = "up"
  BY DEF SettleAgain, store, opened, Inv
<1>2. life'.rev = life.rev + 1 /\ life'.state = "completed"
  BY <1>1, SettledIs
<1>3. life.rev \in Nat /\ life'.rev \in Nat /\ life'.rev > life.rev
  BY <1>2, LifeIsTyped
<1>4. Over' /\ ~Offering' /\ place' = "up"
  BY <1>1, <1>2 DEF Over, Offering, Restoring
<1>. QED BY <1>1, <1>2, <1>3, <1>4, LifeKeepsEval

LEMMA StayKeepsEval ==
  ASSUME Inv, EvalFits, UNCHANGED vars
  PROVE  EvalFits'
<1>1. UNCHANGED <<row, run, session, work, place, life>>
  BY DEF vars, store, opened
<1>2. Offering' <=> Offering
  BY <1>1 DEF Offering, Restoring
<1>3. \A a \in Attempt : Drafting(a, session) =>
         place' \in {"up", "aborting", "closed"} /\ life'.state # "suspended"
  BY <1>1 DEF EvalFits, DraftsFit
<1>. QED BY <1>1, <1>2, <1>3, LifeIsTyped, LifeKeepsEval

\* A tool that changes the workspace is "written" until it is counted, or slips by.
LEMMA ToolKeepsAligned ==
  ASSUME Inv, ToolStarts \/ ToolWrites \/ ToolEnds, NEW a \in Attempt, NEW d \in Decision
  PROVE  /\ version[session] <= version'[session]
         /\ version'[session] = version[session] /\ a \in Located /\ Stays(a, d) => Stays(a, d)'
         /\ a \in Located /\ Aligned(a, d) => Aligned(a, d)'
         /\ d.mark <= version[session] => d.mark <= version'[session]
<1>1. /\ session' = session /\ session \in Session /\ version[session] \in Nat
      /\ d.mark \in Nat /\ d.version \in Nat
  BY CompletionAssumption DEF ToolStarts, ToolWrites, ToolEnds, opened, Inv, TypeOK, Decision
<1>2. \/ version' = version
      \/ version'[session] = version[session] + 1
  BY <1>1 DEF ToolStarts, ToolWrites, ToolEnds, Inv, TypeOK
<1>3. version' = version /\ a \in Located /\ Stays(a, d) => Stays(a, d)'
  <2>1. CASE ToolStarts
    BY <2>1 DEF ToolStarts, Stays
  <2>2. CASE ToolWrites
    BY <2>2 DEF ToolWrites, Stays
  <2>3. CASE ToolEnds /\ version' = version
    <3>1. slipped' = IF tool = "written" THEN slipped \cup Located ELSE slipped
      BY <1>1, <2>3 DEF ToolEnds, Inv, TypeOK
    <3>. QED BY <2>3, <3>1 DEF ToolEnds, Stays
  <2>. QED BY <2>1, <2>2, <2>3
<1>. QED BY <1>1, <1>2, <1>3 DEF Aligned

LEMMA ToolKeepsEval ==
  ASSUME Inv, EvalFits, ToolStarts \/ ToolWrites \/ ToolEnds
  PROVE  EvalFits'
<1>1. /\ UNCHANGED <<row, run, session, place, life>> /\ TypeOK /\ session \in Session
      /\ version[session] \in Nat /\ version'[session] \in Nat
  BY ToolKeepsInv, CompletionAssumption DEF ToolStarts, ToolWrites, ToolEnds, store, opened, Inv, TypeOK
<1>2. BornFits' /\ OneOwn'
  BY <1>1 DEF EvalFits, BornFits, OneOwn, Own, Offering, Restoring, At
<1>3. DraftsFit'
  <2> SUFFICES ASSUME NEW a \in Attempt, Drafting(a, session)
               PROVE  Consistent(a, run[a][session])'
    BY <1>1 DEF EvalFits, DraftsFit
  <2>1. Consistent(a, run[a][session])
    BY DEF EvalFits, DraftsFit
  <2>2. PICK d \in Decision : d = run[a][session].dec
    BY <1>1, SagaTypes
  <2>3. d.mark \in Nat /\ d.version \in Nat
    BY CompletionAssumption DEF Decision
  <2>4. ~At(a, session, "locate") => a \in Located
    BY DEF Located, At
  <2>. QED BY <1>1, <2>1, <2>2, <2>3, <2>4, ToolKeepsAligned DEF Consistent, At
<1>4. \A a \in Attempt : row[a] # None /\ Fresh(a) => Fresh(a)'
  <2>1. \A a \in Attempt : row[a] # None => row[a].dec \in Decision /\ a \in Located
    BY <1>1 DEF TypeOK, Row, Located
  <2>. QED BY <1>1, <2>1, ToolKeepsAligned DEF Fresh
<1>5. WrittenFits'
  BY <1>1, <1>4 DEF EvalFits, WrittenFits, CanSuspend
<1>6. AskersFit'
  <2>1. \A a \in Attempt : At(a, session, "suspend") \/ At(a, session, "ask")
                             \/ At(a, session, "commit") => row[a] # None
    BY <1>1, SagaStands DEF At
  <2>. QED BY <1>1, <1>4, <2>1 DEF EvalFits, AskersFit, Over, At
<1>. QED BY <1>2, <1>3, <1>5, <1>6 DEF EvalFits

\* An attempt is evaluated while no other attempt of the session is at work.
LEMMA EvaluateKeepsEval ==
  ASSUME Inv, EvalFits, NEW a \in Attempt, Evaluate(a)
  PROVE  EvalFits'
<1>1. /\ TypeOK /\ session \in Session /\ place = "up" /\ life.state = "active"
      /\ row[a] = None /\ LoopIsFree
      /\ UNCHANGED <<life, row, session, place, work>>
  BY DEF Evaluate, Inv, TypeOK, Admitted, store, opened
<1>2. PICK x \in Saga :
        /\ x.at = "locate" /\ x.dec.mark = version[session] /\ run'[a][session] = x
        /\ \A b \in Attempt, t \in Session :
              <<b, t>> # <<a, session>> => run'[b][t] = run[b][t]
  BY <1>1, EvaluateStarts
<1>7. Consistent(a, x)
  BY <1>1, <1>2, CompletionAssumption DEF Consistent, TypeOK
<1>8. BornFits'
  BY <1>1, <1>2 DEF EvalFits, BornFits, Offering, Restoring, At
<1>9. \A b \in Attempt : b # a => run'[b][session] = run[b][session]
  BY <1>1, <1>2
<1>10. OneOwn'
  <2>1. \A b \in Attempt : Own(b)' => b = a
    BY <1>1, <1>9 DEF LoopIsFree, Own, At, TypeOK, Row, Session
  <2>. QED BY <2>1 DEF OneOwn
<1>11. \A b \in Attempt, y \in Saga : Consistent(b, y) => Consistent(b, y)'
  BY <1>1 DEF Consistent, Aligned, Stays, work
<1>12. DraftsFit'
  <2>1. \A b \in Attempt : run[b][session] \in Saga
    BY <1>1, SagaTypes
  <2>. QED BY <1>1, <1>2, <1>7, <1>9, <1>11, <2>1 DEF EvalFits, DraftsFit
<1>13. WrittenFits'
  BY <1>1 DEF EvalFits, WrittenFits, CanSuspend, Fresh, Aligned, Stays, work
<1>14. AskersFit'
  BY <1>1, <1>2, <1>9 DEF EvalFits, AskersFit, Fresh, Aligned, Stays, work, Over, At
<1>. QED BY <1>8, <1>10, <1>12, <1>13, <1>14 DEF EvalFits

LEMMA ReconcileKeepsEval ==
  ASSUME Inv, EvalFits, Reconcile
  PROVE  EvalFits'
<1>1. /\ TypeOK /\ session \in Session /\ place = "reconcile" /\ place' = "waiting"
      /\ Restoring /\ Offering
      /\ UNCHANGED <<life, session, work>>
  BY DEF Reconcile, Inv, TypeOK, Goes, Restoring, Offering
<1>2. \A a \in Attempt : row'[a] # None =>
        /\ row[a] # None /\ row[a].born < session
        /\ row'[a].gen = row[a].gen /\ row'[a].rev = row[a].rev
        /\ row'[a].born = row[a].born
  BY <1>1, ReconcileMoves DEF EvalFits, BornFits
<1>3. session \in Nat /\ Session \subseteq Nat
  BY <1>1 DEF Session
<1>4. \A a \in Attempt :
        \/ run'[a][session].at = "idle"
        \/ run'[a][session].at = "dispatch" /\ row'[a] # None
  BY <1>1, ReconcileMoves, RestoringIsIdle DEF At
<1>5. BornFits'
  <2> SUFFICES ASSUME NEW a \in Attempt, row'[a] # None
               PROVE  /\ row'[a].born < session
                      /\ \A s \in Session : s < row'[a].born => run'[a][s].at = "idle"
    <3>1. \A a \in Attempt : row[a] # None => row[a].born \in Nat
      BY <1>1, <1>3 DEF TypeOK, Row
    <3>. QED BY <1>1, <1>2, <1>3, <3>1 DEF BornFits, At
  <2>1. row[a].born \in Nat
    BY <1>1, <1>2, <1>3 DEF TypeOK, Row
  <2>2. ASSUME NEW s \in Session, s < row[a].born
        PROVE  run'[a][s].at = "idle"
    <3>1. s # session /\ At(a, s, "idle")
      BY <1>2, <1>3, <2>1, <2>2 DEF EvalFits, BornFits
    <3>. QED BY <3>1, ReconcileMoves DEF At
  <2>. QED BY <1>2, <2>2
<1>6. OneOwn'
  <2>1. \A a \in Attempt : ~Own(a)'
    <3>1. \A a \in Attempt : row'[a] # None => row'[a].born # session
      <4>1. \A a \in Attempt : row[a] # None => row[a].born \in Nat
        BY <1>1, <1>3 DEF TypeOK, Row
      <4>. QED BY <1>2, <1>3, <4>1
    <3>. QED BY <1>1, <1>4, <3>1 DEF Own, At
  <2>. QED BY <2>1 DEF OneOwn
<1>7. DraftsFit' /\ AskersFit'
  BY <1>1, <1>4 DEF DraftsFit, AskersFit, At
<1>8. WrittenFits'
  BY <1>1, <1>2 DEF EvalFits, WrittenFits
<1>. QED BY <1>5, <1>6, <1>7, <1>8 DEF EvalFits

\* A session that has just been opened has no saga yet.
LEMMA OpeningKeepsEval ==
  ASSUME Inv, EvalFits, Open \/ Crash
  PROVE  EvalFits'
<1>1. /\ TypeOK /\ session \in Session /\ session' = session + 1 /\ session < MaxSessions
      /\ place' = "settle" /\ UNCHANGED <<life, row>>
  BY DEF Open, Crash, Inv, TypeOK, store
<1>2. session \in Nat /\ session' \in Session /\ Session \subseteq Nat
  BY <1>1, CompletionAssumption DEF Session
<1>3. \A a \in Attempt, s \in Session : At(a, s, "idle") => At(a, s, "idle")'
  <2>1. CASE Open
    BY <2>1 DEF Open, At
  <2>2. CASE Crash
    BY <2>2, IdleType DEF Crash, At
  <2>. QED BY <2>1, <2>2
<1>4. \A a \in Attempt : At(a, session', "idle")
  <2> SUFFICES ASSUME NEW a \in Attempt, ~At(a, session', "idle") PROVE FALSE
    OBVIOUS
  <2>1. SagaFits(a, session')
    BY <1>2, SagaStands
  <2>. QED BY <1>1, <1>2, <2>1 DEF SagaFits
<1>5. \A a \in Attempt : run'[a][session'].at = "idle"
  BY <1>2, <1>3, <1>4 DEF At
<1>6. BornFits'
  <2>1. \A a \in Attempt : row[a] # None => row[a].born \in Nat
    BY <1>1, <1>2 DEF TypeOK, Row
  <2>2. \A a \in Attempt : row[a] # None =>
           row[a].born < session' /\ row[a].born <= session'
    BY <1>1, <1>2, <2>1 DEF EvalFits, BornFits
  <2>. QED BY <1>1, <1>3, <2>2 DEF EvalFits, BornFits
<1>7. OneOwn' /\ DraftsFit' /\ AskersFit'
  BY <1>5 DEF OneOwn, Own, DraftsFit, AskersFit, At
<1>8. WrittenFits'
  BY <1>1 DEF EvalFits, WrittenFits
<1>. QED BY <1>6, <1>7, <1>8 DEF EvalFits

--------------------------------------------------------------------------------
(* Sagas and the evaluated workspace *)

LEMMA MoveRows ==
  ASSUME Inv, NEW a \in Attempt, NEW s \in Session, NEW x \in Saga, Moves(a, s, x),
         NEW b \in Attempt, row'[b] # None
  PROVE  \/ /\ row[b] # None
            /\ row'[b].gen = row[b].gen /\ row'[b].rev = row[b].rev
            /\ row'[b].dec = row[b].dec /\ row'[b].born = row[b].born
         \/ /\ row[b] = None /\ b = a /\ At(a, s, "draft")
            /\ row'[b].gen = Projection(s).gen /\ row'[b].rev = Projection(s).rev
            /\ row'[b].dec = run[a][s].dec /\ row'[b].born = s
<1>1. RowMoves(a, s)
  BY DEF Moves
<1>2. CASE b = a
  BY <1>1, <1>2 DEF RowMoves
<1>3. CASE b # a
  BY <1>1, <1>3 DEF RowMoves
<1>. QED BY <1>2, <1>3

LEMMA MoveSagas ==
  ASSUME Inv, NEW a \in Attempt, NEW s \in Session, NEW x \in Saga, Moves(a, s, x)
  PROVE  /\ ~At(a, s, "idle") /\ run'[a][s] = x
         /\ x.at \in DraftStep => Drafts(a, s, x) /\ Drafting(a, s)
         /\ \A b \in Attempt, t \in Session :
              run'[b][t] = run[b][t] \/ (b = a /\ t = s)
         /\ session \in Session /\ session \in Nat /\ Session \subseteq Nat
         /\ s <= session
<1>1. /\ ~At(a, s, "idle") /\ TypeOK
      /\ x.at \in DraftStep => Drafts(a, s, x) /\ Drafting(a, s)
  BY DEF Moves, StepMoves, Drafts, At, Inv
<1>2. s <= session
  BY <1>1, SagaStands DEF SagaFits
<1>. QED BY <1>1, <1>2, MoveFacts DEF TypeOK, Session

\* The saga that asks for the suspension is the one of the session's own attempt.
LEMMA SuspenderIsFresh ==
  ASSUME Inv, EvalFits, NEW a \in Attempt,
         At(a, session, "suspend"), CanSuspend, life.gen = row[a].gen
  PROVE  Fresh(a) /\ Own(a)
  BY DEF EvalFits, AskersFit, CanSuspend, Over, Fresh, Own, At

LEMMA MoveOfLife ==
  ASSUME Inv, EvalFits, NEW a \in Attempt, NEW s \in Session, NEW x \in Saga,
         Moves(a, s, x), life' # life
  PROVE  /\ s = session /\ ~Drafting(a, s) /\ life'.rev > life.rev
         /\ \/ /\ At(a, s, "suspend") /\ Fresh(a) /\ Own(a) /\ CanSuspend
               /\ life'.state = "suspended"
            \/ Over' /\ life'.state = "completed"
            \/ life.state = "suspended" /\ ~life.fenced /\ life'.state = "active"
<1>1. TypeOK /\ LifeMoves(a, s, x) /\ life.rev \in Nat
  BY MoveFacts DEF Moves, Inv
<1>2. s = session
  BY ClosedSessionsMoveNothing
<1>3. CASE At(a, s, "suspend") /\ CanSuspend /\ life.gen = row[a].gen /\ life' = Suspended(a)
  BY <1>1, <1>2, <1>3, SuspendedIs, SuspenderIsFresh DEF At
<1>4. CASE At(a, s, "settle") /\ life' = Settled
  BY <1>1, <1>2, <1>4, SettledIs DEF At, Over
<1>5. CASE At(a, s, "reactivate") /\ CanReactivate(a, run[a][s].rev) /\ life' = Activated
  BY <1>1, <1>2, <1>5, ActivatedIs DEF At, CanReactivate
<1>. QED BY <1>1, <1>3, <1>4, <1>5 DEF LifeMoves

LEMMA MoveKeepsBorn ==
  ASSUME Inv, EvalFits, NEW a \in Attempt, NEW s \in Session, NEW x \in Saga, Moves(a, s, x)
  PROVE  BornFits' /\ OneOwn'
<1>1. session' = session /\ place' = place /\ (Offering' <=> Offering)
  BY MoveFacts DEF Offering, Restoring
<1>2. BornFits'
  <2> SUFFICES ASSUME NEW b \in Attempt, row'[b] # None
               PROVE  /\ row'[b].born <= session
                      /\ \A t \in Session : t < row'[b].born => run'[b][t].at = "idle"
                      /\ Offering => row'[b].born < session
    BY <1>1 DEF BornFits, At
  <2>1. CASE row[b] # None
    <3>1. row'[b].born = row[b].born
      BY <2>1, MoveRows
    <3>2. \A t \in Session : t < row[b].born => At(b, t, "idle")
      BY <2>1 DEF EvalFits, BornFits
    <3>. QED BY <2>1, <3>1, <3>2, MoveSagas DEF EvalFits, BornFits, At
  <2>2. CASE row[b] = None
    <3>1. b = a /\ At(a, s, "draft") /\ row'[b].born = s /\ s <= session
      BY <2>2, MoveRows, MoveSagas
    <3>2. \A t \in Session \ {s} : At(a, t, "idle")
      BY <3>1, MoveSagas, SagaStands DEF SagaFits, At
    <3>3. \A t \in Session : t < s => run'[b][t].at = "idle"
      BY <3>1, <3>2, MoveSagas DEF At
    <3>4. Offering => s # session
      BY <3>1 DEF EvalFits, DraftsFit, Offering, Restoring, At
    <3>. QED BY <3>1, <3>3, <3>4, MoveSagas
  <2>. QED BY <2>1, <2>2
<1>3. OneOwn'
  <2>1. ASSUME NEW b \in Attempt, Own(b)' PROVE Own(b)
    <3>1. ~At(b, session, "idle")
      BY <1>1, <2>1, MoveSagas DEF Own, At
    <3>2. row[b] # None => row'[b] # None /\ row'[b].born = row[b].born
      BY MoveFacts, MoveRows
    <3>. QED BY <1>1, <2>1, <3>1, <3>2 DEF Own
  <2>. QED BY <2>1 DEF EvalFits, OneOwn
<1>. QED BY <1>2, <1>3

LEMMA MoveKeepsDrafts ==
  ASSUME Inv, EvalFits, NEW a \in Attempt, NEW s \in Session, NEW x \in Saga, Moves(a, s, x)
  PROVE  DraftsFit'
<1>1. session' = session /\ place' = place /\ UNCHANGED work /\ TypeOK
  BY MoveFacts DEF work, Inv
<1>2. \A b \in Attempt : \A y : Consistent(b, y) => Consistent(b, y)'
  BY <1>1 DEF Consistent, Aligned, Stays, work
<1> SUFFICES ASSUME NEW b \in Attempt, Drafting(b, session)'
             PROVE  /\ place \in {"up", "aborting", "closed"} /\ life'.state # "suspended"
                    /\ Consistent(b, run'[b][session])
  BY <1>1, <1>2 DEF DraftsFit
<1>3. Drafting(b, session)
  BY <1>1, MoveSagas
<1>4. /\ place \in {"up", "aborting", "closed"} /\ life.state # "suspended"
      /\ Consistent(b, run[b][session])
  BY <1>3 DEF EvalFits, DraftsFit
<1>5. life'.state # "suspended"
  <2> SUFFICES ASSUME life' # life, life'.state = "suspended" PROVE FALSE
    BY <1>4
  <2>1. s = session /\ At(a, s, "suspend") /\ Own(a)
    BY MoveOfLife
  <2>2. row[b] = None
    BY <1>3, MoveSagas, SagaStands DEF At
  <2>3. Own(b)
    BY <1>3, <2>2 DEF Own, At
  <2>4. a = b
    BY <2>1, <2>3 DEF EvalFits, OneOwn
  <2>. QED BY <1>3, <2>1, <2>4 DEF At
<1>6. Consistent(b, run'[b][session])
  <2>1. CASE run'[b][session] = run[b][session]
    BY <1>4, <2>1
  <2>2. CASE b = a /\ session = s
    <3>1. x = run'[b][session] /\ Drafts(a, session, x)
      <4>1. x = run'[b][session]
        BY <2>2, MoveSagas
      <4>. QED BY <1>1, <2>2, <4>1, MoveSagas
    <3>2. PICK d \in Decision : d = run[a][session].dec
      BY <1>1, <2>2, SagaTypes
    <3>3. PICK v \in 0 .. MaxTree : v = version[session]
      BY <1>1, <2>2 DEF TypeOK
    <3>4. v \in Nat /\ d.mark \in Nat /\ d.version \in Nat
      BY CompletionAssumption DEF Decision
    <3>5. CASE At(a, session, "locate")
      <4>1. x.at = "count" /\ x.dec = [d EXCEPT !.tree = tree]
        BY <3>1, <3>2, <3>5 DEF Drafts, At
      <4>2. x.dec.tree = tree /\ x.dec.mark = d.mark
        BY <4>1 DEF Decision
      <4>. QED BY <1>4, <2>2, <3>1, <3>2, <3>5, <4>1, <4>2 DEF Consistent, Stays, At
    <3>6. CASE At(a, session, "count")
      <4>1. x.at = "judge" /\ x.dec = [d EXCEPT !.version = v]
        BY <3>1, <3>2, <3>3, <3>6 DEF Drafts, At
      <4>2. x.dec.tree = d.tree /\ x.dec.mark = d.mark /\ x.dec.version = v
        BY <4>1 DEF Decision
      <4>. QED BY <1>4, <2>2, <3>1, <3>2, <3>3, <3>4, <3>6, <4>1, <4>2
               DEF Consistent, Aligned, Stays, At
    <3>7. CASE At(a, session, "judge") /\ x.at = "draft" /\ x.dec = d
      BY <1>4, <2>2, <3>1, <3>2, <3>7 DEF Consistent, At
    <3>. QED BY <3>1, <3>2, <3>5, <3>6, <3>7 DEF Drafts
  <2>. QED BY <1>1, <2>1, <2>2, MoveSagas
<1>. QED BY <1>4, <1>5, <1>6

LEMMA MoveKeepsWritten ==
  ASSUME Inv, EvalFits, NEW a \in Attempt, NEW s \in Session, NEW x \in Saga, Moves(a, s, x)
  PROVE  WrittenFits'
<1>1. /\ session' = session /\ place' = place /\ UNCHANGED work
      /\ life'.gen = life.gen /\ life.rev \in Nat
  BY MoveFacts DEF work
<1> SUFFICES ASSUME NEW b \in Attempt, row'[b] # None,
                    row'[b].gen = life'.gen, row'[b].rev = life'.rev
             PROVE  /\ life'.state # "suspended"
                    /\ place = "up" /\ CanSuspend' =>
                         row'[b].born = session /\ Aligned(b, row'[b].dec)
  BY <1>1 DEF WrittenFits, Fresh, Aligned, Stays, work
<1>2. CASE row[b] # None
  <2>1. /\ row'[b].gen = row[b].gen /\ row'[b].rev = row[b].rev
        /\ row'[b].dec = row[b].dec /\ row'[b].born = row[b].born
    BY <1>2, MoveRows
  <2>2. row[b].rev <= life.rev
    BY <1>2 DEF Inv, RowsFit
  <2>3. life' = life
    BY <1>1, <2>1, <2>2, MoveOfLife, MoveFacts
  <2>. QED BY <1>1, <1>2, <2>1, <2>3 DEF EvalFits, WrittenFits, Fresh, CanSuspend
<1>3. CASE row[b] = None
  <2>1. /\ b = a /\ At(a, s, "draft")
        /\ row'[b].gen = Projection(s).gen
        /\ row'[b].dec = run[a][s].dec /\ row'[b].born = s
    BY <1>3, MoveRows
  <2>2. life' = life
    BY <2>1, MoveOfLife DEF At
  <2>3. CASE s = session
    BY <2>1, <2>2, <2>3 DEF EvalFits, DraftsFit, Consistent, At
  <2>4. CASE s # session
    <3>1. s < session
      BY <2>4, MoveSagas
    <3>2. Past(s) /\ life.gen = seen[s].gen
      BY <1>1, <2>1, <2>4, <3>1, MoveSagas, SagaStands DEF SagaFits, Projection
    <3>3. life.gen \in Nat
      BY LifeIsTyped
    <3>4. Over
      BY <3>2, <3>3 DEF Past
    <3>. QED BY <2>2, <3>4 DEF Over, CanSuspend
  <2>. QED BY <2>3, <2>4
<1>. QED BY <1>2, <1>3

\* A session in which the lifecycle could be suspended by a saga is up.
LEMMA SuspenderIsUp ==
  ASSUME Inv, NEW a \in Attempt, ~At(a, session, "idle"), CanSuspend
  PROVE  place = "up"
<1>1. place \in Place /\ PlacesFit
  BY DEF Inv, TypeOK, Sessions
<1>2. ~Leaving
  BY <1>1 DEF PlacesFit, CanSuspend, Over
<1>3. ~Restoring /\ place \notin {"reconcile", "waiting", "failed"}
  BY <1>1 DEF PlacesFit, CanSuspend
<1>. QED BY <1>1, <1>2, <1>3 DEF Place, Leaving, Restoring

LEMMA MoveKeepsAskers ==
  ASSUME Inv, EvalFits, NEW a \in Attempt, NEW s \in Session, NEW x \in Saga, Moves(a, s, x)
  PROVE  AskersFit'
<1>1. /\ session' = session /\ place' = place /\ UNCHANGED work
      /\ life'.gen = life.gen /\ session \in Session
  BY MoveFacts, MoveSagas DEF work
<1>2. \A b \in Attempt : row[b] # None /\ Fresh(b) => Fresh(b)'
  BY <1>1, MoveFacts, MoveRows DEF Fresh, Aligned, Stays, work
<1>3. StepMoves(a, s, x) /\ LifeMoves(a, s, x)
  BY DEF Moves
<1>4. ASSUME NEW b \in Attempt, run'[b][session].at = "suspend", row'[b].gen = life'.gen
      PROVE  Over' \/ life'.fenced \/ (life'.state = "active" /\ Fresh(b)')
  <2>1. CASE run'[b][session] = run[b][session]
    <3>1. At(b, session, "suspend") /\ row[b] # None
      BY <1>1, <1>4, <2>1, SagaStands DEF At
    <3>2. row[b].gen = life.gen
      BY <1>1, <1>4, <3>1, MoveFacts
    <3>3. Over \/ life.fenced \/ (life.state = "active" /\ Fresh(b))
      BY <3>1, <3>2 DEF EvalFits, AskersFit
    <3>4. CASE life' = life
      BY <1>2, <3>1, <3>3, <3>4 DEF Over
    <3>5. CASE life' # life
      <4>1. CASE /\ At(a, s, "suspend") /\ Own(a) /\ CanSuspend /\ s = session
                 /\ life'.state = "suspended"
        <5>1. Own(b)
          BY <3>1, <3>3, <4>1 DEF CanSuspend, Over, Fresh, Own, At
        <5>2. a = b
          BY <4>1, <5>1 DEF EvalFits, OneOwn
        <5>3. x.at = "ask"
          BY <1>3, <3>5, <4>1 DEF LifeMoves, At
        <5>. QED BY <1>4, <4>1, <5>2, <5>3, MoveSagas
      <4>2. CASE life.state = "suspended" /\ ~life.fenced
        BY <3>3, <4>2 DEF Over
      <4>. QED BY <3>5, <4>1, <4>2, MoveOfLife
    <3>. QED BY <3>4, <3>5
  <2>2. CASE b = a /\ session = s
    <3>1. x.at = "suspend"
      BY <1>4, <2>2, MoveSagas
    <3>2. life' = life /\ At(a, s, "propose") /\ Projection(s).rev = row[a].rev
      BY <1>3, <3>1 DEF StepMoves, LifeMoves
    <3>3. row[a] # None /\ life.rev = row[a].rev
      BY <2>2, <3>2, SagaStands DEF At, Projection
    <3>4. row[a].gen = life.gen
      BY <1>1, <1>4, <2>2, <3>3, MoveFacts
    <3>5. life.state # "suspended" /\ (place = "up" /\ CanSuspend => Fresh(a))
      BY <3>3, <3>4 DEF EvalFits, WrittenFits
    <3>6. ~At(a, session, "idle")
      BY <2>2, <3>2 DEF At
    <3>7. CASE ~(Over \/ life.fenced)
      <4>1. CanSuspend
        BY <3>5, <3>7, LifeIsTyped DEF CanSuspend, Over
      <4>2. Fresh(a)
        BY <3>5, <3>6, <4>1, SuspenderIsUp
      <4>. QED BY <1>2, <2>2, <3>2, <3>3, <4>1, <4>2 DEF CanSuspend
    <3>. QED BY <3>2, <3>7 DEF Over
  <2>. QED BY <1>1, <2>1, <2>2, MoveSagas
<1>5. ASSUME NEW b \in Attempt, run'[b][session].at \in {"ask", "commit"}
      PROVE  Fresh(b)'
  <2>1. CASE run'[b][session] = run[b][session]
    <3>1. (At(b, session, "ask") \/ At(b, session, "commit")) /\ row[b] # None
      BY <1>1, <1>5, <2>1, SagaStands DEF At
    <3>. QED BY <1>2, <3>1 DEF EvalFits, AskersFit
  <2>2. CASE b = a /\ session = s
    <3>1. x.at \in {"ask", "commit"}
      BY <1>5, <2>2, MoveSagas
    <3>2. \/ At(a, s, "suspend") /\ CanSuspend /\ life.gen = row[a].gen
          \/ At(a, s, "ask")
      BY <1>3, <3>1 DEF StepMoves, LifeMoves
    <3>3. Fresh(a) /\ row[a] # None
      BY <2>2, <3>2, SuspenderIsFresh, SagaStands DEF EvalFits, AskersFit, At
    <3>. QED BY <1>2, <2>2, <3>3
  <2>. QED BY <1>1, <2>1, <2>2, MoveSagas
<1>. QED BY <1>1, <1>4, <1>5 DEF AskersFit, At

LEMMA SagaKeepsEval ==
  ASSUME Inv, EvalFits, NEW a \in Attempt, NEW s \in Session, SagaStep(a, s)
  PROVE  EvalFits'
<1>1. PICK x \in Saga : Moves(a, s, x)
  BY SagaMoves
<1>. QED BY <1>1, MoveKeepsBorn, MoveKeepsDrafts, MoveKeepsWritten, MoveKeepsAskers
     DEF EvalFits

LEMMA NextKeepsEval ==
  ASSUME Inv, EvalFits, [Next]_vars
  PROVE  EvalFits'
<1>1. CASE \E a \in Attempt : Evaluate(a)
  BY <1>1, EvaluateKeepsEval
<1>2. CASE \E a \in Attempt : \E s \in Session : SagaStep(a, s)
  BY <1>2, SagaKeepsEval
<1>3. CASE SettleAgain \/ Resume \/ Cancel \/ SettleCancel
  BY <1>3, SettleAgainKeepsEval, ResumeKeepsEval, CancelKeepsEval
<1>4. CASE ToolStarts \/ ToolWrites \/ ToolEnds \/ UNCHANGED vars
  BY <1>4, StayKeepsEval, ToolKeepsEval
<1>5. CASE Restore
  BY <1>5, RestoreKeepsEval, ReconcileKeepsEval DEF Restore
<1>6. CASE Open \/ Crash
  BY <1>6, OpeningKeepsEval
<1>. QED BY <1>1, <1>2, <1>3, <1>4, <1>5, <1>6 DEF Next

LEMMA InitEval == Init => EvalFits
<1> SUFFICES ASSUME Init PROVE EvalFits
  OBVIOUS
<1>1. session = 1 /\ session \in Session
  BY CompletionAssumption DEF Init, Session
<1>2. /\ \A a \in Attempt : row[a] = None
      /\ \A a \in Attempt : run[a][session].at = "idle"
  BY <1>1, IdleType DEF Init
<1>. QED BY <1>2 DEF EvalFits, BornFits, OneOwn, Own, DraftsFit, WrittenFits, AskersFit, At

\* A step that records attempt a as the fact is the commit of its saga, and in
\* the open session nothing was counted since the version was read.
LEMMA CommitIsAligned ==
  ASSUME Inv, EvalFits, [Next]_vars,
         NEW a \in Attempt, At(a, session, "commit"), fact = None, fact' = a
  PROVE  Stays(a, row[a].dec) \/ row[a].dec.mark # row[a].dec.version
<1>1. fact' # fact
  BY NoneIsNothing, SMTT(60)
<1>2. PICK b \in Attempt, s \in Session : SagaStep(b, s)
  BY <1>1 DEF Next, Evaluate, SettleAgain, ToolStarts, ToolWrites, ToolEnds, Restore, Migrate,
              Recover, Interrupt, Reconcile, Resume, Cancel, SettleCancel, Open, Crash, vars, store
<1>3. PICK x \in Saga : Moves(b, s, x)
  BY <1>2, SagaMoves
<1>4. b = a /\ At(a, s, "commit") /\ version[s] = row[a].dec.version
  BY <1>1, <1>3 DEF Moves, FactMoves
<1>5. Fresh(a) /\ row[a] \in Row /\ row[a] # None /\ TypeOK
  <2>1. session \in Session
    BY DEF Inv, TypeOK
  <2>. QED BY <2>1, SagaStands DEF EvalFits, AskersFit, At, Inv
<1>6. s = session
  <2>1. s <= session /\ session \in Nat /\ s \in Nat
    BY <1>3, MoveSagas
  <2>2. row[a].born = session
    BY <1>5 DEF Fresh
  <2>3. s < session => At(a, s, "idle")
    BY <1>5, <2>2 DEF EvalFits, BornFits
  <2>. QED BY <1>4, <2>1, <2>3 DEF At
<1>. QED BY <1>4, <1>5, <1>6 DEF Fresh, Aligned

\* Of what the open session commits as accepted, the workspace is the one it
\* looked at, for any number of attempts, sessions, generations and changes, but
\* for changes that were not counted, or counted while it looked: a row that
\* reaches the question was written by the open session, and the version that
\* commitTaskCompletionTransaction compares is the one of the evaluation.
THEOREM AcceptedIsEvaluated == Spec => AcceptedAsEvaluated
<1> DEFINE Accepts == \A a \in Attempt :
             At(a, session, "commit") /\ fact = None /\ fact' = a
               => \/ tree = row[a].dec.tree
                  \/ tool = "written"
                  \/ a \in slipped
                  \/ row[a].dec.mark # row[a].dec.version
<1>1. Init => EvalFits
  BY InitEval
<1>2. Inv /\ EvalFits /\ [Next]_vars => EvalFits'
  BY NextKeepsEval
<1>3. Inv /\ EvalFits /\ [Next]_vars => [Accepts]_vars
  BY CommitIsAligned DEF Stays
<1>4. AcceptedAsEvaluated <=> [][Accepts]_vars
  BY PTL DEF AcceptedAsEvaluated
<1>. HIDE DEF Accepts
<1>. QED BY <1>1, <1>2, <1>3, <1>4, InvHolds, PTL DEF Spec

================================================================================

----------------------------- MODULE TaskLifecycle -----------------------------
(***************************************************************************)
(* The task lifecycle funnel over its durable store.  Several funnels (one *)
(* per process) share the tables.  Every task has a tail in each funnel,   *)
(* which serves one intent at a time: load and evaluate, commit by         *)
(* compare-and-swap under the constraints of parent and children, publish, *)
(* and propagate a cancellation or an end to the attached children, each   *)
(* by a nested submit on the child's tail.  The journal is the commit      *)
(* marker; the record table is its projection and is repaired on read.     *)
(***************************************************************************)
EXTENDS Integers, Sequences, FiniteSets

CONSTANTS
    Task,          \* task ids
    Parent,        \* [Task -> Task \cup {None}]: whom a task is attached to
    Funnel,        \* funnels, one per process
    Caller,        \* asynchronous callers, one open submit each
    Home,          \* [Caller -> Funnel]
    None,
    Asks,          \* what callers submit
    Duty,          \* [Caller -> SUBSET Task]: the tasks a caller is about
    Restored,      \* <<f, t>>: funnel f restores task t
    MaxRev,        \* bound: a caller submits below this revision
    MaxGen,        \* bound: a caller asks for a new generation below this one
    MaxClock,      \* bound on the clock
    MaxFaults,     \* bound on store operations that throw
    MaxCrashes     \* bound on crashes of a process

ASSUME TreeAssumption ==
    /\ None \notin Task
    /\ Parent \in [Task -> Task \cup {None}]
    /\ \A t \in Task : Parent[t] # t
    /\ Home \in [Caller -> Funnel]
    /\ None \notin Caller
    /\ Duty \in [Caller -> SUBSET Task]
    /\ Restored \subseteq Funnel \X Task
    /\ MaxRev \in Nat /\ MaxGen \in Nat /\ MaxClock \in Nat
    /\ MaxFaults \in Nat /\ MaxCrashes \in Nat

VARIABLES
    journal,   \* per task: the record of its latest committed event, or None
    rows,      \* per task: rows of the record table, with their storage key
    cache,     \* per funnel and task: authoritativeRecords
    tail,      \* per funnel and task: the submits in line, the first one served
    draft,     \* per funnel and task: the record the served submit evaluated
    stage,     \* per funnel and task: where the served submit stands
    wave,      \* per funnel, task and kind: propagation to the children
    restored,  \* per funnel and task: what restore has read and not projected
    clock,     \* Date.now(), as completion facts and requests read it
    faults, crashes

store == <<journal, rows>>
memory == <<cache, tail, draft, stage, wave, restored>>
bounds == <<clock, faults, crashes>>
vars == <<store, memory, bounds>>

--------------------------------------------------------------------------------
(* Records, intents, waves *)

State == {"registered", "active", "suspended", "terminal"}
Outcome == {"completed", "cancelled", "failed", "timed_out"}
NotAsked == -1
Kind == {"submit", "restore"}
Stage == {"load", "commit", "publish", "propagate"}

\* The intents of a caller.  AwaitDecision is the suspension by the completion
\* funnel, ReplaceGeneration a resume that names a new generation.
OwnIntent == {"RegisterGeneration", "ActivateGeneration", "SuspendGeneration",
              "AwaitDecision", "ReactivateAfterCompletionRejection",
              "ResumeGeneration", "ReplaceGeneration", "RequestCancellation",
              "SettleCancellation", "SettleCompletion", "SettleFailure",
              "SettleTimeout"}
Intent == OwnIntent \cup {"PropagateParentTermination"}

\* last is the transition of the record's event; <<task, rev>> identifies it.
Record == [gen : Nat, rev : Nat, state : State, outcome : Outcome \cup {"none"},
           asked : Nat \cup {NotAsked}, pgen : Nat, last : Intent]

\* at: the revision, fact time or parent event the intent names.
Job == [type : Intent, gen : Nat, at : Nat, outcome : Outcome \cup {"none"},
        by : Caller \cup (Task \X Kind)]

Kid == [task : Task, gen : Nat, asked : BOOLEAN]
\* cur is the child whose turn it is; a job of the wave may be in its tail.
Wave == [ev : Record, listed : BOOLEAN, kids : SUBSET Kid, cur : Kid \cup {None}]

Row == [key : Nat, gen : Nat, rev : Nat]

ASSUME CallerAssumption == Caller \cap (Task \X Kind) = {}
ASSUME NoneAssumption == None \notin Record \cup Kid \cup Wave

Asked(r) == r.asked # NotAsked
Nested(j) == j.by \notin Caller

TypeOK ==
    /\ journal \in [Task -> Record \cup {None}]
    /\ rows \in [Task -> SUBSET Row]
    /\ cache \in [Funnel -> [Task -> Record \cup {None}]]
    /\ tail \in [Funnel -> [Task -> Seq(Job)]]
    /\ draft \in [Funnel -> [Task -> Record \cup {None}]]
    /\ stage \in [Funnel -> [Task -> Stage]]
    /\ wave \in [Funnel -> [Task \X Kind -> Wave \cup {None}]]
    /\ restored \in [Funnel -> [Task -> Record \cup {None}]]
    /\ clock \in Nat /\ faults \in Nat /\ crashes \in Nat

NoRecords == [t \in Task |-> None]
NoWaves == [w \in Task \X Kind |-> None]

Init ==
    /\ journal = NoRecords
    /\ rows = [t \in Task |-> {}]
    /\ cache = [f \in Funnel |-> NoRecords]
    /\ tail = [f \in Funnel |-> [t \in Task |-> <<>>]]
    /\ draft = [f \in Funnel |-> NoRecords]
    /\ stage = [f \in Funnel |-> [t \in Task |-> "load"]]
    /\ wave = [f \in Funnel |-> NoWaves]
    /\ restored = [f \in Funnel |-> NoRecords]
    /\ clock = 0 /\ faults = 0 /\ crashes = 0

--------------------------------------------------------------------------------
(* The record table.  A row lies under the key of the generation it was      *)
(* first written with; DELETE looks rows up under the key of their content.  *)

Matches(t) == \E r \in rows[t] : rows[t] = {r} /\ r.gen = journal[t].gen
                                               /\ r.rev = journal[t].rev

\* The rows a DELETE of all rows of t misses.
Missed(t) == {r \in rows[t] : \A s \in rows[t] : r.key # s.gen}

\* Repair by DELETE and INSERT; the INSERT is skipped, and the read throws,
\* when a row with the same content key is still there.
Readable(t) ==
    ~(journal[t] = None) /\ ~Matches(t) =>
        \A r \in Missed(t) : r.gen # journal[t].gen

Put(R, row) == {r \in R : r.key # row.key} \cup {row}

Repaired(t) ==
    CASE journal[t] = None -> Missed(t)
      [] journal[t] # None /\ Matches(t) -> rows[t]
      [] OTHER -> Put(Missed(t), [key |-> journal[t].gen, gen |-> journal[t].gen,
                                  rev |-> journal[t].rev])

\* Mutant: rows lie under one key per task, DELETE looks for the generation's.
Written_OneKey(t, d) ==
    Put(Repaired(t), [key |-> 0, gen |-> d.gen, rev |-> d.rev])

\* The row of a commit: a new row, or an UPDATE under the key of the old row.
Written(t, d) ==
    Put(Repaired(t), [key |-> IF journal[t] = None THEN d.gen ELSE journal[t].gen,
                      gen |-> d.gen, rev |-> d.rev])

--------------------------------------------------------------------------------
(* Evaluation and constraints *)

Attached(t) == Parent[t] # None
Children(p) == {c \in Task : Parent[c] = p}

\* submitSerialized and evaluate: does record r, or None, accept job j?
Accepts(r, j) ==
    \/ r = None /\ j.type = "RegisterGeneration"
    \/ /\ r # None /\ j.type # "RegisterGeneration"
       /\ j.gen = r.gen
       /\ r.state = "terminal" => j.type = "ReplaceGeneration"
       /\ j.type = "ActivateGeneration" => r.state = "registered"
       /\ j.type \in {"SuspendGeneration", "AwaitDecision"} =>
             r.state = "active" /\ ~Asked(r)
       /\ j.type = "ReactivateAfterCompletionRejection" =>
             r.rev = j.at /\ ~Asked(r) /\ r.last = "AwaitDecision"
       /\ j.type = "ResumeGeneration" => r.state = "suspended" /\ ~Asked(r)
       /\ j.type = "ReplaceGeneration" => r.state \in {"suspended", "terminal"}
       /\ j.type \in {"RequestCancellation", "SettleFailure", "SettleTimeout"} =>
             ~Asked(r)
       /\ j.type = "SettleCancellation" => Asked(r)
       /\ j.type = "SettleCompletion" /\ Asked(r) => j.at < r.asked

\* Mutant: a failure goes by another name than the readers know.
EndOf_Misnamed(j) ==
    CASE j.type = "SettleCompletion" -> "completed"
      [] j.type = "SettleCancellation" -> "cancelled"
      [] j.type = "SettleFailure" -> "error"
      [] j.type = "PropagateParentTermination" -> j.outcome
      [] OTHER -> "none"

EndOf(j) ==
    CASE j.type = "SettleCompletion" -> "completed"
      [] j.type = "SettleCancellation" -> "cancelled"
      [] j.type = "SettleFailure" -> "failed"
      [] j.type = "SettleTimeout" -> "timed_out"
      [] j.type = "PropagateParentTermination" -> j.outcome
      [] OTHER -> "none"

StateAfter(r, j) ==
    CASE EndOf(j) # "none" -> "terminal"
      [] j.type = "RegisterGeneration" -> "registered"
      [] j.type \in {"SuspendGeneration", "AwaitDecision"} -> "suspended"
      [] j.type \in {"ActivateGeneration", "ReactivateAfterCompletionRejection",
                     "ResumeGeneration", "ReplaceGeneration"} -> "active"
      [] OTHER -> r.state

Evaluated(r, j) ==
    IF r = None
    THEN [gen |-> j.gen, rev |-> 1, state |-> "registered", outcome |-> "none",
          asked |-> NotAsked, pgen |-> j.at, last |-> j.type]
    ELSE [r EXCEPT !.rev = @ + 1, !.last = j.type,
                   !.state = StateAfter(r, j), !.outcome = EndOf(j),
                   !.gen = IF j.type = "ReplaceGeneration" THEN @ + 1 ELSE @,
                   !.asked = CASE j.type = "ReplaceGeneration" -> NotAsked
                               [] j.type = "RequestCancellation" -> clock
                               [] OTHER -> @]

\* What the parent's committed record allows job j with result d.
ParentAllows(t, j, d) ==
    LET p == journal[Parent[t]] IN
    Attached(t) =>
      /\ p # None /\ p.gen = d.pgen
      /\ j.type = "RegisterGeneration" => p.state = "active" /\ ~Asked(p)
      /\ Nested(j) =>
           /\ j.at = p.rev
           /\ j.type = "RequestCancellation" => Asked(p)
           /\ j.type = "SettleCancellation" => p.outcome = "cancelled"
           /\ j.type = "PropagateParentTermination" =>
                 p.outcome = j.outcome /\ p.outcome \in {"failed", "timed_out"}
      /\ p.state = "terminal" =>
           Nested(j) /\ j.type \in {"PropagateParentTermination", "SettleCancellation"}
      /\ Asked(p) => j.type \in {"RequestCancellation", "SettleCancellation"}

\* The live children of generation g of t, in the journal.
LiveChildren(t, g) ==
    {c \in Children(t) : ~(journal[c] = None) /\ journal[c].pgen = g
                                             /\ journal[c].state # "terminal"}

\* Mutant: only completion waits for the children.
ChildrenAllow_Completion(t, j) ==
    j.type = "SettleCompletion" => LiveChildren(t, j.gen) = {}

ChildrenAllow(t, j) ==
    j.type \in {"SettleCompletion", "ReplaceGeneration"} =>
        LiveChildren(t, j.gen) = {}

Revision(t) == IF journal[t] = None THEN 0 ELSE journal[t].rev

--------------------------------------------------------------------------------
(* Submitting and answering *)

\* Is a job of caller or wave b in a tail of funnel f?
Waiting(f, b) == \E t \in Task : \E i \in DOMAIN tail[f][t] : tail[f][t][i].by = b

\* The generation a new task is attached to, as funnel f last saw the parent.
ParentSeen(f, t) ==
    CASE ~Attached(t) -> {0}
      [] Attached(t) /\ cache[f][Parent[t]] = None -> {}
      [] OTHER -> {cache[f][Parent[t]].gen}

\* The jobs caller k of funnel f may ask of t: generation and revision are
\* those its process last saw, a completion fact has the time of its commit.
OwnJobs(k, f, t) ==
    LET seen == cache[f][t]
        job(type, gen, at) == [type |-> type, gen |-> gen, at |-> at,
                               outcome |-> "none", by |-> k]
    IN  IF seen = None
        THEN {job("RegisterGeneration", 1, g) : g \in ParentSeen(f, t)}
        ELSE {job(type, seen.gen,
                  CASE type = "ReactivateAfterCompletionRejection" -> seen.rev
                    [] type = "SettleCompletion" -> clock
                    [] OTHER -> 0) :
                type \in (OwnIntent \cap Asks) \ {"RegisterGeneration"}}

Submit(k, t) ==
    /\ t \in Duty[k] /\ ~Waiting(Home[k], k)
    /\ Revision(t) < MaxRev
    /\ \E j \in OwnJobs(k, Home[k], t) :
         /\ j.type = "ReplaceGeneration" => j.gen < MaxGen
         /\ tail' = [tail EXCEPT ![Home[k]][t] = Append(@, j)]
    /\ UNCHANGED <<store, cache, draft, stage, wave, restored, bounds>>

\* What is left of wave w when its job of the moment is answered with r.
Answered(w, r) ==
    [w EXCEPT !.cur = IF ~(r = None) /\ r.last = "RequestCancellation"
                         /\ w.ev.outcome = "cancelled"
                      THEN [@ EXCEPT !.asked = TRUE] ELSE None]

\* The submit served on t of funnel f returns r, or None when it is rejected.
Answer(f, t, r, waves) ==
    LET b == Head(tail[f][t]).by IN
    /\ tail' = [tail EXCEPT ![f][t] = Tail(@)]
    /\ draft' = [draft EXCEPT ![f][t] = None]
    /\ stage' = [stage EXCEPT ![f][t] = "load"]
    /\ wave' = [wave EXCEPT ![f] =
                  IF b \in Caller THEN waves
                  ELSE [waves EXCEPT ![b] = Answered(@, r)]]

Served(f, t, s) == tail[f][t] # <<>> /\ stage[f][t] = s

\* A store operation on the tasks of T throws.
Throws(T) ==
    \/ \E t \in T : ~Readable(t) /\ UNCHANGED bounds
    \/ faults < MaxFaults /\ faults' = faults + 1 /\ UNCHANGED <<clock, crashes>>

--------------------------------------------------------------------------------
(* One submit: load and evaluate, commit, publish *)

\* What funnel f knows once it has read the record of t.
Learnt(f, t) ==
    [cache EXCEPT ![f][t] = IF journal[t] = None THEN @ ELSE journal[t]]

Load(f, t) ==
    /\ Served(f, t, "load") /\ Readable(t)
    /\ rows' = [rows EXCEPT ![t] = Repaired(t)]
    /\ cache' = Learnt(f, t)
    /\ LET j == Head(tail[f][t])
       IN  IF Accepts(journal[t], j)
           THEN /\ draft' = [draft EXCEPT ![f][t] = Evaluated(journal[t], j)]
                /\ stage' = [stage EXCEPT ![f][t] = "commit"]
                /\ UNCHANGED <<tail, wave>>
           ELSE Answer(f, t, None, wave[f])
    /\ UNCHANGED <<journal, restored, bounds>>

LoadThrows(f, t) ==
    /\ Served(f, t, "load") /\ Throws({t})
    /\ Answer(f, t, None, wave[f])
    /\ UNCHANGED <<store, cache, restored>>

\* Mutant: the compare-and-swap compares existence only.
Unchanged_Exists(f, t) == (journal[t] = None) = (draft[f][t].rev = 1)

\* The record is still the one the draft was evaluated from.
Unchanged(f, t) == Revision(t) = draft[f][t].rev - 1

Allowed(f, t) ==
    LET j == Head(tail[f][t]) IN
    ParentAllows(t, j, draft[f][t]) /\ ChildrenAllow(t, j)

\* The tasks whose records a commit reads, and repairs.
Reads(f, t) == {t} \cup {p \in Task : p = Parent[t] /\ Unchanged(f, t)}

RepairedRows(T) == [u \in Task |-> IF u \in T THEN Repaired(u) ELSE rows[u]]

Commit(f, t) ==
    /\ Served(f, t, "commit") /\ \A u \in Reads(f, t) : Readable(u)
    /\ Unchanged(f, t) /\ Allowed(f, t)
    /\ journal' = [journal EXCEPT ![t] = draft[f][t]]
    /\ rows' = [RepairedRows(Reads(f, t)) EXCEPT ![t] = Written(t, draft[f][t])]
    /\ stage' = [stage EXCEPT ![f][t] = "publish"]
    /\ UNCHANGED <<cache, tail, draft, wave, restored, bounds>>

CommitRefused(f, t) ==
    /\ Served(f, t, "commit") /\ \A u \in Reads(f, t) : Readable(u)
    /\ ~(Unchanged(f, t) /\ Allowed(f, t))
    /\ rows' = RepairedRows(Reads(f, t))
    /\ Answer(f, t, None, wave[f])
    /\ UNCHANGED <<journal, cache, restored, bounds>>

\* Mutant: the record is published although its commit threw.
CommitThrows_Published(f, t) ==
    /\ Served(f, t, "commit") /\ Throws(Reads(f, t))
    /\ cache' = [cache EXCEPT ![f][t] = draft[f][t]]
    /\ Answer(f, t, None, wave[f])
    /\ UNCHANGED <<store, restored>>

CommitThrows(f, t) ==
    /\ Served(f, t, "commit") /\ Throws(Reads(f, t))
    /\ Answer(f, t, None, wave[f])
    /\ UNCHANGED <<store, cache, restored>>

\* Does record r, as an event, concern the children?
Propagates(r) ==
    \/ r.last = "RequestCancellation"
    \/ r.state = "terminal" /\ r.outcome # "completed"

NewWave(r) == [ev |-> r, listed |-> FALSE, kids |-> {}, cur |-> None]

Publish(f, t) ==
    /\ Served(f, t, "publish")
    /\ LET r == draft[f][t] IN
       /\ cache' = [cache EXCEPT ![f][t] = r]
       /\ IF Propagates(r)
          THEN /\ wave' = [wave EXCEPT ![f][<<t, "submit">>] = NewWave(r)]
               /\ stage' = [stage EXCEPT ![f][t] = "propagate"]
               /\ UNCHANGED <<tail, draft>>
          ELSE Answer(f, t, r, wave[f])
    /\ UNCHANGED <<store, restored, bounds>>

--------------------------------------------------------------------------------
(* Propagation to the attached children, after a commit or on restore *)

\* What event ev has to say to child c, from the child's record in the list.
Told(ev, c) ==
    IF ev.last = "RequestCancellation" \/ ev.outcome = "cancelled"
    THEN ev.outcome = "cancelled" \/ ~Asked(journal[c])
    ELSE TRUE

ListChildren(f, w) ==
    LET v == wave[f][w] IN
    /\ ~(v = None) /\ ~v.listed
    /\ wave' = [wave EXCEPT ![f][w].listed = TRUE, ![f][w].kids =
                  {[task |-> c, gen |-> journal[c].gen, asked |-> Asked(journal[c])] :
                     c \in {x \in LiveChildren(w[1], v.ev.gen) : Told(v.ev, x)}}]
    /\ UNCHANGED <<store, cache, tail, draft, stage, restored, bounds>>

\* The children whose turn may be next; the one being served comes first.
Turn(v) == IF v.cur = None THEN v.kids ELSE {v.cur}

Order(v, kid) ==
    CASE v.ev.outcome \in {"failed", "timed_out"} -> "PropagateParentTermination"
      [] v.ev.outcome \notin {"failed", "timed_out"} /\ ~kid.asked -> "RequestCancellation"
      [] OTHER -> "SettleCancellation"

Send(f, w) ==
    LET v == wave[f][w] IN
    /\ ~(v = None) /\ ~Waiting(f, w)
    /\ \E kid \in Turn(v) :
         /\ tail' = [tail EXCEPT ![f][kid.task] = Append(@,
               [type |-> Order(v, kid), gen |-> kid.gen, at |-> v.ev.rev,
                outcome |-> v.ev.outcome, by |-> w])]
         /\ wave' = [wave EXCEPT ![f][w].cur = kid, ![f][w].kids = @ \ {kid}]
    /\ UNCHANGED <<store, cache, draft, stage, restored, bounds>>

\* The wave of a submit answers the submit, that of a restore just ends.
EndWave(f, w) ==
    LET left == [wave[f] EXCEPT ![w] = None] IN
    IF w[2] = "submit" THEN Answer(f, w[1], wave[f][w].ev, left)
    ELSE wave' = [wave EXCEPT ![f] = left] /\ UNCHANGED <<tail, draft, stage>>

WaveEnds(f, w) ==
    LET v == wave[f][w] IN
    /\ ~(v = None) /\ v.listed /\ Turn(v) = {} /\ ~Waiting(f, w)
    /\ EndWave(f, w)
    /\ UNCHANGED <<store, cache, restored, bounds>>

\* Mutant: a propagation that throws takes the answer of its submit along.
ListThrows_Escapes(f, w) ==
    /\ ~(wave[f][w] = None) /\ ~wave[f][w].listed
    /\ faults < MaxFaults /\ faults' = faults + 1
    /\ wave' = [wave EXCEPT ![f][w] = None]
    /\ UNCHANGED <<store, cache, tail, draft, stage, restored, clock, crashes>>

\* listAttachedChildren throws: the propagation is "deferred", that is dropped.
ListThrows(f, w) ==
    /\ ~(wave[f][w] = None) /\ ~wave[f][w].listed
    /\ faults < MaxFaults /\ faults' = faults + 1
    /\ EndWave(f, w)
    /\ UNCHANGED <<store, cache, restored, clock, crashes>>

RestoreLoad(f, t) ==
    /\ <<f, t>> \in Restored /\ restored[f][t] = None /\ Readable(t)
    /\ rows' = [rows EXCEPT ![t] = Repaired(t)]
    /\ cache' = Learnt(f, t)
    /\ restored' = [restored EXCEPT ![f][t] = journal[t]]
    /\ UNCHANGED <<journal, tail, draft, stage, wave, bounds>>

\* Mutant: restore projects the record and does not repeat its propagation.
RestoreProject_Only(f, t) ==
    /\ ~(restored[f][t] = None)
    /\ cache' = [cache EXCEPT ![f][t] = restored[f][t]]
    /\ restored' = [restored EXCEPT ![f][t] = None]
    /\ UNCHANGED <<store, tail, draft, stage, wave, bounds>>

\* After loadEvent: the record read before it is projected once more.
RestoreProject(f, t) ==
    LET r == restored[f][t]  w == <<t, "restore">> IN
    /\ ~(r = None) /\ wave[f][w] = None
    /\ cache' = [cache EXCEPT ![f][t] = r]
    /\ restored' = [restored EXCEPT ![f][t] = None]
    /\ wave' = [wave EXCEPT ![f][w] = IF Propagates(r) THEN NewWave(r) ELSE None]
    /\ UNCHANGED <<store, tail, draft, stage, bounds>>

--------------------------------------------------------------------------------
(* Crashes, time *)

Crash(f) ==
    /\ crashes < MaxCrashes /\ crashes' = crashes + 1
    /\ cache' = [cache EXCEPT ![f] = NoRecords]
    /\ tail' = [tail EXCEPT ![f] = [t \in Task |-> <<>>]]
    /\ draft' = [draft EXCEPT ![f] = NoRecords]
    /\ stage' = [stage EXCEPT ![f] = [t \in Task |-> "load"]]
    /\ wave' = [wave EXCEPT ![f] = NoWaves]
    /\ restored' = [restored EXCEPT ![f] = NoRecords]

CrashAnywhere(f) == Crash(f) /\ UNCHANGED <<store, clock, faults>>

\* The process stops between the record row and the journal row of a commit.
CrashInCommit(f, t) ==
    /\ Served(f, t, "commit") /\ \A u \in Reads(f, t) : Readable(u)
    /\ Unchanged(f, t) /\ Allowed(f, t)
    /\ rows' = [RepairedRows(Reads(f, t)) EXCEPT ![t] = Written(t, draft[f][t])]
    /\ Crash(f)
    /\ UNCHANGED <<journal, clock, faults>>

Tick == clock < MaxClock /\ clock' = clock + 1
        /\ UNCHANGED <<store, memory, faults, crashes>>

SubmitStep(f, t) == Load(f, t) \/ LoadThrows(f, t) \/ Commit(f, t)
                    \/ CommitRefused(f, t) \/ CommitThrows(f, t) \/ Publish(f, t)
WaveStep(f, w) == ListChildren(f, w) \/ ListThrows(f, w) \/ Send(f, w) \/ WaveEnds(f, w)
RestoreStep(f, t) == RestoreLoad(f, t) \/ RestoreProject(f, t)

Next ==
    \/ \E k \in Caller, t \in Task : Submit(k, t)
    \/ \E f \in Funnel, t \in Task :
         SubmitStep(f, t) \/ RestoreStep(f, t) \/ CrashInCommit(f, t)
    \/ \E f \in Funnel, w \in Task \X Kind : WaveStep(f, w)
    \/ \E f \in Funnel : CrashAnywhere(f)
    \/ Tick

Spec == Init /\ [][Next]_vars

\* Awaits are resumed; nothing makes a caller submit or a process crash.
FairSpec ==
    /\ Spec
    /\ \A f \in Funnel, t \in Task : WF_vars(SubmitStep(f, t)) /\ WF_vars(RestoreProject(f, t))
    /\ \A f \in Funnel, w \in Task \X Kind : WF_vars(WaveStep(f, w))

\* As FairSpec, and every task is restored time and again.
RestoredSpec ==
    FairSpec /\ \A f \in Funnel, t \in Task : WF_vars(RestoreLoad(f, t))

--------------------------------------------------------------------------------
(* Properties *)

\* An attached generation lives on only while its parent's generation is the
\* current one and has not completed: settle_completion and replace_generation
\* wait for the live children (commit, activeChild), and a child cannot
\* register under an ended parent, whatever the funnels interleave.
EndedParentHasNoLiveChild ==
    \A p \in Task : \A c \in Children(p) :
        ~(journal[c] = None) /\ journal[c].state # "terminal" =>
            /\ ~(journal[p] = None) /\ journal[p].gen = journal[c].pgen
            /\ journal[p].outcome # "completed"

\* What a process knows of a task (authoritativeRecords) was committed: it is
\* never ahead of the journal, and at the journal's revision it is its record.
CacheIsCommitted ==
    \A f \in Funnel, t \in Task :
        ~(cache[f][t] = None) =>
            /\ cache[f][t].rev <= Revision(t)
            /\ cache[f][t].rev = Revision(t) => cache[f][t] = journal[t]

\* Whatever a crash in the middle of a commit leaves in the record table, a
\* task that was never given a second generation stays readable.
FirstGenerationIsReadable ==
    \A t \in Task : ~(journal[t] = None) /\ journal[t].gen = 1 => Readable(t)

\* The record table can always be repaired from the journal.
JournaledTaskIsReadable == \A t \in Task : Readable(t)

\* The life of a task, read off its journal record.
Condition(r) ==
    CASE r.outcome # "none" -> r.outcome
      [] r.outcome = "none" /\ Asked(r) -> "asked"
      [] OTHER -> "open"

Life == [t \in Task |->
           IF journal[t] = None THEN [gen |-> 0, now |-> "absent", pgen |-> 0]
           ELSE [gen |-> journal[t].gen, now |-> Condition(journal[t]),
                 pgen |-> journal[t].pgen]]

Promised == INSTANCE TaskGenerations WITH life <- Life

\* Seen through the journal, every step of the funnels is a step of a task's
\* life as TaskGenerations allows it.
RefinesTaskGenerations == Promised!Spec

\* Every submit is answered: the tails and the nested submits of a
\* propagation never wait for each other in a circle.
SubmitsReturn ==
    \A k \in Caller : Waiting(Home[k], k) ~> ~Waiting(Home[k], k)

\* A parent that failed or timed out takes its children along, provided that
\* it is restored time and again, through crashes and store faults.
FailureReachesChildren ==
    \A p \in Task : \A c \in Children(p) :
        (~(journal[p] = None) /\ journal[p].outcome \in {"failed", "timed_out"})
            ~> (c \notin LiveChildren(p, journal[p].gen))
================================================================================

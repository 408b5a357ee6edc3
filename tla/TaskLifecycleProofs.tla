-------------------------- MODULE TaskLifecycleProofs --------------------------
(***************************************************************************)
(* Proofs about TaskLifecycle for every tree of tasks, every number of     *)
(* funnels and callers and every bound: types, the tree invariant and the  *)
(* refinement of TaskGenerations.  Store faults and crashes may come       *)
(* anywhere the model lets them.                                           *)
(***************************************************************************)
EXTENDS TaskLifecycle, TLAPS

--------------------------------------------------------------------------------
(* The inductive invariant *)

\* A job in the tail of t was put there by a caller, or by a wave of the
\* parent of t that is not over.
JobFits(f, t, j) ==
    /\ j.type = "PropagateParentTermination" =>
          Nested(j) /\ Attached(t) /\ j.outcome \in {"failed", "timed_out"}
    /\ j.type = "RegisterGeneration" => j.gen = 1 /\ (~Attached(t) => j.at = 0)
    /\ j.by \notin Caller =>
          Parent[t] = j.by[1] /\ wave[f][j.by] # None /\ wave[f][j.by].cur # None

JobsFit == \A f \in Funnel, t \in Task :
    \A i \in DOMAIN tail[f][t] : JobFits(f, t, tail[f][t][i])

\* A wave has one job at a time.
OneJobEach == \A f \in Funnel, t, u \in Task :
    \A i \in DOMAIN tail[f][t], k \in DOMAIN tail[f][u] :
        tail[f][t][i].by \notin Caller /\ tail[f][t][i].by = tail[f][u][k].by =>
            t = u /\ i = k

StagesFit == \A f \in Funnel, t \in Task :
    /\ stage[f][t] # "load" => tail[f][t] # <<>>
    /\ stage[f][t] \in {"commit", "publish"} => draft[f][t] # None

\* A wave works through children of its task, and the wave of a submit lasts
\* as long as the submit propagates.
WaveFits(f, w) ==
    /\ \A kid \in wave[f][w].kids : Parent[kid.task] = w[1]
    /\ wave[f][w].cur # None => Parent[wave[f][w].cur.task] = w[1]
    /\ w[2] = "submit" => stage[f][w[1]] = "propagate"
    /\ ~wave[f][w].listed =>
          wave[f][w].kids = {} /\ wave[f][w].cur = None /\ ~Waiting(f, w)

WavesFit == \A f \in Funnel, w \in Task \X Kind : wave[f][w] # None => WaveFits(f, w)

Shape == JobsFit /\ OneJobEach /\ StagesFit /\ WavesFit

\* What evaluate made of record r for job j, the time of a request aside.
Follows(d, r, j) ==
    /\ r = None => /\ d.gen = j.gen /\ d.pgen = j.at /\ d.asked = NotAsked
                   /\ d.state = "registered" /\ d.outcome = "none"
    /\ r # None =>
         /\ d.pgen = r.pgen /\ d.outcome = EndOf(j) /\ d.state = StateAfter(r, j)
         /\ d.gen = IF j.type = "ReplaceGeneration" THEN r.gen + 1 ELSE r.gen
         /\ j.type = "ReplaceGeneration" => ~Asked(d)
         /\ j.type = "RequestCancellation" => Asked(d)
         /\ j.type \notin {"ReplaceGeneration", "RequestCancellation"} =>
               d.asked = r.asked

\* As long as nobody else has committed, the draft follows from the journal.
DraftsFit == \A f \in Funnel, t \in Task :
    stage[f][t] = "commit" =>
        /\ draft[f][t].rev - 1 <= Revision(t)
        /\ Unchanged(f, t) => /\ Accepts(journal[t], Head(tail[f][t]))
                              /\ Follows(draft[f][t], journal[t], Head(tail[f][t]))

\* A record is terminal exactly when it has an outcome.
RecordsFit == \A t \in Task :
    journal[t] # None => (journal[t].state = "terminal" <=> journal[t].outcome # "none")

Safe == DraftsFit /\ RecordsFit /\ EndedParentHasNoLiveChild

Inv == TypeOK /\ Shape /\ Safe

--------------------------------------------------------------------------------
(* What evaluation makes of a record *)

LEMMA NoneIsNothing ==
    /\ \A r \in Record : r # None
    /\ \A k \in Kid : k # None
    /\ \A v \in Wave : v # None
  BY NoneAssumption

LEMMA EndOfType ==
  ASSUME NEW j \in Job PROVE EndOf(j) \in Outcome \cup {"none"}
  BY DEF EndOf, Job, Outcome

LEMMA EvaluatedType ==
  ASSUME NEW r \in Record \cup {None}, NEW j \in Job, clock \in Nat, Accepts(r, j)
  PROVE  /\ Evaluated(r, j) \in Record
         /\ Follows(Evaluated(r, j), r, j)
         /\ Evaluated(r, j).rev = 1 + (IF r = None THEN 0 ELSE r.rev)
<1>1. CASE r = None
  BY <1>1 DEF Evaluated, Record, Job, Accepts, Follows, NotAsked, State, Outcome
<1>2. CASE r # None
  <2>1. r \in Record
    BY <1>2
  <2>2. StateAfter(r, j) \in State
    BY <2>1 DEF StateAfter, Record, State
  <2>3. EndOf(j) \in Outcome \cup {"none"}
    BY EndOfType
  <2>4. j.type \in Intent /\ j.type # "RegisterGeneration"
    BY <1>2 DEF Job, Accepts
  <2>5. Evaluated(r, j) =
          [gen |-> IF j.type = "ReplaceGeneration" THEN r.gen + 1 ELSE r.gen,
           rev |-> r.rev + 1, state |-> StateAfter(r, j), outcome |-> EndOf(j),
           asked |-> CASE j.type = "ReplaceGeneration" -> NotAsked
                       [] j.type = "RequestCancellation" -> clock
                       [] OTHER -> r.asked,
           pgen |-> r.pgen, last |-> j.type]
    BY <1>2, <2>1, <2>4 DEF Evaluated, Record
  <2>6. Evaluated(r, j) \in Record
    BY <2>1, <2>2, <2>3, <2>4, <2>5 DEF Record, NotAsked
  <2>7. Follows(Evaluated(r, j), r, j)
    BY <1>2, <2>1, <2>4, <2>5 DEF Follows, Asked, NotAsked, Record
  <2>8. Evaluated(r, j).rev = 1 + r.rev
    BY <2>1, <2>5 DEF Record
  <2>. QED BY <1>2, <2>6, <2>7, <2>8
<1>. QED BY <1>1, <1>2

--------------------------------------------------------------------------------
(* How tails grow and shrink *)

LEMMA PopProperties ==
  ASSUME NEW s \in Seq(Job), s # <<>>
  PROVE  /\ Tail(s) \in Seq(Job) /\ Head(s) = s[1] /\ s[1] \in Job
         /\ 1 \in DOMAIN s
         /\ \A i \in DOMAIN Tail(s) : i + 1 \in DOMAIN s /\ Tail(s)[i] = s[i + 1]
                                      /\ i + 1 # 1 /\ i \in Nat
  OBVIOUS

LEMMA PushProperties ==
  ASSUME NEW s \in Seq(Job), NEW j \in Job
  PROVE  /\ Append(s, j) \in Seq(Job) /\ Append(s, j) # <<>>
         /\ s # <<>> => Head(Append(s, j)) = Head(s)
         /\ Append(s, j)[Len(s) + 1] = j
         /\ DOMAIN Append(s, j) = DOMAIN s \cup {Len(s) + 1}
         /\ Len(s) + 1 \notin DOMAIN s
         /\ \A i \in DOMAIN s : Append(s, j)[i] = s[i]
<1>1. Append(s, j) \in Seq(Job) /\ Len(Append(s, j)) = Len(s) + 1 /\ Len(s) \in Nat
  OBVIOUS
<1>2. DOMAIN s = 1 .. Len(s) /\ DOMAIN Append(s, j) = 1 .. Len(s) + 1
  BY <1>1
<1>3. Append(s, j)[Len(s) + 1] = j
  OBVIOUS
<1>4. \A i \in DOMAIN s : Append(s, j)[i] = s[i]
  BY <1>2
<1>5. s # <<>> => Head(Append(s, j)) = Head(s)
  OBVIOUS
<1>6. Append(s, j) # <<>>
  BY <1>1
<1>. QED BY <1>1, <1>2, <1>3, <1>4, <1>5, <1>6

\* Answering the submit served on t leaves the shape of tails and waves intact.
LEMMA AnswerKeepsShape ==
  ASSUME TypeOK, Shape, NEW f \in Funnel, NEW t \in Task, tail[f][t] # <<>>,
         NEW r \in Record \cup {None},
         NEW waves \in [Task \X Kind -> Wave \cup {None}],
         \A w \in Task \X Kind :
             waves[w] = wave[f][w] \/ (waves[w] = None /\ ~Waiting(f, w)),
         waves[<<t, "submit">>] = None,
         Answer(f, t, r, waves)
  PROVE  /\ tail' \in [Funnel -> [Task -> Seq(Job)]]
         /\ draft' \in [Funnel -> [Task -> Record \cup {None}]]
         /\ stage' \in [Funnel -> [Task -> Stage]]
         /\ wave' \in [Funnel -> [Task \X Kind -> Wave \cup {None}]]
         /\ Shape'
<1> DEFINE b == Head(tail[f][t]).by
<1>1. /\ tail[f][t] \in Seq(Job) /\ tail[f][t][1] \in Job /\ b = tail[f][t][1].by
      /\ 1 \in DOMAIN tail[f][t] /\ b \in Caller \cup (Task \X Kind)
  <2>1. tail[f][t] \in Seq(Job)
    BY DEF TypeOK
  <2>2. Head(tail[f][t]) = tail[f][t][1] /\ tail[f][t][1] \in Job /\ 1 \in DOMAIN tail[f][t]
    BY <2>1, PopProperties
  <2>. QED BY <2>1, <2>2 DEF Job
<1>2. tail' = [tail EXCEPT ![f][t] = Tail(@)]
  BY DEF Answer
<1>3. tail' \in [Funnel -> [Task -> Seq(Job)]]
  BY <1>1, <1>2, PopProperties DEF TypeOK
<1>4. \A g \in Funnel, u \in Task : \A i \in DOMAIN tail'[g][u] :
         \E k \in DOMAIN tail[g][u] :
            /\ tail'[g][u][i] = tail[g][u][k]
            /\ (g = f /\ u = t) => k = i + 1 /\ k # 1 /\ i \in Nat
            /\ ~(g = f /\ u = t) => k = i
  BY <1>1, <1>2, PopProperties DEF TypeOK
<1>5. \A g \in Funnel, w \in Task \X Kind : Waiting(g, w)' => Waiting(g, w)
  BY <1>4 DEF Waiting
<1>6. /\ draft' = [draft EXCEPT ![f][t] = None]
      /\ stage' = [stage EXCEPT ![f][t] = "load"]
  BY DEF Answer
<1>7. /\ draft' \in [Funnel -> [Task -> Record \cup {None}]]
      /\ stage' \in [Funnel -> [Task -> Stage]]
  BY <1>6, SMTT(60) DEF TypeOK, Stage
<1>8. b \notin Caller =>
         /\ b \in Task \X Kind /\ waves[b] = wave[f][b] /\ waves[b] \in Wave
         /\ waves[b].cur \in Kid /\ wave[f][b].listed
  <2> SUFFICES ASSUME b \notin Caller PROVE /\ b \in Task \X Kind /\ waves[b] = wave[f][b] /\ waves[b] \in Wave
         /\ waves[b].cur \in Kid /\ wave[f][b].listed
    OBVIOUS
  <2>1. b \in Task \X Kind /\ JobFits(f, t, tail[f][t][1])
    BY <1>1 DEF Shape, JobsFit
  <2>2. Waiting(f, b)
    BY <1>1, SMTT(60) DEF Waiting
  <2>3. wave[f][b] # None /\ wave[f][b].cur # None /\ WaveFits(f, b)
    BY <1>1, <2>1, SMTT(60) DEF JobFits, Shape, WavesFit
  <2>4. waves[b] = wave[f][b] /\ wave[f][b].listed
    BY <2>1, <2>2, <2>3, ZenonT(90) DEF WaveFits
  <2>5. waves[b] \in Wave /\ waves[b].cur \in Kid
    BY <2>1, <2>3, <2>4, SMTT(60) DEF Wave
  <2>. QED BY <2>1, <2>4, <2>5, SMTT(60)
<1> DEFINE a == Answered(waves[b], r)
<1>9. b \notin Caller =>
         /\ a \in Wave /\ a # None /\ a.kids = waves[b].kids /\ a.listed = waves[b].listed
         /\ a.cur # None => a.cur.task = waves[b].cur.task
  BY <1>8, NoneIsNothing, ZenonT(90) DEF Answered, Wave, Kid
<1> DEFINE new == IF b \in Caller THEN waves ELSE [waves EXCEPT ![b] = a]
<1>10. wave' = [wave EXCEPT ![f] = new]
  BY DEF Answer
<1>11. new \in [Task \X Kind -> Wave \cup {None}]
  BY <1>8, <1>9
<1>12. wave' \in [Funnel -> [Task \X Kind -> Wave \cup {None}]]
  BY <1>10, <1>11 DEF TypeOK
<1>13. /\ wave'[f] = new
       /\ \A g \in Funnel : g # f => wave'[g] = wave[g]
  BY <1>10 DEF TypeOK
<1> HIDE DEF a
<1>14. \A w \in Task \X Kind :
          /\ w # b => new[w] = waves[w]
          /\ w = b /\ b \notin Caller => new[w] = a
          /\ b \in Caller => new[w] = waves[w]
  BY <1>8, SMTT(60)
<1> HIDE DEF new
<1>15. JobsFit'
  <2> SUFFICES ASSUME NEW g \in Funnel, NEW u \in Task, NEW i \in DOMAIN tail'[g][u]
               PROVE  JobFits(g, u, tail[g][u][i])'
    BY DEF JobsFit
  <2>1. PICK k \in DOMAIN tail[g][u] : /\ tail'[g][u][i] = tail[g][u][k]
                                       /\ (g = f /\ u = t) => k # 1
    BY <1>4
  <2> DEFINE j == tail[g][u][k]
  <2>2. JobFits(g, u, j) /\ j \in Job
    BY <2>1, SMTT(60) DEF Shape, JobsFit, TypeOK
  <2>3. j.by \notin Caller =>
           Parent[u] = j.by[1] /\ wave'[g][j.by] # None /\ wave'[g][j.by].cur # None
    <3> SUFFICES ASSUME j.by \notin Caller, g = f
                 PROVE  wave'[g][j.by] # None /\ wave'[g][j.by].cur # None
      BY <1>13, <2>2 DEF JobFits
    <3>1. j.by \in Task \X Kind /\ Waiting(f, j.by)
      BY <2>1, <2>2, SMTT(60) DEF Job, Waiting
    <3>2. waves[j.by] = wave[f][j.by]
      BY <3>1, <2>2 DEF JobFits
    <3>3. j.by # b
      BY <1>1, <2>1 DEF Shape, OneJobEach
    <3>. QED BY <1>13, <1>14, <2>2, <3>1, <3>2, <3>3, SMTT(60) DEF JobFits
  <2>. QED BY <2>1, <2>2, <2>3 DEF JobFits, Nested, Attached
<1>16. OneJobEach'
  <2> SUFFICES ASSUME NEW g \in Funnel, NEW u \in Task, NEW v \in Task,
                      NEW i \in DOMAIN tail'[g][u], NEW k \in DOMAIN tail'[g][v],
                      tail'[g][u][i].by \notin Caller,
                      tail'[g][u][i].by = tail'[g][v][k].by
               PROVE  u = v /\ i = k
    BY DEF OneJobEach
  <2>1. PICK m \in DOMAIN tail[g][u] : /\ tail'[g][u][i] = tail[g][u][m]
                                       /\ (g = f /\ u = t) => m = i + 1 /\ i \in Nat
                                       /\ ~(g = f /\ u = t) => m = i
    BY <1>4
  <2>2. PICK n \in DOMAIN tail[g][v] : /\ tail'[g][v][k] = tail[g][v][n]
                                       /\ (g = f /\ v = t) => n = k + 1 /\ k \in Nat
                                       /\ ~(g = f /\ v = t) => n = k
    BY <1>4
  <2>3. u = v /\ m = n
    BY <2>1, <2>2 DEF Shape, OneJobEach
  <2>. QED BY <2>1, <2>2, <2>3
<1>17. StagesFit'
  <2> SUFFICES ASSUME NEW g \in Funnel, NEW u \in Task
               PROVE  /\ stage'[g][u] # "load" => tail'[g][u] # <<>>
                      /\ stage'[g][u] \in {"commit", "publish"} => draft'[g][u] # None
    BY DEF StagesFit
  <2>1. CASE g = f /\ u = t
    BY <2>1, <1>6 DEF TypeOK
  <2>2. CASE ~(g = f /\ u = t)
    <3>1. stage'[g][u] = stage[g][u] /\ draft'[g][u] = draft[g][u] /\ tail'[g][u] = tail[g][u]
      BY <2>2, <1>2, <1>6 DEF TypeOK
    <3>. QED BY <3>1 DEF Shape, StagesFit
  <2>. QED BY <2>1, <2>2
<1>18. WavesFit'
  <2> SUFFICES ASSUME NEW g \in Funnel, NEW w \in Task \X Kind, wave'[g][w] # None
               PROVE  WaveFits(g, w)'
    BY DEF WavesFit
  <2>1. CASE g # f
    <3>1. wave'[g][w] = wave[g][w] /\ stage'[g] = stage[g] /\ WaveFits(g, w)
      BY <1>6, <1>13, <2>1 DEF Shape, WavesFit, TypeOK
    <3>. QED BY <1>5, <3>1 DEF WaveFits
  <2>2. CASE g = f
    <3>1. wave'[f][w] = new[w]
      BY <1>13
    <3>2. wave[f][w] # None /\ waves[w] = wave[f][w] /\ WaveFits(f, w)
      <4>1. waves[w] # None
        BY <1>8, <1>14, <2>2, <3>1, NoneIsNothing, SMTT(60)
      <4>. QED BY <4>1, SMTT(60) DEF Shape, WavesFit
    <3>3. /\ new[w].kids = wave[f][w].kids /\ new[w].listed = wave[f][w].listed
          /\ new[w].cur # None => new[w].cur.task = wave[f][w].cur.task
          /\ ~new[w].listed => new[w] = wave[f][w]
      BY <1>8, <1>9, <1>14, <3>2, ZenonT(90)
    <3>4. new[w].cur # None => wave[f][w].cur # None
      BY <1>8, <1>9, <1>14, <3>2, NoneIsNothing
    <3>5. w[2] = "submit" => stage'[f][w[1]] = "propagate"
      <4> SUFFICES ASSUME w[2] = "submit" PROVE stage'[f][w[1]] = "propagate"
        OBVIOUS
      <4>1. w # <<t, "submit">>
        BY <3>2
      <4>2. w[1] # t /\ w[1] \in Task
        BY <4>1
      <4>. QED BY <1>6, <3>2, <4>2 DEF WaveFits, TypeOK
    <3>6. ~new[w].listed => new[w].cur = None /\ ~Waiting(f, w)'
      BY <1>5, <3>2, <3>3 DEF WaveFits
    <3>. QED BY <2>2, <3>1, <3>2, <3>3, <3>4, <3>5, <3>6 DEF WaveFits
  <2>. QED BY <2>1, <2>2
<1>. QED BY <1>3, <1>7, <1>12, <1>15, <1>16, <1>17, <1>18 DEF Shape

--------------------------------------------------------------------------------
(* Every step keeps types and shape *)

LEMMA RowTypes ==
  ASSUME TypeOK, NEW t \in Task
  PROVE  /\ Repaired(t) \in SUBSET Row
         /\ \A d \in Record : Written(t, d) \in SUBSET Row
         /\ \A T : RepairedRows(T) \in [Task -> SUBSET Row]
<1>1. \A u \in Task : Repaired(u) \in SUBSET Row
  <2> SUFFICES ASSUME NEW u \in Task PROVE Repaired(u) \in SUBSET Row
    OBVIOUS
  <2>1. rows[u] \in SUBSET Row /\ Missed(u) \in SUBSET Row
    BY DEF TypeOK, Missed
  <2>2. journal[u] # None =>
           [key |-> journal[u].gen, gen |-> journal[u].gen, rev |-> journal[u].rev] \in Row
    BY DEF TypeOK, Record, Row
  <2>. QED BY <2>1, <2>2 DEF Repaired, Put
<1>2. ASSUME NEW d \in Record PROVE Written(t, d) \in SUBSET Row
  <2>1. d.gen \in Nat /\ d.rev \in Nat /\ (journal[t] # None => journal[t].gen \in Nat)
    BY DEF TypeOK, Record
  <2>. QED BY <1>1, <2>1 DEF Written, Put, Row
<1>3. \A T : RepairedRows(T) \in [Task -> SUBSET Row]
  BY <1>1 DEF RepairedRows, TypeOK
<1>. QED BY <1>1, <1>2, <1>3

\* Answering without ending a wave.
LEMMA PlainAnswer ==
  ASSUME TypeOK, Shape, NEW f \in Funnel, NEW t \in Task, tail[f][t] # <<>>,
         NEW r \in Record \cup {None}, stage[f][t] # "propagate",
         Answer(f, t, r, wave[f])
  PROVE  /\ tail' \in [Funnel -> [Task -> Seq(Job)]]
         /\ draft' \in [Funnel -> [Task -> Record \cup {None}]]
         /\ stage' \in [Funnel -> [Task -> Stage]]
         /\ wave' \in [Funnel -> [Task \X Kind -> Wave \cup {None}]]
         /\ Shape'
<1>1. wave[f] \in [Task \X Kind -> Wave \cup {None}]
  BY DEF TypeOK
<1>2. <<t, "submit">> \in Task \X Kind
  BY DEF Kind
<1>3. wave[f][<<t, "submit">>] = None
  BY <1>2 DEF Shape, WavesFit, WaveFits
<1>. QED BY <1>1, <1>3, AnswerKeepsShape

\* Putting a job of a caller, or the next job of a wave, in a tail.
LEMMA PushKeepsShape ==
  ASSUME TypeOK, Shape, NEW f \in Funnel, NEW t \in Task, NEW j \in Job,
         tail' = [tail EXCEPT ![f][t] = Append(@, j)],
         stage' = stage, draft' = draft,
         wave' \in [Funnel -> [Task \X Kind -> Wave \cup {None}]],
         \A g \in Funnel, w \in Task \X Kind :
            \/ wave'[g][w] = wave[g][w]
            \/ /\ g = f /\ w = j.by
               /\ wave[g][w] # None /\ wave[g][w].listed
               /\ wave'[g][w] # None
               /\ wave'[g][w].listed /\ wave'[g][w].cur # None
               /\ wave'[g][w].kids \subseteq wave[g][w].kids
               /\ Parent[wave'[g][w].cur.task] = w[1],
         JobFits(f, t, j)',
         j.by \notin Caller => ~Waiting(f, j.by) /\ wave[f][j.by].listed
  PROVE  tail' \in [Funnel -> [Task -> Seq(Job)]] /\ Shape'
<1>1. tail[f][t] \in Seq(Job)
  BY DEF TypeOK
<1>2. tail' \in [Funnel -> [Task -> Seq(Job)]]
  BY <1>1, PushProperties DEF TypeOK
<1>3. \A g \in Funnel, u \in Task : ~(g = f /\ u = t) => tail'[g][u] = tail[g][u]
  BY DEF TypeOK
<1>4. tail'[f][t] = Append(tail[f][t], j)
  BY DEF TypeOK
<1>5. \A g \in Funnel, u \in Task : \A i \in DOMAIN tail'[g][u] :
         \/ g = f /\ u = t /\ i = Len(tail[f][t]) + 1 /\ tail'[g][u][i] = j
         \/ i \in DOMAIN tail[g][u] /\ tail'[g][u][i] = tail[g][u][i]
  <2> SUFFICES ASSUME NEW g \in Funnel, NEW u \in Task, NEW i \in DOMAIN tail'[g][u]
               PROVE \/ g = f /\ u = t /\ i = Len(tail[f][t]) + 1 /\ tail'[g][u][i] = j
                     \/ i \in DOMAIN tail[g][u] /\ tail'[g][u][i] = tail[g][u][i]
    OBVIOUS
  <2>1. CASE g = f /\ u = t
    BY <2>1, <1>1, <1>4, PushProperties
  <2>2. CASE ~(g = f /\ u = t)
    BY <2>2, <1>3
  <2>. QED BY <2>1, <2>2
<1>6. JobsFit'
  <2> SUFFICES ASSUME NEW g \in Funnel, NEW u \in Task, NEW i \in DOMAIN tail'[g][u]
               PROVE  JobFits(g, u, tail[g][u][i])'
    BY DEF JobsFit
  <2>1. CASE g = f /\ u = t /\ tail'[g][u][i] = j
    BY <2>1, SMTT(60)
  <2>2. CASE i \in DOMAIN tail[g][u] /\ tail'[g][u][i] = tail[g][u][i]
    <3>1. JobFits(g, u, tail[g][u][i])
      BY <2>2 DEF Shape, JobsFit
    <3>2. tail[g][u][i].by \in Caller \cup (Task \X Kind)
      <4>1. tail[g][u] \in Seq(Job)
        BY DEF TypeOK
      <4>2. tail[g][u][i] \in Job
        BY <2>2, <4>1, SMTT(60)
      <4>. QED BY <4>2 DEF Job
    <3>. QED BY <2>2, <3>1, <3>2, SMTT(60) DEF JobFits, Nested, Attached
  <2>. QED BY <1>5, <2>1, <2>2
<1>7. OneJobEach'
  <2> SUFFICES ASSUME NEW g \in Funnel, NEW u \in Task, NEW v \in Task,
                      NEW i \in DOMAIN tail'[g][u], NEW k \in DOMAIN tail'[g][v],
                      tail'[g][u][i].by \notin Caller,
                      tail'[g][u][i].by = tail'[g][v][k].by
               PROVE  u = v /\ i = k
    BY SMTT(60) DEF OneJobEach
  <2>1. \A x \in Task : \A m \in DOMAIN tail[f][x] :
           j.by \notin Caller => tail[f][x][m].by # j.by
    BY DEF Waiting
  <2>. QED BY <1>5, <2>1, SMTT(60) DEF Shape, OneJobEach
<1>8. StagesFit'
  <2>1. tail'[f][t] # <<>>
    BY <1>1, <1>4, PushProperties
  <2>. QED BY <1>3, <2>1 DEF Shape, StagesFit
<1>9. WavesFit'
  <2> SUFFICES ASSUME NEW g \in Funnel, NEW w \in Task \X Kind, wave'[g][w] # None
               PROVE  WaveFits(g, w)'
    BY DEF WavesFit
  <2>1. wave[g][w] # None /\ WaveFits(g, w)
    BY DEF Shape, WavesFit
  <2>2. ~wave'[g][w].listed => ~Waiting(g, w)'
    <3> SUFFICES ASSUME ~wave'[g][w].listed, NEW u \in Task, NEW i \in DOMAIN tail'[g][u],
                        tail'[g][u][i].by = w
                 PROVE  FALSE
      BY DEF Waiting
    <3>1. wave'[g][w] = wave[g][w] /\ ~Waiting(g, w)
      BY <2>1 DEF WaveFits
    <3>2. g = f /\ j.by = w /\ tail'[g][u][i] = j
      BY <1>5, <3>1 DEF Waiting
    <3>3. j.by \notin Caller => FALSE
      BY <3>1, <3>2
    <3>4. j.by \notin Caller
      BY <3>2, CallerAssumption
    <3>. QED BY <3>3, <3>4
  <2>. QED BY <2>1, <2>2 DEF WaveFits
<1>. QED BY <1>2, <1>6, <1>7, <1>8, <1>9 DEF Shape

LEMMA SubmitShape ==
  ASSUME TypeOK, Shape, NEW k \in Caller, NEW t \in Task, Submit(k, t)
  PROVE  TypeOK' /\ Shape'
<1> DEFINE f == Home[k]
<1>1. f \in Funnel
  BY TreeAssumption
<1>2. PICK j \in OwnJobs(k, f, t) : tail' = [tail EXCEPT ![f][t] = Append(@, j)]
  BY DEF Submit
<1>3. j \in Job /\ j.by = k /\ JobFits(f, t, j)
  <2>1. CASE cache[f][t] = None
    <3>1. PICK g \in ParentSeen(f, t) :
             j = [type |-> "RegisterGeneration", gen |-> 1, at |-> g,
                  outcome |-> "none", by |-> k]
      BY <1>2, <2>1 DEF OwnJobs
    <3>2. g \in Nat /\ (~Attached(t) => g = 0)
      BY <1>1, <3>1, TreeAssumption, SMTT(60) DEF ParentSeen, Attached, TypeOK, Record
    <3>. QED BY <3>1, <3>2 DEF Job, Intent, OwnIntent, JobFits
  <2>2. CASE cache[f][t] # None
    <3>1. PICK type \in (OwnIntent \cap Asks) \ {"RegisterGeneration"} :
             j = [type |-> type, gen |-> cache[f][t].gen,
                  at |-> CASE type = "ReactivateAfterCompletionRejection" -> cache[f][t].rev
                           [] type = "SettleCompletion" -> clock
                           [] OTHER -> 0,
                  outcome |-> "none", by |-> k]
      BY <1>2, <2>2 DEF OwnJobs
    <3>2. cache[f][t].gen \in Nat /\ cache[f][t].rev \in Nat /\ clock \in Nat
      BY <1>1, <2>2 DEF TypeOK, Record
    <3>3. type \in Intent /\ type # "PropagateParentTermination"
      BY DEF Intent, OwnIntent
    <3>. QED BY <3>1, <3>2, <3>3 DEF Job, JobFits
  <2>. QED BY <2>1, <2>2
<1>4. /\ stage' = stage /\ draft' = draft /\ wave' = wave
      /\ UNCHANGED <<journal, rows, cache, restored, clock, faults, crashes>>
  BY DEF Submit, store, bounds
<1>5. JobFits(f, t, j)'
  BY <1>3, <1>4 DEF JobFits, Nested, Attached
<1>6. wave' \in [Funnel -> [Task \X Kind -> Wave \cup {None}]]
  BY <1>4 DEF TypeOK
<1> HIDE DEF f
<1>7. tail' \in [Funnel -> [Task -> Seq(Job)]] /\ Shape'
  BY <1>1, <1>2, <1>3, <1>4, <1>5, <1>6, PushKeepsShape
<1>. QED BY <1>4, <1>7 DEF TypeOK

LEMMA LoadShape ==
  ASSUME TypeOK, Shape, NEW f \in Funnel, NEW t \in Task, Load(f, t)
  PROVE  TypeOK' /\ Shape'
<1> DEFINE j == Head(tail[f][t])
<1>1. tail[f][t] # <<>> /\ stage[f][t] = "load" /\ tail[f][t] \in Seq(Job) /\ j \in Job
  BY PopProperties DEF Load, Served, TypeOK
<1>2. /\ UNCHANGED <<journal, restored, clock, faults, crashes>>
      /\ rows' = [rows EXCEPT ![t] = Repaired(t)]
      /\ cache' = [cache EXCEPT ![f][t] = IF journal[t] = None THEN @ ELSE journal[t]]
  BY DEF Load, bounds, Learnt
<1>3. rows' \in [Task -> SUBSET Row] /\ cache' \in [Funnel -> [Task -> Record \cup {None}]]
  BY <1>2, RowTypes, ZenonT(90) DEF TypeOK
<1>4. CASE Accepts(journal[t], j)
  <2>1. /\ draft' = [draft EXCEPT ![f][t] = Evaluated(journal[t], j)]
        /\ stage' = [stage EXCEPT ![f][t] = "commit"]
        /\ UNCHANGED <<tail, wave>>
    BY <1>4 DEF Load
  <2>2. Evaluated(journal[t], j) \in Record
    BY <1>1, <1>4, EvaluatedType DEF TypeOK
  <2>3. TypeOK'
    BY <1>2, <1>3, <2>1, <2>2 DEF TypeOK, Stage
  <2>4. StagesFit'
    BY <1>1, <2>1, <2>2, NoneIsNothing DEF Shape, StagesFit, TypeOK
  <2>5. WavesFit'
    <3> SUFFICES ASSUME NEW g \in Funnel, NEW w \in Task \X Kind, wave'[g][w] # None
                 PROVE  WaveFits(g, w)'
      BY DEF WavesFit
    <3>1. WaveFits(g, w) /\ (Waiting(g, w)' <=> Waiting(g, w))
      BY <2>1 DEF Shape, WavesFit, Waiting
    <3>2. w[2] = "submit" => ~(g = f /\ w[1] = t)
      BY <1>1, <3>1 DEF WaveFits
    <3>3. w[2] = "submit" => stage'[g][w[1]] = "propagate"
      BY <2>1, <3>1, <3>2, SMTT(60) DEF WaveFits, TypeOK
    <3>. QED BY <2>1, <3>1, <3>3 DEF WaveFits
  <2>6. JobsFit' /\ OneJobEach'
    BY <2>1 DEF Shape, JobsFit, JobFits, Nested, Attached, OneJobEach
  <2>. QED BY <2>3, <2>4, <2>5, <2>6 DEF Shape
<1>5. CASE ~Accepts(journal[t], j)
  <2>1. Answer(f, t, None, wave[f])
    BY <1>5 DEF Load
  <2>2. /\ tail' \in [Funnel -> [Task -> Seq(Job)]]
        /\ draft' \in [Funnel -> [Task -> Record \cup {None}]]
        /\ stage' \in [Funnel -> [Task -> Stage]]
        /\ wave' \in [Funnel -> [Task \X Kind -> Wave \cup {None}]]
        /\ Shape'
    BY <1>1, <2>1, PlainAnswer
  <2>. QED BY <1>2, <1>3, <2>2 DEF TypeOK
<1>. QED BY <1>4, <1>5

\* LoadThrows, CommitRefused and CommitThrows.
LEMMA RejectionShape ==
  ASSUME TypeOK, Shape, NEW f \in Funnel, NEW t \in Task,
         LoadThrows(f, t) \/ CommitRefused(f, t) \/ CommitThrows(f, t)
  PROVE  TypeOK' /\ Shape' /\ journal' = journal
<1>1. tail[f][t] # <<>> /\ stage[f][t] # "propagate" /\ Answer(f, t, None, wave[f])
  BY DEF LoadThrows, CommitRefused, CommitThrows, Served
<1>2. UNCHANGED <<journal, cache, restored, clock, crashes>>
  BY DEF LoadThrows, CommitRefused, CommitThrows, Throws, store, bounds
<1>3. rows' \in [Task -> SUBSET Row]
  <2>1. rows' = rows \/ rows' = RepairedRows(Reads(f, t))
    BY DEF LoadThrows, CommitRefused, CommitThrows, store
  <2>. QED BY <2>1, RowTypes DEF TypeOK
<1>5. faults' \in Nat
  <2>1. faults' = faults \/ faults' = faults + 1
    BY DEF LoadThrows, CommitRefused, CommitThrows, Throws, bounds
  <2>. QED BY <2>1 DEF TypeOK
<1>4. /\ tail' \in [Funnel -> [Task -> Seq(Job)]]
      /\ draft' \in [Funnel -> [Task -> Record \cup {None}]]
      /\ stage' \in [Funnel -> [Task -> Stage]]
      /\ wave' \in [Funnel -> [Task \X Kind -> Wave \cup {None}]]
      /\ Shape'
  BY <1>1, PlainAnswer
<1>. QED BY <1>2, <1>3, <1>4, <1>5 DEF TypeOK

LEMMA CommitShape ==
  ASSUME TypeOK, Shape, NEW f \in Funnel, NEW t \in Task, Commit(f, t)
  PROVE  TypeOK' /\ Shape'
<1>1. stage[f][t] = "commit" /\ tail[f][t] # <<>> /\ draft[f][t] \in Record
  BY DEF Commit, Served, Shape, StagesFit, TypeOK
<1>2. /\ journal' = [journal EXCEPT ![t] = draft[f][t]]
      /\ rows' = [RepairedRows(Reads(f, t)) EXCEPT ![t] = Written(t, draft[f][t])]
      /\ stage' = [stage EXCEPT ![f][t] = "publish"]
      /\ UNCHANGED <<cache, tail, draft, wave, restored, clock, faults, crashes>>
  BY DEF Commit, bounds
<1>3. rows' \in [Task -> SUBSET Row]
  BY <1>1, <1>2, RowTypes
<1>4. TypeOK'
  BY <1>1, <1>2, <1>3 DEF TypeOK, Stage
<1>5. JobsFit' /\ OneJobEach'
  BY <1>2 DEF Shape, JobsFit, JobFits, Nested, Attached, OneJobEach
<1>6. StagesFit'
  BY <1>1, <1>2, NoneIsNothing DEF Shape, StagesFit, TypeOK
<1>7. WavesFit'
  <2> SUFFICES ASSUME NEW g \in Funnel, NEW w \in Task \X Kind, wave'[g][w] # None
               PROVE  WaveFits(g, w)'
    BY DEF WavesFit
  <2>1. WaveFits(g, w) /\ (Waiting(g, w)' <=> Waiting(g, w))
    BY <1>2 DEF Shape, WavesFit, Waiting
  <2>2. w[2] = "submit" => stage'[g][w[1]] = "propagate"
    BY <1>1, <1>2, <2>1 DEF WaveFits, TypeOK
  <2>. QED BY <1>2, <2>1, <2>2 DEF WaveFits
<1>. QED BY <1>4, <1>5, <1>6, <1>7 DEF Shape

\* A wave begins: nobody waits for an earlier one at its place.
LEMMA NewWaveShape ==
  ASSUME TypeOK, Shape, NEW f \in Funnel, NEW w \in Task \X Kind, NEW r \in Record,
         wave[f][w] = None,
         wave' = [wave EXCEPT ![f][w] = NewWave(r)], tail' = tail, draft' = draft,
         stage' \in [Funnel -> [Task -> Stage]],
         StagesFit',
         w[2] = "submit" => stage'[f][w[1]] = "propagate",
         \A g \in Funnel, t \in Task :
            stage[g][t] = "propagate" => stage'[g][t] = "propagate"
  PROVE  wave' \in [Funnel -> [Task \X Kind -> Wave \cup {None}]] /\ Shape'
<1>1. NewWave(r) \in Wave /\ NewWave(r) # None
  BY NoneIsNothing DEF NewWave, Wave
<1>2. /\ wave'[f][w] = NewWave(r)
      /\ \A g \in Funnel, v \in Task \X Kind :
            ~(g = f /\ v = w) => wave'[g][v] = wave[g][v]
      /\ wave' \in [Funnel -> [Task \X Kind -> Wave \cup {None}]]
  BY <1>1 DEF TypeOK
<1>3. ~Waiting(f, w)
  <2> SUFFICES ASSUME NEW t \in Task, NEW i \in DOMAIN tail[f][t], tail[f][t][i].by = w
               PROVE  FALSE
    BY SMTT(60) DEF Waiting
  <2>. QED BY CallerAssumption DEF Shape, JobsFit, JobFits
<1>4. JobsFit'
  <2> SUFFICES ASSUME NEW g \in Funnel, NEW u \in Task, NEW i \in DOMAIN tail[g][u]
               PROVE  JobFits(g, u, tail[g][u][i])'
    BY DEF JobsFit
  <2>1. JobFits(g, u, tail[g][u][i]) /\ tail[g][u] \in Seq(Job)
    BY DEF Shape, JobsFit, TypeOK
  <2>2. tail[g][u][i].by \in Caller \cup (Task \X Kind)
    <3>1. tail[g][u][i] \in Job
      BY <2>1
    <3>. QED BY <3>1 DEF Job
  <2>3. ~(g = f /\ tail[g][u][i].by = w)
    BY <1>3 DEF Waiting
  <2>. QED BY <1>2, <2>1, <2>2, <2>3, ZenonT(90) DEF JobFits, Nested, Attached
<1>5. OneJobEach'
  BY DEF Shape, OneJobEach
<1>6. WavesFit'
  <2> SUFFICES ASSUME NEW g \in Funnel, NEW v \in Task \X Kind, wave'[g][v] # None
               PROVE  WaveFits(g, v)'
    BY DEF WavesFit
  <2>1. CASE g = f /\ v = w
    BY <1>2, <1>3, <2>1 DEF WaveFits, NewWave, Waiting
  <2>2. CASE ~(g = f /\ v = w)
    <3>1. wave'[g][v] = wave[g][v] /\ WaveFits(g, v)
      BY <1>2, <2>2 DEF Shape, WavesFit
    <3>. QED BY <3>1 DEF WaveFits, Waiting
  <2>. QED BY <2>1, <2>2
<1>. QED BY <1>2, <1>4, <1>5, <1>6 DEF Shape

LEMMA PublishShape ==
  ASSUME TypeOK, Shape, NEW f \in Funnel, NEW t \in Task, Publish(f, t)
  PROVE  TypeOK' /\ Shape'
<1> DEFINE r == draft[f][t]
<1>1. stage[f][t] = "publish" /\ tail[f][t] # <<>> /\ r \in Record
  BY DEF Publish, Served, Shape, StagesFit, TypeOK
<1>2. /\ UNCHANGED <<journal, rows, restored, clock, faults, crashes>>
      /\ cache' = [cache EXCEPT ![f][t] = r]
  BY DEF Publish, bounds, store
<1>3. cache' \in [Funnel -> [Task -> Record \cup {None}]]
  BY <1>1, <1>2 DEF TypeOK
<1>4. <<t, "submit">> \in Task \X Kind
  BY DEF Kind
<1>5. wave[f][<<t, "submit">>] = None
  BY <1>1, <1>4 DEF Shape, WavesFit, WaveFits
<1>6. CASE Propagates(r)
  <2>1. /\ wave' = [wave EXCEPT ![f][<<t, "submit">>] = NewWave(r)]
        /\ stage' = [stage EXCEPT ![f][t] = "propagate"]
        /\ UNCHANGED <<tail, draft>>
    BY <1>6 DEF Publish
  <2>2. stage' \in [Funnel -> [Task -> Stage]] /\ stage'[f][t] = "propagate"
    BY <2>1 DEF TypeOK, Stage
  <2>3. \A g \in Funnel, u \in Task :
           stage[g][u] = "propagate" => stage'[g][u] = "propagate"
    BY <2>1 DEF TypeOK
  <2>4. StagesFit'
    BY <1>1, <2>1 DEF Shape, StagesFit, TypeOK
  <2>5. wave' \in [Funnel -> [Task \X Kind -> Wave \cup {None}]] /\ Shape'
    BY <1>1, <1>4, <1>5, <2>1, <2>2, <2>3, <2>4, NewWaveShape
  <2>. QED BY <1>2, <1>3, <2>1, <2>2, <2>5 DEF TypeOK
<1>7. CASE ~Propagates(r)
  <2>1. Answer(f, t, r, wave[f])
    BY <1>7 DEF Publish
  <2>2. /\ tail' \in [Funnel -> [Task -> Seq(Job)]]
        /\ draft' \in [Funnel -> [Task -> Record \cup {None}]]
        /\ stage' \in [Funnel -> [Task -> Stage]]
        /\ wave' \in [Funnel -> [Task \X Kind -> Wave \cup {None}]]
        /\ Shape'
    BY <1>1, <2>1, PlainAnswer
  <2>. QED BY <1>2, <1>3, <2>2 DEF TypeOK
<1>. QED BY <1>6, <1>7

LEMMA ListShape ==
  ASSUME TypeOK, Shape, NEW f \in Funnel, NEW w \in Task \X Kind, ListChildren(f, w)
  PROVE  TypeOK' /\ Shape'
<1> DEFINE v == wave[f][w]
           kids == {[task |-> c, gen |-> journal[c].gen, asked |-> Asked(journal[c])] :
                      c \in {x \in LiveChildren(w[1], v.ev.gen) : Told(v.ev, x)}}
           next == [v EXCEPT !.listed = TRUE, !.kids = kids]
<1>1. /\ v # None /\ ~v.listed /\ v \in Wave /\ WaveFits(f, w)
      /\ UNCHANGED <<journal, rows, cache, tail, draft, stage, restored, clock, faults, crashes>>
  BY DEF ListChildren, store, bounds, TypeOK, Shape, WavesFit
<1>2. kids \in SUBSET Kid /\ \A kid \in kids : Parent[kid.task] = w[1]
  <2> SUFFICES ASSUME NEW c \in Task, Parent[c] = w[1], journal[c] # None
               PROVE  [task |-> c, gen |-> journal[c].gen, asked |-> Asked(journal[c])] \in Kid
    BY DEF LiveChildren, Children
  <2>1. journal[c].gen \in Nat /\ Asked(journal[c]) \in BOOLEAN
    BY DEF TypeOK, Record, Asked
  <2>. QED BY <2>1 DEF Kid
<1> HIDE DEF kids
<1>3. wave' = [wave EXCEPT ![f][w] = next]
  BY <1>1 DEF ListChildren, TypeOK, Wave, kids
<1>4. /\ next \in Wave /\ next.kids = kids /\ next.listed /\ next.cur = v.cur
      /\ next # None
  BY <1>1, <1>2, NoneIsNothing DEF Wave
<1> HIDE DEF next
<1>5. /\ wave'[f][w] = next
      /\ \A g \in Funnel, x \in Task \X Kind :
            ~(g = f /\ x = w) => wave'[g][x] = wave[g][x]
      /\ wave' \in [Funnel -> [Task \X Kind -> Wave \cup {None}]]
  BY <1>3, <1>4 DEF TypeOK
<1>6. ~Waiting(f, w)
  BY <1>1 DEF WaveFits
<1>7. JobsFit'
  <2> SUFFICES ASSUME NEW g \in Funnel, NEW u \in Task, NEW i \in DOMAIN tail[g][u]
               PROVE  JobFits(g, u, tail[g][u][i])'
    BY <1>1 DEF JobsFit
  <2>1. JobFits(g, u, tail[g][u][i]) /\ tail[g][u] \in Seq(Job)
    BY DEF Shape, JobsFit, TypeOK
  <2>2. tail[g][u][i].by \in Caller \cup (Task \X Kind)
    <3>1. tail[g][u][i] \in Job
      BY <2>1
    <3>. QED BY <3>1 DEF Job
  <2>3. ~(g = f /\ tail[g][u][i].by = w)
    BY <1>6 DEF Waiting
  <2>. QED BY <1>1, <1>5, <2>1, <2>2, <2>3 DEF JobFits, Nested, Attached
<1>8. OneJobEach' /\ StagesFit'
  BY <1>1 DEF Shape, OneJobEach, StagesFit
<1>9. WavesFit'
  <2> SUFFICES ASSUME NEW g \in Funnel, NEW x \in Task \X Kind, wave'[g][x] # None
               PROVE  WaveFits(g, x)'
    BY DEF WavesFit
  <2>1. CASE g = f /\ x = w
    BY <1>1, <1>2, <1>4, <1>5, <2>1 DEF WaveFits
  <2>2. CASE ~(g = f /\ x = w)
    <3>1. wave'[g][x] = wave[g][x] /\ WaveFits(g, x)
      BY <1>5, <2>2 DEF Shape, WavesFit
    <3>. QED BY <1>1, <3>1 DEF WaveFits, Waiting
  <2>. QED BY <2>1, <2>2
<1>. QED BY <1>1, <1>5, <1>7, <1>8, <1>9 DEF TypeOK, Shape

LEMMA SendShape ==
  ASSUME TypeOK, Shape, NEW f \in Funnel, NEW w \in Task \X Kind, Send(f, w)
  PROVE  TypeOK' /\ Shape'
<1> DEFINE v == wave[f][w]
<1>1. /\ v # None /\ ~Waiting(f, w) /\ v \in Wave /\ WaveFits(f, w)
      /\ UNCHANGED <<journal, rows, cache, draft, stage, restored, clock, faults, crashes>>
  BY DEF Send, store, bounds, TypeOK, Shape, WavesFit
<1>2. PICK kid \in Turn(v) :
         /\ tail' = [tail EXCEPT ![f][kid.task] = Append(@,
               [type |-> Order(v, kid), gen |-> kid.gen, at |-> v.ev.rev,
                outcome |-> v.ev.outcome, by |-> w])]
         /\ wave' = [wave EXCEPT ![f][w].cur = kid, ![f][w].kids = @ \ {kid}]
  BY DEF Send
<1> DEFINE next == [v EXCEPT !.cur = kid, !.kids = @ \ {kid}]
<1>3. kid \in Kid /\ Parent[kid.task] = w[1] /\ v.listed
  BY <1>1 DEF Turn, Wave, WaveFits
<1>4. kid.task \in Task /\ kid.gen \in Nat /\ v.ev.rev \in Nat
      /\ v.ev.outcome \in Outcome \cup {"none"}
  BY <1>1, <1>3 DEF Kid, Wave, Record
<1>5. Order(v, kid) \in Intent /\ Order(v, kid) # "RegisterGeneration"
      /\ (Order(v, kid) = "PropagateParentTermination" =>
             v.ev.outcome \in {"failed", "timed_out"})
  BY DEF Order, Intent, OwnIntent
<1>6. PICK j \in Job :
         j = [type |-> Order(v, kid), gen |-> kid.gen, at |-> v.ev.rev,
              outcome |-> v.ev.outcome, by |-> w]
  BY <1>4, <1>5 DEF Job
<1>7. next \in Wave /\ next.cur = kid /\ next.kids \subseteq v.kids /\ next.listed
  BY <1>1, <1>3 DEF Wave
<1>8. wave' = [wave EXCEPT ![f][w] = next]
  BY <1>1, <1>2 DEF TypeOK, Wave
<1> HIDE DEF next
<1>9. /\ wave'[f][w] = next
      /\ \A g \in Funnel, x \in Task \X Kind :
            ~(g = f /\ x = w) => wave'[g][x] = wave[g][x]
      /\ wave' \in [Funnel -> [Task \X Kind -> Wave \cup {None}]]
  BY <1>7, <1>8 DEF TypeOK
<1>10. next # None /\ next.cur # None
  BY <1>3, <1>7, NoneIsNothing
<1>11. JobFits(f, kid.task, j)'
  <2>1. Attached(kid.task)
    BY <1>3, TreeAssumption DEF Attached
  <2>2. j.type = Order(v, kid) /\ j.outcome = v.ev.outcome /\ j.by = w
    BY <1>6
  <2>3. j.by \notin Caller
    BY <2>2, CallerAssumption
  <2>. QED BY <1>3, <1>5, <1>9, <1>10, <2>1, <2>2, <2>3 DEF JobFits, Nested, Attached
<1>12. \A g \in Funnel, x \in Task \X Kind :
            \/ wave'[g][x] = wave[g][x]
            \/ /\ g = f /\ x = j.by
               /\ wave[g][x] # None /\ wave[g][x].listed
               /\ wave'[g][x] # None
               /\ wave'[g][x].listed /\ wave'[g][x].cur # None
               /\ wave'[g][x].kids \subseteq wave[g][x].kids
               /\ Parent[wave'[g][x].cur.task] = x[1]
  BY <1>1, <1>3, <1>6, <1>7, <1>9, <1>10
<1>13. tail' = [tail EXCEPT ![f][kid.task] = Append(@, j)]
  BY <1>2, <1>6
<1>14. ~Waiting(f, j.by) /\ wave[f][j.by].listed
  BY <1>1, <1>3, <1>6
<1>15. stage' = stage /\ draft' = draft
  BY <1>1, SMTT(60)
<1>16. tail' \in [Funnel -> [Task -> Seq(Job)]] /\ Shape'
  BY <1>4, <1>6, <1>9, <1>11, <1>12, <1>13, <1>14, <1>15, PushKeepsShape, ZenonT(90)
<1>. QED BY <1>1, <1>9, <1>16 DEF TypeOK

\* Ending a wave for which no job waits.
LEMMA EndWaveShape ==
  ASSUME TypeOK, Shape, NEW f \in Funnel, NEW w \in Task \X Kind,
         wave[f][w] # None, ~Waiting(f, w), EndWave(f, w)
  PROVE  /\ tail' \in [Funnel -> [Task -> Seq(Job)]]
         /\ draft' \in [Funnel -> [Task -> Record \cup {None}]]
         /\ stage' \in [Funnel -> [Task -> Stage]]
         /\ wave' \in [Funnel -> [Task \X Kind -> Wave \cup {None}]]
         /\ Shape'
<1> DEFINE left == [wave[f] EXCEPT ![w] = None]
<1>1. /\ left \in [Task \X Kind -> Wave \cup {None}]
      /\ left[w] = None
      /\ \A x \in Task \X Kind : x # w => left[x] = wave[f][x]
  BY DEF TypeOK
<1>2. CASE w[2] = "submit"
  <2>1. Answer(f, w[1], wave[f][w].ev, left)
    BY <1>2 DEF EndWave
  <2>2. w = <<w[1], "submit">> /\ w[1] \in Task
    BY <1>2
  <2>3. wave[f][w].ev \in Record
    BY DEF TypeOK, Wave
  <2>4. stage[f][w[1]] = "propagate"
    BY <1>2 DEF Shape, WavesFit, WaveFits
  <2>5. tail[f][w[1]] # <<>>
    BY <2>2, <2>4 DEF Shape, StagesFit
  <2>6. left[<<w[1], "submit">>] = None
    BY <1>1, <2>2
  <2>7. \A x \in Task \X Kind :
           left[x] = wave[f][x] \/ (left[x] = None /\ ~Waiting(f, x))
    BY <1>1
  <2> HIDE DEF left
  <2>. QED BY <1>1, <2>1, <2>2, <2>3, <2>5, <2>6, <2>7, AnswerKeepsShape
<1>3. CASE w[2] # "submit"
  <2>1. wave' = [wave EXCEPT ![f] = left] /\ UNCHANGED <<tail, draft, stage>>
    BY <1>3 DEF EndWave
  <2>2. /\ wave' \in [Funnel -> [Task \X Kind -> Wave \cup {None}]]
        /\ wave'[f] = left /\ \A g \in Funnel : g # f => wave'[g] = wave[g]
    BY <1>1, <2>1, ZenonT(90) DEF TypeOK
  <2> HIDE DEF left
  <2>3. JobsFit'
    <3> SUFFICES ASSUME NEW g \in Funnel, NEW u \in Task, NEW i \in DOMAIN tail[g][u]
                 PROVE  JobFits(g, u, tail[g][u][i])'
      BY <2>1 DEF JobsFit
    <3>1. JobFits(g, u, tail[g][u][i]) /\ tail[g][u] \in Seq(Job)
      BY DEF Shape, JobsFit, TypeOK
    <3>2. tail[g][u][i].by \in Caller \cup (Task \X Kind)
      <4>1. tail[g][u][i] \in Job
        BY <3>1
      <4>. QED BY <4>1 DEF Job
    <3>3. ~(g = f /\ tail[g][u][i].by = w)
      BY DEF Waiting
    <3>. QED BY <1>1, <2>1, <2>2, <3>1, <3>2, <3>3 DEF JobFits, Nested, Attached
  <2>4. OneJobEach' /\ StagesFit'
    BY <2>1 DEF Shape, OneJobEach, StagesFit
  <2>5. WavesFit'
    <3> SUFFICES ASSUME NEW g \in Funnel, NEW x \in Task \X Kind, wave'[g][x] # None
                 PROVE  WaveFits(g, x)'
      BY DEF WavesFit
    <3>1. wave'[g][x] = wave[g][x]
      BY <1>1, <2>2
    <3>2. WaveFits(g, x)
      BY <3>1 DEF Shape, WavesFit
    <3>. QED BY <2>1, <3>1, <3>2 DEF WaveFits, Waiting
  <2>. QED BY <2>1, <2>2, <2>3, <2>4, <2>5 DEF Shape, TypeOK
<1>. QED BY <1>2, <1>3

LEMMA WaveOverShape ==
  ASSUME TypeOK, Shape, NEW f \in Funnel, NEW w \in Task \X Kind,
         WaveEnds(f, w) \/ ListThrows(f, w)
  PROVE  TypeOK' /\ Shape' /\ journal' = journal
<1>1. /\ wave[f][w] # None /\ EndWave(f, w)
      /\ UNCHANGED <<journal, rows, cache, restored, clock, crashes>>
  BY DEF WaveEnds, ListThrows, store, bounds
<1>2. ~Waiting(f, w)
  BY <1>1 DEF WaveEnds, ListThrows, Shape, WavesFit, WaveFits
<1>3. faults' \in Nat
  BY DEF WaveEnds, ListThrows, bounds, TypeOK
<1>4. /\ tail' \in [Funnel -> [Task -> Seq(Job)]]
      /\ draft' \in [Funnel -> [Task -> Record \cup {None}]]
      /\ stage' \in [Funnel -> [Task -> Stage]]
      /\ wave' \in [Funnel -> [Task \X Kind -> Wave \cup {None}]]
      /\ Shape'
  BY <1>1, <1>2, EndWaveShape
<1>. QED BY <1>1, <1>3, <1>4 DEF TypeOK

LEMMA RestoreShape ==
  ASSUME TypeOK, Shape, NEW f \in Funnel, NEW t \in Task, RestoreStep(f, t)
  PROVE  TypeOK' /\ Shape' /\ journal' = journal
<1>1. CASE RestoreLoad(f, t)
  <2>1. /\ UNCHANGED <<journal, tail, draft, stage, wave, clock, faults, crashes>>
        /\ rows' = [rows EXCEPT ![t] = Repaired(t)]
        /\ cache' = [cache EXCEPT ![f][t] = IF journal[t] = None THEN @ ELSE journal[t]]
        /\ restored' = [restored EXCEPT ![f][t] = journal[t]]
    BY <1>1 DEF RestoreLoad, Learnt, bounds
  <2>2. TypeOK'
    BY <2>1, RowTypes, ZenonT(90) DEF TypeOK
  <2>3. Shape'
    BY <2>1 DEF Shape, JobsFit, JobFits, Nested, Attached, OneJobEach, StagesFit, WavesFit,
                WaveFits, Waiting
  <2>. QED BY <2>1, <2>2, <2>3
<1>2. CASE RestoreProject(f, t)
  <2> DEFINE r == restored[f][t]
             w == <<t, "restore">>
  <2>1. /\ r \in Record /\ wave[f][w] = None
        /\ cache' = [cache EXCEPT ![f][t] = r]
        /\ restored' = [restored EXCEPT ![f][t] = None]
        /\ wave' = [wave EXCEPT ![f][w] = IF Propagates(r) THEN NewWave(r) ELSE None]
        /\ UNCHANGED <<journal, rows, tail, draft, stage, clock, faults, crashes>>
    BY <1>2 DEF RestoreProject, TypeOK, store, bounds
  <2>2. w \in Task \X Kind /\ w[2] # "submit"
    BY DEF Kind
  <2>3. wave' \in [Funnel -> [Task \X Kind -> Wave \cup {None}]] /\ Shape'
    <3>1. CASE Propagates(r)
      <4>1. wave' = [wave EXCEPT ![f][w] = NewWave(r)]
        BY <2>1, <3>1
      <4>2. StagesFit' /\ stage' \in [Funnel -> [Task -> Stage]]
        BY <2>1 DEF Shape, StagesFit, TypeOK
      <4>3. PICK rec \in Record : rec = r
        BY <2>1
      <4>4. wave' = [wave EXCEPT ![f][w] = NewWave(rec)]
        BY <4>1, <4>3
      <4>. QED BY <2>1, <2>2, <4>2, <4>4, NewWaveShape
    <3>2. CASE ~Propagates(r)
      <4>1. wave' = wave
        BY <2>1, <2>2, <3>2 DEF TypeOK
      <4>2. wave' \in [Funnel -> [Task \X Kind -> Wave \cup {None}]]
        BY <4>1 DEF TypeOK
      <4>3. JobsFit' /\ OneJobEach'
        <5>1. wave' = wave /\ tail' = tail
          BY <2>1, <4>1
        <5>2. JobsFit'
          BY <5>1 DEF Shape, JobsFit, JobFits, Nested, Attached
        <5>3. OneJobEach'
          BY <5>1 DEF Shape, OneJobEach
        <5>. QED BY <5>2, <5>3
      <4>4. StagesFit'
        BY <2>1, <4>1, SMTT(60) DEF Shape, StagesFit
      <4>5. WavesFit'
        BY <2>1, <4>1, SMTT(60) DEF Shape, WavesFit, WaveFits, Waiting
      <4>. QED BY <4>2, <4>3, <4>4, <4>5 DEF Shape
    <3>. QED BY <3>1, <3>2
  <2>4. /\ cache' \in [Funnel -> [Task -> Record \cup {None}]]
        /\ restored' \in [Funnel -> [Task -> Record \cup {None}]]
    BY <2>1 DEF TypeOK
  <2>. QED BY <2>1, <2>3, <2>4 DEF TypeOK
<1>. QED BY <1>1, <1>2 DEF RestoreStep

LEMMA CrashShape ==
  ASSUME TypeOK, Shape, NEW f \in Funnel, Crash(f)
  PROVE  /\ cache' \in [Funnel -> [Task -> Record \cup {None}]]
         /\ tail' \in [Funnel -> [Task -> Seq(Job)]]
         /\ draft' \in [Funnel -> [Task -> Record \cup {None}]]
         /\ stage' \in [Funnel -> [Task -> Stage]]
         /\ wave' \in [Funnel -> [Task \X Kind -> Wave \cup {None}]]
         /\ restored' \in [Funnel -> [Task -> Record \cup {None}]]
         /\ crashes' \in Nat /\ Shape'
<1>1. /\ cache' \in [Funnel -> [Task -> Record \cup {None}]]
      /\ draft' \in [Funnel -> [Task -> Record \cup {None}]]
      /\ stage' \in [Funnel -> [Task -> Stage]]
      /\ wave' \in [Funnel -> [Task \X Kind -> Wave \cup {None}]]
      /\ restored' \in [Funnel -> [Task -> Record \cup {None}]]
      /\ crashes' \in Nat
  <2>1. NoRecords \in [Task -> Record \cup {None}]
    BY DEF NoRecords
  <2>2. NoWaves \in [Task \X Kind -> Wave \cup {None}]
    BY DEF NoWaves
  <2>3. [t \in Task |-> "load"] \in [Task -> Stage]
    BY DEF Stage
  <2> HIDE DEF NoRecords, NoWaves
  <2>4. cache' \in [Funnel -> [Task -> Record \cup {None}]]
    BY <2>1 DEF Crash, TypeOK
  <2>5. draft' \in [Funnel -> [Task -> Record \cup {None}]]
    BY <2>1 DEF Crash, TypeOK
  <2>6. restored' \in [Funnel -> [Task -> Record \cup {None}]]
    BY <2>1 DEF Crash, TypeOK
  <2>7. wave' \in [Funnel -> [Task \X Kind -> Wave \cup {None}]]
    BY <2>2 DEF Crash, TypeOK
  <2>8. stage' \in [Funnel -> [Task -> Stage]]
    BY <2>3 DEF Crash, TypeOK
  <2>9. crashes' \in Nat
    BY DEF Crash, TypeOK
  <2>. QED BY <2>4, <2>5, <2>6, <2>7, <2>8, <2>9
<1>2. tail' = [tail EXCEPT ![f] = [t \in Task |-> <<>>]]
  BY DEF Crash
<1>3. tail' \in [Funnel -> [Task -> Seq(Job)]]
  BY <1>2 DEF TypeOK
<1>4. \A t \in Task : tail'[f][t] = <<>> /\ DOMAIN tail'[f][t] = {}
                      /\ stage'[f][t] = "load"
  BY <1>2 DEF Crash, TypeOK
<1>5. \A g \in Funnel : g # f =>
         tail'[g] = tail[g] /\ stage'[g] = stage[g] /\ draft'[g] = draft[g]
         /\ wave'[g] = wave[g]
  BY <1>2 DEF Crash, TypeOK
<1>6. \A w \in Task \X Kind : wave'[f][w] = None
  BY DEF Crash, NoWaves, TypeOK
<1>7. JobsFit'
  <2> SUFFICES ASSUME NEW g \in Funnel, NEW u \in Task, NEW i \in DOMAIN tail'[g][u]
               PROVE  JobFits(g, u, tail[g][u][i])'
    BY DEF JobsFit
  <2>1. g # f
    BY <1>4
  <2>2. JobFits(g, u, tail[g][u][i])
    BY <1>5, <2>1 DEF Shape, JobsFit
  <2>. QED BY <1>5, <2>1, <2>2 DEF JobFits, Nested, Attached
<1>8. OneJobEach'
  BY <1>4, <1>5 DEF Shape, OneJobEach
<1>9. StagesFit'
  BY <1>4, <1>5 DEF Shape, StagesFit
<1>10. WavesFit'
  <2> SUFFICES ASSUME NEW g \in Funnel, NEW w \in Task \X Kind, wave'[g][w] # None
               PROVE  WaveFits(g, w)'
    BY DEF WavesFit
  <2>1. g # f
    BY <1>6
  <2>2. WaveFits(g, w)
    BY <1>5, <2>1 DEF Shape, WavesFit
  <2>. QED BY <1>5, <2>1, <2>2 DEF WaveFits, Waiting
<1>. QED BY <1>1, <1>3, <1>7, <1>8, <1>9, <1>10 DEF Shape

\* CrashAnywhere and CrashInCommit.
LEMMA CrashesShape ==
  ASSUME TypeOK, Shape, NEW f \in Funnel, NEW t \in Task,
         CrashAnywhere(f) \/ CrashInCommit(f, t)
  PROVE  TypeOK' /\ Shape' /\ journal' = journal
<1>1. Crash(f) /\ UNCHANGED <<journal, clock, faults>>
  BY DEF CrashAnywhere, CrashInCommit, store
<1>2. rows' \in [Task -> SUBSET Row]
  <2>1. CASE CrashAnywhere(f)
    BY <2>1 DEF CrashAnywhere, store, TypeOK
  <2>2. CASE CrashInCommit(f, t)
    <3>1. draft[f][t] \in Record
      BY <2>2 DEF CrashInCommit, Served, Shape, StagesFit, TypeOK
    <3>2. rows' = [RepairedRows(Reads(f, t)) EXCEPT ![t] = Written(t, draft[f][t])]
      BY <2>2 DEF CrashInCommit
    <3>. QED BY <3>1, <3>2, RowTypes
  <2>. QED BY <2>1, <2>2
<1>. QED BY <1>1, <1>2, CrashShape DEF TypeOK

--------------------------------------------------------------------------------
(* Type correctness *)

LEMMA InitShape ==
  Init => TypeOK /\ Shape
<1> SUFFICES ASSUME Init PROVE TypeOK /\ Shape
  OBVIOUS
<1>1. /\ NoRecords \in [Task -> Record \cup {None}]
      /\ NoWaves \in [Task \X Kind -> Wave \cup {None}]
      /\ [t \in Task |-> "load"] \in [Task -> Stage]
      /\ \A w \in Task \X Kind : NoWaves[w] = None
  BY DEF NoRecords, NoWaves, Stage
<1> HIDE DEF NoRecords, NoWaves
<1>2. \A f \in Funnel, t \in Task : tail[f][t] = <<>> /\ DOMAIN tail[f][t] = {}
                                     /\ stage[f][t] = "load"
  BY DEF Init
<1>3. tail \in [Funnel -> [Task -> Seq(Job)]]
  BY DEF Init
<1>4. TypeOK
  BY <1>1, <1>3 DEF Init, TypeOK
<1>5. \A f \in Funnel, w \in Task \X Kind : wave[f][w] = None
  BY <1>1 DEF Init
<1>6. Shape
  BY <1>2, <1>5 DEF Shape, JobsFit, OneJobEach, StagesFit, WavesFit
<1>. QED BY <1>4, <1>6

LEMMA StutterShape ==
  ASSUME TypeOK, Shape, UNCHANGED vars \/ Tick
  PROVE  TypeOK' /\ Shape' /\ journal' = journal
<1>1. UNCHANGED <<journal, rows, cache, tail, draft, stage, wave, restored>>
      /\ clock' \in Nat /\ faults' \in Nat /\ crashes' \in Nat
  BY DEF vars, store, memory, bounds, Tick, TypeOK
<1>2. TypeOK'
  BY <1>1 DEF TypeOK
<1>3. JobsFit'
  BY <1>1 DEF Shape, JobsFit, JobFits, Nested, Attached
<1>4. OneJobEach' /\ StagesFit'
  BY <1>1 DEF Shape, OneJobEach, StagesFit
<1>5. WavesFit'
  BY <1>1 DEF Shape, WavesFit, WaveFits, Waiting
<1>. QED BY <1>1, <1>2, <1>3, <1>4, <1>5 DEF Shape

LEMMA StepKeepsShape ==
  TypeOK /\ Shape /\ [Next]_vars => TypeOK' /\ Shape'
<1> SUFFICES ASSUME TypeOK, Shape, [Next]_vars PROVE TypeOK' /\ Shape'
  OBVIOUS
<1>1. CASE \E k \in Caller, t \in Task : Submit(k, t)
  BY <1>1, SubmitShape
<1>2. ASSUME NEW f \in Funnel, NEW t \in Task, SubmitStep(f, t)
      PROVE  TypeOK' /\ Shape'
  BY <1>2, LoadShape, RejectionShape, CommitShape, PublishShape DEF SubmitStep
<1>3. ASSUME NEW f \in Funnel, NEW w \in Task \X Kind, WaveStep(f, w)
      PROVE  TypeOK' /\ Shape'
  BY <1>3, ListShape, SendShape, WaveOverShape DEF WaveStep
<1>4. ASSUME NEW f \in Funnel, NEW t \in Task, RestoreStep(f, t)
      PROVE  TypeOK' /\ Shape'
  BY <1>4, RestoreShape
<1>5. ASSUME NEW f \in Funnel, NEW t \in Task, CrashInCommit(f, t)
      PROVE  TypeOK' /\ Shape'
  BY <1>5, CrashesShape
<1>6. ASSUME NEW f \in Funnel, CrashAnywhere(f)
      PROVE  TypeOK' /\ Shape'
  <2>1. CASE Task = {}
    <3>1. rows' = rows /\ journal' = journal /\ clock' = clock /\ faults' = faults
      BY <1>6 DEF CrashAnywhere, store
    <3>. QED BY <1>6, <3>1, CrashShape DEF CrashAnywhere, TypeOK
  <2>2. CASE Task # {}
    BY <1>6, <2>2, CrashesShape
  <2>. QED BY <2>1, <2>2
<1>7. CASE UNCHANGED vars \/ Tick
  BY <1>7, StutterShape
<1>. QED BY <1>1, <1>2, <1>3, <1>4, <1>5, <1>6, <1>7 DEF Next

\* Every variable keeps its type: above all, a task has one committed record of
\* the six states and endings the readers of the journal know.
THEOREM TypeCorrect == Spec => []TypeOK
<1>1. Init => TypeOK /\ Shape
  BY InitShape
<1>2. TypeOK /\ Shape /\ [Next]_vars => TypeOK' /\ Shape'
  BY StepKeepsShape
<1>. QED BY <1>1, <1>2, PTL DEF Spec

--------------------------------------------------------------------------------
(* The tree invariant *)

\* A step after which every draft yet to be committed or published is as it was.
KeepsDrafts == \A g \in Funnel, u \in Task :
    stage'[g][u] \in {"commit", "publish"} =>
        /\ stage[g][u] = stage'[g][u] /\ draft'[g][u] = draft[g][u]
        /\ Head(tail'[g][u]) = Head(tail[g][u])

LEMMA AnswerKeepsDrafts ==
  ASSUME TypeOK, NEW f \in Funnel, NEW t \in Task, NEW r, NEW waves,
         Answer(f, t, r, waves)
  PROVE  KeepsDrafts
<1>1. \A g \in Funnel, u \in Task :
         IF g = f /\ u = t THEN stage'[g][u] = "load"
         ELSE /\ stage'[g][u] = stage[g][u] /\ draft'[g][u] = draft[g][u]
              /\ tail'[g][u] = tail[g][u]
  BY DEF Answer, TypeOK
<1>. QED BY <1>1 DEF KeepsDrafts

\* Only a commit changes the journal, only a load or a commit the drafts.
LEMMA OtherStepsKeepDrafts ==
  ASSUME TypeOK, Shape, [Next]_vars,
         \A f \in Funnel, t \in Task : ~Commit(f, t) /\ ~Load(f, t)
  PROVE  journal' = journal /\ KeepsDrafts
<1>1. ASSUME NEW k \in Caller, NEW t \in Task, Submit(k, t)
      PROVE  journal' = journal /\ KeepsDrafts
  <2> DEFINE f == Home[k]
  <2>1. f \in Funnel /\ stage' = stage /\ draft' = draft /\ journal' = journal
    BY <1>1, TreeAssumption DEF Submit, store
  <2>2. PICK j \in OwnJobs(k, f, t) : tail' = [tail EXCEPT ![f][t] = Append(@, j)]
    BY <1>1 DEF Submit
  <2>3. \A g \in Funnel, u \in Task : stage[g][u] # "load" =>
           Head(tail'[g][u]) = Head(tail[g][u])
    <3> SUFFICES ASSUME NEW g \in Funnel, NEW u \in Task, stage[g][u] # "load"
                 PROVE  Head(tail'[g][u]) = Head(tail[g][u])
      OBVIOUS
    <3>1. tail[g][u] # <<>> /\ tail[g][u] \in Seq(Job)
      BY DEF Shape, StagesFit, TypeOK
    <3>2. tail'[g][u] = IF g = f /\ u = t THEN Append(tail[g][u], j) ELSE tail[g][u]
      BY <2>1, <2>2 DEF TypeOK
    <3>. QED BY <3>1, <3>2
  <2>. QED BY <2>1, <2>3 DEF KeepsDrafts
<1>2. ASSUME NEW f \in Funnel, NEW t \in Task,
             LoadThrows(f, t) \/ CommitRefused(f, t) \/ CommitThrows(f, t)
      PROVE  journal' = journal /\ KeepsDrafts
  <2>1. Answer(f, t, None, wave[f]) /\ journal' = journal
    BY <1>2 DEF LoadThrows, CommitRefused, CommitThrows, store
  <2>. QED BY <2>1, AnswerKeepsDrafts
<1>3. ASSUME NEW f \in Funnel, NEW t \in Task, Publish(f, t)
      PROVE  journal' = journal /\ KeepsDrafts
  <2>1. journal' = journal
    BY <1>3 DEF Publish, store
  <2>2. CASE Propagates(draft[f][t])
    <3>1. stage' = [stage EXCEPT ![f][t] = "propagate"] /\ UNCHANGED <<tail, draft>>
      BY <1>3, <2>2 DEF Publish
    <3>. QED BY <2>1, <3>1 DEF KeepsDrafts, TypeOK
  <2>3. CASE ~Propagates(draft[f][t])
    BY <1>3, <2>1, <2>3, AnswerKeepsDrafts DEF Publish
  <2>. QED BY <2>2, <2>3
<1>4. ASSUME NEW f \in Funnel, NEW w \in Task \X Kind, ListChildren(f, w)
      PROVE  journal' = journal /\ KeepsDrafts
  BY <1>4 DEF ListChildren, store, KeepsDrafts
<1>5. ASSUME NEW f \in Funnel, NEW w \in Task \X Kind, Send(f, w)
      PROVE  journal' = journal /\ KeepsDrafts
  <2>1. stage' = stage /\ draft' = draft /\ journal' = journal
    BY <1>5 DEF Send, store
  <2>2. PICK kid \in Turn(wave[f][w]) :
           tail' = [tail EXCEPT ![f][kid.task] = Append(@,
               [type |-> Order(wave[f][w], kid), gen |-> kid.gen, at |-> wave[f][w].ev.rev,
                outcome |-> wave[f][w].ev.outcome, by |-> w])]
    BY <1>5 DEF Send
  <2>3. \A g \in Funnel, u \in Task : stage[g][u] # "load" =>
           Head(tail'[g][u]) = Head(tail[g][u])
    <3> SUFFICES ASSUME NEW g \in Funnel, NEW u \in Task, stage[g][u] # "load"
                 PROVE  Head(tail'[g][u]) = Head(tail[g][u])
      OBVIOUS
    <3>1. tail[g][u] # <<>> /\ tail[g][u] \in Seq(Job)
      BY DEF Shape, StagesFit, TypeOK
    <3>2. PICK j : tail' = [tail EXCEPT ![f][kid.task] = Append(@, j)]
      BY <2>2
    <3>3. tail'[g][u] = IF g = f /\ u = kid.task THEN Append(tail[g][u], j) ELSE tail[g][u]
      BY <3>2 DEF TypeOK
    <3>. QED BY <3>1, <3>3
  <2>. QED BY <2>1, <2>3 DEF KeepsDrafts
<1>6. ASSUME NEW f \in Funnel, NEW w \in Task \X Kind,
             WaveEnds(f, w) \/ ListThrows(f, w)
      PROVE  journal' = journal /\ KeepsDrafts
  <2>1. EndWave(f, w) /\ journal' = journal
    BY <1>6 DEF WaveEnds, ListThrows, store
  <2>2. CASE w[2] = "submit"
    <3>1. w[1] \in Task /\ Answer(f, w[1], wave[f][w].ev, [wave[f] EXCEPT ![w] = None])
      BY <2>1, <2>2 DEF EndWave
    <3>. QED BY <2>1, <3>1, AnswerKeepsDrafts
  <2>3. CASE w[2] # "submit"
    BY <2>1, <2>3 DEF EndWave, KeepsDrafts
  <2>. QED BY <2>2, <2>3
<1>7. ASSUME NEW f \in Funnel, NEW t \in Task, RestoreStep(f, t)
      PROVE  journal' = journal /\ KeepsDrafts
  BY <1>7 DEF RestoreStep, RestoreLoad, RestoreProject, store, KeepsDrafts
<1>8. ASSUME NEW f \in Funnel, Crash(f)
      PROVE  KeepsDrafts
  <2>1. \A u \in Task : stage'[f][u] = "load"
    BY <1>8 DEF Crash, TypeOK
  <2>2. \A g \in Funnel : g # f =>
           stage'[g] = stage[g] /\ draft'[g] = draft[g] /\ tail'[g] = tail[g]
    BY <1>8 DEF Crash, TypeOK
  <2>. QED BY <2>1, <2>2 DEF KeepsDrafts
<1>9. ASSUME NEW f \in Funnel, CrashAnywhere(f) \/ \E t \in Task : CrashInCommit(f, t)
      PROVE  journal' = journal /\ KeepsDrafts
  BY <1>8, <1>9 DEF CrashAnywhere, CrashInCommit, store
<1>10. CASE UNCHANGED vars \/ Tick
  BY <1>10 DEF vars, store, memory, Tick, KeepsDrafts
<1>. QED BY <1>1, <1>2, <1>3, <1>4, <1>5, <1>6, <1>7, <1>9, <1>10
         DEF Next, SubmitStep, WaveStep

LEMMA QuietStepSafe ==
  ASSUME Safe, journal' = journal, KeepsDrafts
  PROVE  Safe'
<1>1. DraftsFit'
  <2> SUFFICES ASSUME NEW f \in Funnel, NEW t \in Task, stage'[f][t] = "commit"
               PROVE  /\ draft'[f][t].rev - 1 <= Revision(t)'
                      /\ Unchanged(f, t)' =>
                           /\ Accepts(journal'[t], Head(tail'[f][t]))
                           /\ Follows(draft'[f][t], journal'[t], Head(tail'[f][t]))
    BY DEF DraftsFit
  <2>1. /\ stage[f][t] = "commit" /\ draft'[f][t] = draft[f][t]
        /\ Head(tail'[f][t]) = Head(tail[f][t])
    BY DEF KeepsDrafts
  <2>2. Revision(t)' = Revision(t) /\ (Unchanged(f, t)' <=> Unchanged(f, t))
    BY <2>1 DEF Revision, Unchanged
  <2>. QED BY <2>1, <2>2 DEF Safe, DraftsFit
<1>2. RecordsFit' /\ EndedParentHasNoLiveChild'
  BY DEF Safe, RecordsFit, EndedParentHasNoLiveChild, Children
<1>. QED BY <1>1, <1>2 DEF Safe

LEMMA LoadSafe ==
  ASSUME TypeOK, Shape, Safe, NEW f \in Funnel, NEW t \in Task, Load(f, t)
  PROVE  Safe'
<1> DEFINE j == Head(tail[f][t])
<1>1. /\ journal' = journal /\ j \in Job /\ journal[t] \in Record \cup {None}
      /\ clock \in Nat
  BY PopProperties DEF Load, Served, TypeOK
<1>2. CASE ~Accepts(journal[t], j)
  <2>1. Answer(f, t, None, wave[f])
    BY <1>2 DEF Load
  <2>. QED BY <1>1, <2>1, AnswerKeepsDrafts, QuietStepSafe
<1>3. CASE Accepts(journal[t], j)
  <2>1. /\ draft' = [draft EXCEPT ![f][t] = Evaluated(journal[t], j)]
        /\ stage' = [stage EXCEPT ![f][t] = "commit"] /\ tail' = tail
    BY <1>3 DEF Load
  <2>2. /\ Follows(Evaluated(journal[t], j), journal[t], j)
        /\ Evaluated(journal[t], j).rev = 1 + Revision(t)
    BY <1>1, <1>3, EvaluatedType DEF Revision
  <2>3. Revision(t) \in Nat
    BY <1>1 DEF Revision, Record
  <2>4. DraftsFit'
    <3> SUFFICES ASSUME NEW g \in Funnel, NEW u \in Task, stage'[g][u] = "commit"
                 PROVE  /\ draft'[g][u].rev - 1 <= Revision(u)'
                        /\ Unchanged(g, u)' =>
                             /\ Accepts(journal'[u], Head(tail'[g][u]))
                             /\ Follows(draft'[g][u], journal'[u], Head(tail'[g][u]))
      BY DEF DraftsFit
    <3>1. CASE g = f /\ u = t
      <4>1. draft'[g][u] = Evaluated(journal[t], j)
        BY <2>1, <3>1 DEF TypeOK
      <4>2. Revision(u)' = Revision(t)
        BY <1>1, <3>1 DEF Revision
      <4>. QED BY <1>1, <1>3, <2>1, <2>2, <2>3, <3>1, <4>1, <4>2
    <3>2. CASE ~(g = f /\ u = t)
      <4>1. stage[g][u] = "commit" /\ draft'[g][u] = draft[g][u]
        BY <2>1, <3>2 DEF TypeOK
      <4>2. Revision(u)' = Revision(u) /\ (Unchanged(g, u)' <=> Unchanged(g, u))
        BY <1>1, <4>1 DEF Revision, Unchanged
      <4>. QED BY <1>1, <2>1, <4>1, <4>2 DEF Safe, DraftsFit
    <3>. QED BY <3>1, <3>2
  <2>5. RecordsFit' /\ EndedParentHasNoLiveChild'
    BY <1>1 DEF Safe, RecordsFit, EndedParentHasNoLiveChild, Children
  <2>. QED BY <2>4, <2>5 DEF Safe
<1>. QED BY <1>2, <1>3

\* What is known when the draft of t is committed over record r.
LEMMA CommitFacts ==
  ASSUME TypeOK, Shape, Safe, NEW f \in Funnel, NEW t \in Task, Commit(f, t)
  PROVE  \E d \in Record, j \in Job :
            /\ j = Head(tail[f][t]) /\ d = draft[f][t]
            /\ JobFits(f, t, j) /\ Accepts(journal[t], j) /\ Follows(d, journal[t], j)
            /\ ParentAllows(t, j, d) /\ ChildrenAllow(t, j)
            /\ d.rev = Revision(t) + 1
            /\ journal' = [journal EXCEPT ![t] = d]
<1> DEFINE d == draft[f][t]
           j == Head(tail[f][t])
<1>1. /\ tail[f][t] # <<>> /\ tail[f][t] \in Seq(Job) /\ stage[f][t] = "commit"
      /\ d \in Record
  BY DEF Commit, Served, TypeOK, Shape, StagesFit
<1>2. j \in Job /\ j = tail[f][t][1] /\ 1 \in DOMAIN tail[f][t]
  BY <1>1, PopProperties
<1>3. JobFits(f, t, j)
  BY <1>2 DEF Shape, JobsFit
<1>4. /\ Unchanged(f, t) /\ ParentAllows(t, j, d) /\ ChildrenAllow(t, j)
      /\ journal' = [journal EXCEPT ![t] = d]
  BY DEF Commit, Allowed
<1>5. Accepts(journal[t], j) /\ Follows(d, journal[t], j)
  BY <1>1, <1>4 DEF Safe, DraftsFit
<1>6. d.rev = Revision(t) + 1
  BY <1>1, <1>4 DEF Unchanged, Revision, Record, TypeOK
<1> HIDE DEF d, j
<1>. QED BY <1>1, <1>2, <1>3, <1>4, <1>5, <1>6 DEF d, j

LEMMA CommitSafe ==
  ASSUME TypeOK, Shape, Safe, NEW f \in Funnel, NEW t \in Task, Commit(f, t)
  PROVE  Safe'
<1>1. PICK d \in Record, j \in Job :
            /\ j = Head(tail[f][t]) /\ d = draft[f][t]
            /\ JobFits(f, t, j) /\ Accepts(journal[t], j) /\ Follows(d, journal[t], j)
            /\ ParentAllows(t, j, d) /\ ChildrenAllow(t, j)
            /\ d.rev = Revision(t) + 1
            /\ journal' = [journal EXCEPT ![t] = d]
  BY CommitFacts
<1>2. /\ journal'[t] = d /\ d # None
      /\ \A u \in Task : u # t => journal'[u] = journal[u]
  BY <1>1, NoneIsNothing DEF TypeOK
<1>3. journal[t] # None => journal[t] \in Record
  BY DEF TypeOK
<1>4. DraftsFit'
  <2> SUFFICES ASSUME NEW g \in Funnel, NEW u \in Task, stage'[g][u] = "commit"
               PROVE  /\ draft'[g][u].rev - 1 <= Revision(u)'
                      /\ Unchanged(g, u)' =>
                           /\ Accepts(journal'[u], Head(tail'[g][u]))
                           /\ Follows(draft'[g][u], journal'[u], Head(tail'[g][u]))
    BY DEF DraftsFit
  <2>1. /\ ~(g = f /\ u = t) /\ stage[g][u] = "commit"
        /\ draft' = draft /\ tail' = tail
    BY DEF Commit, TypeOK
  <2>2. CASE u # t
    <3>1. Revision(u)' = Revision(u) /\ (Unchanged(g, u)' <=> Unchanged(g, u))
      BY <1>2, <2>1, <2>2 DEF Revision, Unchanged
    <3>. QED BY <1>2, <2>1, <2>2, <3>1 DEF Safe, DraftsFit
  <2>3. CASE u = t
    <3>1. draft[g][t].rev - 1 <= Revision(t) /\ draft[g][t] \in Record
      BY <2>1, <2>3 DEF Safe, DraftsFit, Shape, StagesFit, TypeOK
    <3>2. Revision(t)' = Revision(t) + 1 /\ Revision(t) \in Nat
      BY <1>1, <1>2, <1>3 DEF Revision, Record
    <3>3. draft[g][t].rev \in Nat
      BY <3>1 DEF Record
    <3>. QED BY <2>1, <2>3, <3>1, <3>2, <3>3 DEF Unchanged
  <2>. QED BY <2>2, <2>3
<1>5. d.state = "terminal" <=> d.outcome # "none"
  <2>1. CASE journal[t] = None
    BY <1>1, <2>1 DEF Follows
  <2>2. CASE journal[t] # None
    <3>1. /\ d.outcome = EndOf(j) /\ d.state = StateAfter(journal[t], j)
          /\ journal[t].state = "terminal" => j.type = "ReplaceGeneration"
      BY <1>1, <2>2 DEF Follows, Accepts
    <3>2. CASE EndOf(j) # "none"
      <4>1. j.type \in {"SettleCompletion", "SettleCancellation", "SettleFailure",
                        "SettleTimeout", "PropagateParentTermination"}
        BY <3>2 DEF EndOf
      <4>2. StateAfter(journal[t], j) = "terminal"
        BY <3>2, <4>1 DEF StateAfter
      <4>. QED BY <3>1, <3>2, <4>2
    <3>3. CASE EndOf(j) = "none"
      <4>1. j.type = "ReplaceGeneration" => StateAfter(journal[t], j) = "active"
        BY <3>3 DEF StateAfter
      <4>2. StateAfter(journal[t], j)
               \in {"registered", "suspended", "active", journal[t].state}
        BY <3>3 DEF StateAfter
      <4>. QED BY <3>1, <3>3, <4>1, <4>2
    <3>. QED BY <3>2, <3>3
  <2>. QED BY <2>1, <2>2
<1>6. RecordsFit'
  BY <1>2, <1>5 DEF Safe, RecordsFit
<1>7. ASSUME NEW p \in Task, NEW c \in Children(p), journal'[c] # None,
             journal'[c].state # "terminal"
      PROVE  /\ journal'[p] # None /\ journal'[p].gen = journal'[c].pgen
             /\ journal'[p].outcome # "completed"
  <2>1. c \in Task /\ Parent[c] = p /\ p # c /\ Attached(c)
    BY TreeAssumption DEF Children, Attached
  <2>2. CASE c = t
    <3>1. journal'[p] = journal[p] /\ journal[p] # None /\ journal[p].gen = d.pgen
      BY <1>1, <1>2, <2>1, <2>2 DEF ParentAllows
    <3>2. d.state # "terminal"
      BY <1>2, <1>7, <2>2
    <3>3. CASE journal[p].state = "terminal"
      <4>1. j.type \in {"PropagateParentTermination", "SettleCancellation"}
        BY <1>1, <2>1, <2>2, <3>3, SMTT(60) DEF ParentAllows
      <4>2. EndOf(j) # "none" /\ journal[t] # None
        BY <1>1, <4>1 DEF EndOf, JobFits, Accepts
      <4>. QED BY <1>1, <1>5, <3>2, <4>2 DEF Follows
    <3>4. CASE journal[p].state # "terminal"
      BY <1>2, <2>2, <3>1, <3>4 DEF Safe, RecordsFit
    <3>. QED BY <3>3, <3>4
  <2>3. CASE c # t /\ p = t
    <3>1. /\ journal'[c] = journal[c] /\ journal[t] # None
          /\ journal[t].gen = journal[c].pgen /\ journal[c] # None
          /\ journal[c].state # "terminal"
      BY <1>2, <1>7, <2>1, <2>3 DEF Safe, EndedParentHasNoLiveChild
    <3>2. j.gen = journal[t].gen
      BY <1>1, <3>1 DEF Accepts
    <3>3. c \in LiveChildren(t, j.gen)
      BY <2>3, <3>1, <3>2 DEF LiveChildren
    <3>4. j.type \notin {"SettleCompletion", "ReplaceGeneration"}
      BY <1>1, <3>3 DEF ChildrenAllow
    <3>5. d.gen = journal[t].gen /\ d.outcome = EndOf(j)
      BY <1>1, <3>1, <3>4, SMTT(60) DEF Follows
    <3>6. EndOf(j) # "completed"
      BY <1>1, <3>4 DEF EndOf, JobFits
    <3>. QED BY <1>2, <2>3, <3>1, <3>5, <3>6
  <2>4. CASE c # t /\ p # t
    BY <1>2, <1>7, <2>1, <2>4 DEF Safe, EndedParentHasNoLiveChild
  <2>. QED BY <2>2, <2>3, <2>4
<1>8. EndedParentHasNoLiveChild'
  BY <1>7 DEF EndedParentHasNoLiveChild, Children
<1>. QED BY <1>4, <1>6, <1>8 DEF Safe

LEMMA StepKeepsInv == Inv /\ [Next]_vars => Inv'
<1> SUFFICES ASSUME Inv, [Next]_vars PROVE Inv'
  OBVIOUS
<1>1. TypeOK' /\ Shape'
  BY StepKeepsShape DEF Inv
<1>2. CASE \E f \in Funnel, t \in Task : Commit(f, t)
  BY <1>1, <1>2, CommitSafe DEF Inv
<1>3. CASE \E f \in Funnel, t \in Task : Load(f, t)
  BY <1>1, <1>3, LoadSafe DEF Inv
<1>4. CASE \A f \in Funnel, t \in Task : ~Commit(f, t) /\ ~Load(f, t)
  BY <1>1, <1>4, OtherStepsKeepDrafts, QuietStepSafe DEF Inv
<1>. QED BY <1>2, <1>3, <1>4

LEMMA InitInv == Init => Inv
<1> SUFFICES ASSUME Init PROVE Inv
  OBVIOUS
<1>1. TypeOK /\ Shape
  BY InitShape
<1>2. \A t \in Task : journal[t] = None /\ \A f \in Funnel : stage[f][t] = "load"
  BY DEF Init, NoRecords
<1>. QED BY <1>1, <1>2 DEF Inv, Safe, DraftsFit, RecordsFit, EndedParentHasNoLiveChild, Children

THEOREM InvHolds == Spec => []Inv
<1>. QED BY InitInv, StepKeepsInv, PTL DEF Spec

\* A live child always has the generation it belongs to above it, not completed
\* and not replaced, whatever two processes evaluate and commit side by side.
THEOREM TreeIsSound == Spec => []EndedParentHasNoLiveChild
<1>1. Inv => EndedParentHasNoLiveChild
  BY DEF Inv, Safe
<1>. QED BY <1>1, InvHolds, PTL

--------------------------------------------------------------------------------
(* The refinement of TaskGenerations *)

LifeOf(r) == [gen |-> r.gen, now |-> Condition(r), pgen |-> r.pgen]

LEMMA ConditionType ==
  ASSUME NEW r \in Record
  PROVE  /\ r.outcome # "none" => Condition(r) = r.outcome
         /\ r.outcome = "none" /\ Asked(r) => Condition(r) = "asked"
         /\ r.outcome = "none" /\ ~Asked(r) => Condition(r) = "open"
         /\ r.outcome \in {"completed", "cancelled", "failed", "timed_out", "none"}
  BY DEF Condition, Record, Outcome

\* The children the funnel counts as live are those of the promise.
LEMMA LiveMatches ==
  ASSUME TypeOK, RecordsFit, NEW t \in Task, NEW g, LiveChildren(t, g) = {}
  PROVE  Promised!LiveUnder(t, g) = {}
<1> SUFFICES ASSUME NEW c \in Task, Parent[c] = t, Life[c].pgen = g,
                    Life[c].now \in {"open", "asked"}
             PROVE  FALSE
  BY DEF Promised!LiveUnder, Promised!Live
<1>1. journal[c] \in Record /\ journal[c] # None
  BY DEF Life, TypeOK
<1>2. Life[c].pgen = journal[c].pgen /\ Life[c].now = Condition(journal[c])
  BY <1>1 DEF Life
<1>3. journal[c].outcome = "none"
  BY <1>1, <1>2, ConditionType
<1>4. journal[c].state # "terminal"
  BY <1>1, <1>3 DEF RecordsFit
<1>. QED BY <1>1, <1>2, <1>4 DEF LiveChildren, Children

LEMMA CommitRefines ==
  ASSUME TypeOK, Shape, Safe, NEW f \in Funnel, NEW t \in Task, Commit(f, t)
  PROVE  [Promised!Next]_Life
<1>1. PICK d \in Record, j \in Job :
            /\ j = Head(tail[f][t]) /\ d = draft[f][t]
            /\ JobFits(f, t, j) /\ Accepts(journal[t], j) /\ Follows(d, journal[t], j)
            /\ ParentAllows(t, j, d) /\ ChildrenAllow(t, j)
            /\ d.rev = Revision(t) + 1
            /\ journal' = [journal EXCEPT ![t] = d]
  BY CommitFacts
<1>2. Life' = [Life EXCEPT ![t] = LifeOf(d)]
  <2>1. \A u \in Task : journal'[u] = IF u = t THEN d ELSE journal[u]
    BY <1>1 DEF TypeOK
  <2>2. d # None
    BY NoneIsNothing
  <2>. QED BY <2>1, <2>2 DEF Life, LifeOf
<1>3. d.gen \in Nat /\ d.pgen \in Nat /\ DOMAIN Life = Task
  BY DEF Record, Life
<1> DEFINE p == journal[Parent[t]]
<1>4. Attached(t) =>
         /\ Parent[t] \in Task /\ p \in Record /\ p # None /\ p.gen = d.pgen
         /\ Life[Parent[t]] = LifeOf(p)
         /\ p.state = "terminal" <=> p.outcome # "none"
  BY <1>1, TreeAssumption, ZenonT(90) DEF Attached, ParentAllows, TypeOK, Life, LifeOf, Safe, RecordsFit
<1>5. CASE journal[t] = None
  <2>1. j.type = "RegisterGeneration" /\ d.gen = 1 /\ d.outcome = "none" /\ ~Asked(d)
        /\ d.pgen = j.at /\ (~Attached(t) => d.pgen = 0)
    BY <1>1, <1>5 DEF Accepts, Follows, JobFits, Asked
  <2>2. LifeOf(d) = [gen |-> 1, now |-> "open", pgen |-> d.pgen]
    BY <2>1, ConditionType DEF LifeOf
  <2>3. Life[t].now = "absent"
    BY <1>5 DEF Life
  <2>4. Attached(t) => Life[Parent[t]].now = "open" /\ Life[Parent[t]].gen = d.pgen
    <3> SUFFICES ASSUME Attached(t)
                 PROVE  Life[Parent[t]].now = "open" /\ Life[Parent[t]].gen = d.pgen
      OBVIOUS
    <3>1. p.state = "active" /\ ~Asked(p)
      BY <1>1, <2>1 DEF ParentAllows
    <3>. QED BY <1>4, <3>1, ConditionType DEF LifeOf
  <2>5. Promised!Attached(t) <=> Attached(t)
    BY DEF Promised!Attached, Attached
  <2>6. Promised!Start(t)
    BY <1>2, <2>1, <2>2, <2>3, <2>4, <2>5 DEF Promised!Start
  <2>. QED BY <2>6 DEF Promised!Next
<1>6. CASE journal[t] # None
  <2> DEFINE r == journal[t]
  <2>1. /\ r \in Record /\ r # None /\ Life[t] = LifeOf(r)
        /\ r.state = "terminal" <=> r.outcome # "none"
    BY <1>6 DEF TypeOK, Life, LifeOf, Safe, RecordsFit
  <2>2. /\ d.pgen = r.pgen /\ d.outcome = EndOf(j) /\ d.state = StateAfter(r, j)
        /\ d.gen = IF j.type = "ReplaceGeneration" THEN r.gen + 1 ELSE r.gen
        /\ j.type = "ReplaceGeneration" => ~Asked(d)
        /\ j.type = "RequestCancellation" => Asked(d)
        /\ j.type \notin {"ReplaceGeneration", "RequestCancellation"} => d.asked = r.asked
    BY <1>1, <1>6 DEF Follows
  <2>3. /\ j.type # "RegisterGeneration" /\ j.gen = r.gen
        /\ r.state = "terminal" => j.type = "ReplaceGeneration"
        /\ j.type \in {"RequestCancellation", "SettleFailure", "SettleTimeout"} => ~Asked(r)
        /\ j.type = "SettleCancellation" => Asked(r)
    BY <1>1, <1>6 DEF Accepts
  <2> HIDE DEF r
  \* Above t stands its parent's committed record.
  <2>4. Attached(t) => Promised!Above(t) = Condition(p)
    BY <1>4, <2>1, <2>2, SMTT(60) DEF Promised!Above, LifeOf
  <2>5. Promised!Attached(t) <=> Attached(t)
    BY DEF Promised!Attached, Attached
  <2>6. Attached(t) =>
           /\ p.outcome # "none" =>
                 /\ j.type \in {"PropagateParentTermination", "SettleCancellation"}
                 /\ j.type = "SettleCancellation" => p.outcome = "cancelled"
                 /\ j.type = "PropagateParentTermination" => p.outcome = j.outcome
           /\ j.type = "PropagateParentTermination" =>
                 p.outcome = j.outcome /\ p.outcome \in {"failed", "timed_out"}
           /\ Asked(p) => j.type \in {"RequestCancellation", "SettleCancellation"}
    BY <1>1, <1>4 DEF ParentAllows, JobFits
  <2>7. CASE j.type = "ReplaceGeneration"
    <3>1. LiveChildren(t, r.gen) = {}
      BY <1>1, <2>3, <2>7 DEF ChildrenAllow
    <3>2. Promised!LiveUnder(t, Life[t].gen) = {}
      BY <2>1, <3>1, LiveMatches DEF LifeOf, Safe
    <3>3. Attached(t) => Promised!Above(t) = "open"
      BY <1>4, <2>4, <2>6, <2>7, ConditionType
    <3>4. LifeOf(d) = [gen |-> Life[t].gen + 1, now |-> "open", pgen |-> Life[t].pgen]
      <4>1. EndOf(j) = "none"
        BY <2>7 DEF EndOf
      <4>2. d.outcome = "none" /\ ~Asked(d) /\ d.gen = r.gen + 1 /\ d.pgen = r.pgen
        BY <2>2, <2>7, <4>1
      <4>. QED BY <2>1, <4>2, ConditionType DEF LifeOf
    <3>5. Life[t].now # "absent"
      BY <2>1, ConditionType DEF LifeOf
    <3>6. Life' = [Life EXCEPT ![t] =
                     [gen |-> @.gen + 1, now |-> "open", pgen |-> @.pgen]]
      BY <1>2, <3>4
    <3>7. Promised!Renew(t)
      BY <2>5, <3>2, <3>3, <3>5, <3>6 DEF Promised!Renew
    <3>. QED BY <3>7 DEF Promised!Next
  <2>8. CASE j.type = "RequestCancellation"
    <3>1. EndOf(j) = "none" /\ r.outcome = "none" /\ ~Asked(r) /\ Asked(d)
      BY <2>1, <2>2, <2>3, <2>8 DEF EndOf
    <3>2. LifeOf(d) = [LifeOf(r) EXCEPT !.now = "asked"] /\ LifeOf(r).now = "open"
      BY <2>1, <2>2, <2>8, <3>1, ConditionType DEF LifeOf
    <3>3. Attached(t) => Promised!Above(t) \in Promised!Live
      BY <1>4, <2>4, <2>6, <2>8, ConditionType DEF Promised!Live
    <3>4. Life' = [Life EXCEPT ![t].now = "asked"]
      BY <1>2, <1>3, <2>1, <3>2
    <3>5. Promised!Ask(t)
      BY <2>1, <2>5, <3>2, <3>3, <3>4 DEF Promised!Ask
    <3>. QED BY <3>5 DEF Promised!Next
  <2>9. CASE j.type \notin {"ReplaceGeneration", "RequestCancellation"} /\ EndOf(j) = "none"
    <3>1. r.outcome = "none" /\ d.outcome = "none" /\ d.gen = r.gen /\ d.asked = r.asked
      BY <2>1, <2>2, <2>3, <2>9
    <3>2. LifeOf(d) = LifeOf(r)
      BY <2>1, <2>2, <3>1, ConditionType DEF LifeOf, Asked
    <3>3. Life' = Life
      <4>1. Life = [u \in Task |-> Life[u]]
        BY DEF Life
      <4>. QED BY <1>2, <2>1, <3>2, <4>1
    <3>. QED BY <3>3
  <2>10. CASE j.type \notin {"ReplaceGeneration", "RequestCancellation"} /\ EndOf(j) # "none"
    <3> DEFINE o == EndOf(j)
    <3>1. /\ r.outcome = "none" /\ d.outcome = o /\ d.gen = r.gen
          /\ o \in {"completed", "cancelled", "failed", "timed_out"}
      BY <2>1, <2>2, <2>3, <2>10, ConditionType, SMTT(60)
    <3>2. /\ o = "completed" => j.type = "SettleCompletion"
          /\ o = "cancelled" => j.type = "SettleCancellation"
          /\ o \in {"failed", "timed_out"} =>
                j.type \in {"SettleFailure", "SettleTimeout", "PropagateParentTermination"}
          /\ j.type = "SettleCancellation" => o = "cancelled"
          /\ j.type = "PropagateParentTermination" => Attached(t) /\ o = j.outcome
      BY <1>1, <2>10 DEF EndOf, JobFits
    <3> HIDE DEF o
    <3>3. /\ ~Asked(r) => Life[t].now = "open"
          /\ Asked(r) => Life[t].now = "asked"
          /\ Life[t].gen = r.gen
      BY <2>1, <3>1, ConditionType DEF LifeOf
    <3>4. Life' = [Life EXCEPT ![t].now = o]
      <4>1. LifeOf(d) = [LifeOf(r) EXCEPT !.now = o]
        BY <2>2, <3>1, ConditionType DEF LifeOf
      <4>. QED BY <1>2, <1>3, <2>1, <4>1
    <3>5. o = "completed" => Promised!LiveUnder(t, Life[t].gen) = {}
      BY <1>1, <2>3, <3>2, <3>3, LiveMatches DEF ChildrenAllow, Safe
    <3>6. Attached(t) =>
             \/ Promised!Above(t) = "open"
             \/ Promised!Above(t) = "asked" /\ o = "cancelled"
             \/ Promised!Above(t) = o /\ o # "completed"
      <4> SUFFICES ASSUME Attached(t)
                   PROVE  \/ Promised!Above(t) = "open"
                          \/ Promised!Above(t) = "asked" /\ o = "cancelled"
                          \/ Promised!Above(t) = o /\ o # "completed"
        OBVIOUS
      <4>1. CASE p.outcome # "none"
        BY <1>4, <2>4, <2>6, <3>1, <3>2, <4>1, ConditionType
      <4>2. CASE p.outcome = "none"
        BY <1>4, <2>4, <2>6, <2>10, <3>2, <4>2, ConditionType
      <4>. QED BY <4>1, <4>2
    <3>7. o \in {"failed", "timed_out"} /\ Life[t].now = "asked" =>
             Attached(t) /\ Promised!Above(t) = o
      BY <1>4, <2>3, <2>4, <2>6, <3>2, <3>3, ConditionType
    <3>8. o = "cancelled" => Life[t].now = "asked"
      BY <2>3, <3>2, <3>3
    <3>9. Promised!End(t, o)
      BY <2>5, <3>3, <3>4, <3>5, <3>6, <3>7, <3>8 DEF Promised!End, Promised!Live
    <3>. QED BY <3>1, <3>9 DEF Promised!Next, Promised!Outcome
  <2>. QED BY <2>7, <2>8, <2>9, <2>10
<1>. QED BY <1>5, <1>6

\* Whatever processes interleave, crash or fail: read through the journal, each
\* step leaves every task's life alone or moves one as TaskGenerations allows.
THEOREM ImplementsTaskGenerations == Spec => RefinesTaskGenerations
<1>1. Init => Promised!Init
  BY DEF Init, NoRecords, Promised!Init, Life, Promised!Absent
<1>2. Inv /\ [Next]_vars => [Promised!Next]_Life
  <2> SUFFICES ASSUME Inv, [Next]_vars PROVE [Promised!Next]_Life
    OBVIOUS
  <2>1. CASE \E f \in Funnel, t \in Task : Commit(f, t)
    BY <2>1, CommitRefines DEF Inv
  <2>2. CASE \A f \in Funnel, t \in Task : ~Commit(f, t)
    <3>1. journal' = journal
      BY <2>2, OtherStepsKeepDrafts DEF Inv, Load
    <3>. QED BY <3>1 DEF Life
  <2>. QED BY <2>1, <2>2
<1>. QED BY <1>1, <1>2, InvHolds, PTL DEF Spec, RefinesTaskGenerations, Promised!Spec

--------------------------------------------------------------------------------
(* What the processes know *)

\* Record r is not ahead of revision n, and at revision n it is record x.
Backed(r, n, x) == r # None => r.rev <= n /\ (r.rev = n => r = x)

KnownFits == \A f \in Funnel, t \in Task :
    /\ Backed(cache[f][t], Revision(t), journal[t])
    /\ Backed(restored[f][t], Revision(t), journal[t])
    /\ stage[f][t] = "publish" => Backed(draft[f][t], Revision(t), journal[t])

LEMMA CommitKeepsKnown ==
  ASSUME Inv, KnownFits, NEW f \in Funnel, NEW t \in Task, Commit(f, t)
  PROVE  KnownFits'
<1>1. PICK d \in Record, j \in Job :
         d = draft[f][t] /\ d.rev = Revision(t) + 1 /\ journal' = [journal EXCEPT ![t] = d]
  BY CommitFacts DEF Inv
<1>2. /\ journal'[t] = d /\ d # None
      /\ \A u \in Task : u # t => journal'[u] = journal[u]
  BY <1>1, NoneIsNothing DEF Inv, TypeOK
<1>3. /\ Revision(t)' = Revision(t) + 1 /\ Revision(t) \in Nat
      /\ \A u \in Task : u # t => Revision(u)' = Revision(u)
  BY <1>1, <1>2 DEF Revision, Inv, TypeOK, Record
<1>4. ASSUME NEW u \in Task, NEW r \in Record \cup {None},
             Backed(r, Revision(u), journal[u])
      PROVE  Backed(r, Revision(u)', journal'[u])
  <2>1. CASE u = t
    <3>1. r # None => r.rev \in Nat /\ r.rev <= Revision(t)
      BY <1>4, <2>1 DEF Backed, Record
    <3>. QED BY <1>3, <2>1, <3>1 DEF Backed
  <2>2. CASE u # t
    BY <1>2, <1>3, <1>4, <2>2
  <2>. QED BY <2>1, <2>2
<1>5. Backed(d, Revision(t)', journal'[t])
  BY <1>1, <1>2, <1>3 DEF Backed, Record
<1>6. /\ UNCHANGED <<cache, restored, draft>>
      /\ stage' = [stage EXCEPT ![f][t] = "publish"]
  BY DEF Commit
<1> SUFFICES ASSUME NEW g \in Funnel, NEW u \in Task
             PROVE  /\ Backed(cache'[g][u], Revision(u)', journal'[u])
                    /\ Backed(restored'[g][u], Revision(u)', journal'[u])
                    /\ stage'[g][u] = "publish" =>
                          Backed(draft'[g][u], Revision(u)', journal'[u])
  BY DEF KnownFits
<1>7. PICK c \in Record \cup {None}, m \in Record \cup {None}, e \in Record \cup {None} :
         c = cache[g][u] /\ m = restored[g][u] /\ e = draft[g][u]
  BY DEF Inv, TypeOK
<1>8. /\ Backed(c, Revision(u)', journal'[u]) /\ Backed(m, Revision(u)', journal'[u])
      /\ stage[g][u] = "publish" => Backed(e, Revision(u)', journal'[u])
  BY <1>4, <1>7 DEF KnownFits
<1>9. stage'[g][u] = "publish" => stage[g][u] = "publish" \/ (g = f /\ u = t)
  BY <1>6 DEF Inv, TypeOK
<1>. QED BY <1>1, <1>5, <1>6, <1>7, <1>8, <1>9

\* Every other step only moves records around.
LEMMA OtherStepsMoveRecords ==
  ASSUME Inv, [Next]_vars, \A f \in Funnel, t \in Task : ~Commit(f, t),
         NEW g \in Funnel, NEW u \in Task
  PROVE  /\ \/ cache'[g][u] \in {cache[g][u], journal[u], restored[g][u], None}
            \/ stage[g][u] = "publish" /\ cache'[g][u] = draft[g][u]
         /\ restored'[g][u] \in {restored[g][u], journal[u], None}
<1>1. ASSUME NEW f \in Funnel, NEW t \in Task, SubmitStep(f, t)
      PROVE  /\ restored' = restored
             /\ \/ cache' = cache
                \/ cache' = Learnt(f, t)
                \/ stage[f][t] = "publish" /\ cache' = [cache EXCEPT ![f][t] = draft[f][t]]
  BY <1>1 DEF SubmitStep, Load, LoadThrows, Commit, CommitRefused, CommitThrows, Publish, Served
<1>2. ASSUME NEW f \in Funnel, NEW t \in Task, RestoreStep(f, t)
      PROVE  /\ \/ restored' = [restored EXCEPT ![f][t] = journal[t]]
                \/ restored' = [restored EXCEPT ![f][t] = None]
             /\ \/ cache' = Learnt(f, t)
                \/ cache' = [cache EXCEPT ![f][t] = restored[f][t]]
  BY <1>2 DEF RestoreStep, RestoreLoad, RestoreProject
<1>3. ASSUME NEW f \in Funnel, Crash(f)
      PROVE  /\ cache' = [cache EXCEPT ![f] = NoRecords]
             /\ restored' = [restored EXCEPT ![f] = NoRecords]
  BY <1>3, SMTT(60) DEF Crash
<1>4. ASSUME NEW f \in Funnel, NEW w \in Task \X Kind, WaveStep(f, w)
      PROVE  UNCHANGED <<cache, restored>>
  BY <1>4 DEF WaveStep, ListChildren, ListThrows, Send, WaveEnds
<1>5. (UNCHANGED vars \/ Tick \/ \E k \in Caller, t \in Task : Submit(k, t)) =>
         UNCHANGED <<cache, restored>>
  BY DEF vars, memory, Tick, Submit
<1>6. cache \in [Funnel -> [Task -> Record \cup {None}]]
      /\ restored \in [Funnel -> [Task -> Record \cup {None}]]
  BY DEF Inv, TypeOK
<1>7. CASE \E f \in Funnel, t \in Task : SubmitStep(f, t)
  <2>1. PICK f \in Funnel, t \in Task : SubmitStep(f, t)
    BY <1>7
  <2>2. restored'[g][u] = restored[g][u]
    BY <1>1, <2>1
  <2>3. CASE cache' = cache
    BY <2>2, <2>3
  <2>4. CASE cache' = Learnt(f, t)
    <3>1. cache'[g][u] \in {cache[g][u], journal[u]}
      BY <1>6, <2>4 DEF Learnt
    <3>. QED BY <2>2, <3>1
  <2>5. CASE stage[f][t] = "publish" /\ cache' = [cache EXCEPT ![f][t] = draft[f][t]]
    BY <1>6, <2>2, <2>5
  <2>. QED BY <1>1, <2>1, <2>3, <2>4, <2>5
<1>8. CASE \E f \in Funnel, t \in Task : RestoreStep(f, t)
  <2>1. PICK f \in Funnel, t \in Task : RestoreStep(f, t)
    BY <1>8
  <2>2. restored'[g][u] \in {restored[g][u], journal[u], None}
    <3>1. CASE restored' = [restored EXCEPT ![f][t] = journal[t]]
      BY <1>6, <3>1
    <3>2. CASE restored' = [restored EXCEPT ![f][t] = None]
      BY <1>6, <3>2
    <3>. QED BY <1>2, <2>1, <3>1, <3>2
  <2>3. cache'[g][u] \in {cache[g][u], journal[u], restored[g][u]}
    <3>1. CASE cache' = Learnt(f, t)
      BY <1>6, <3>1 DEF Learnt
    <3>2. CASE cache' = [cache EXCEPT ![f][t] = restored[f][t]]
      BY <1>6, <3>2
    <3>. QED BY <1>2, <2>1, <3>1, <3>2
  <2>. QED BY <2>2, <2>3
<1>9. CASE \E f \in Funnel : Crash(f)
  BY <1>3, <1>6, <1>9 DEF NoRecords
<1>. QED BY <1>4, <1>5, <1>7, <1>8, <1>9 DEF Next, CrashAnywhere, CrashInCommit

LEMMA StepKeepsKnown == Inv /\ KnownFits /\ [Next]_vars => KnownFits'
<1> SUFFICES ASSUME Inv, KnownFits, [Next]_vars,
                    \A f \in Funnel, t \in Task : ~Commit(f, t),
                    NEW g \in Funnel, NEW u \in Task
             PROVE  /\ Backed(cache'[g][u], Revision(u)', journal'[u])
                    /\ Backed(restored'[g][u], Revision(u)', journal'[u])
                    /\ stage'[g][u] = "publish" =>
                          Backed(draft'[g][u], Revision(u)', journal'[u])
  BY CommitKeepsKnown DEF KnownFits
<1>1. /\ \/ cache'[g][u] \in {cache[g][u], journal[u], restored[g][u], None}
         \/ stage[g][u] = "publish" /\ cache'[g][u] = draft[g][u]
      /\ restored'[g][u] \in {restored[g][u], journal[u], None}
  BY OtherStepsMoveRecords
<1>2. /\ journal' = journal
      /\ stage'[g][u] = "publish" => stage[g][u] = "publish" /\ draft'[g][u] = draft[g][u]
  <2>1. CASE \E f \in Funnel, t \in Task : Load(f, t)
    <3>1. PICK f \in Funnel, t \in Task : Load(f, t)
      BY <2>1
    <3>2. CASE Accepts(journal[t], Head(tail[f][t]))
      <4>1. stage' = [stage EXCEPT ![f][t] = "commit"] /\ journal' = journal
            /\ draft' = [draft EXCEPT ![f][t] = Evaluated(journal[t], Head(tail[f][t]))]
        BY <3>1, <3>2 DEF Load
      <4>. QED BY <4>1 DEF Inv, TypeOK
    <3>3. CASE ~Accepts(journal[t], Head(tail[f][t]))
      BY <3>1, <3>3, AnswerKeepsDrafts DEF Load, KeepsDrafts, Inv
    <3>. QED BY <3>2, <3>3
  <2>2. CASE \A f \in Funnel, t \in Task : ~Load(f, t)
    BY <2>2, OtherStepsKeepDrafts DEF KeepsDrafts, Inv
  <2>. QED BY <2>1, <2>2
<1>3. Revision(u)' = Revision(u)
  BY <1>2 DEF Revision
<1>4. Backed(journal[u], Revision(u), journal[u]) /\ Backed(None, Revision(u), journal[u])
  <2>1. journal[u] # None => journal[u].rev \in Nat
    BY DEF Inv, TypeOK, Record
  <2>. QED BY <2>1 DEF Backed, Revision
<1>5. /\ Backed(cache[g][u], Revision(u), journal[u])
      /\ Backed(restored[g][u], Revision(u), journal[u])
      /\ stage[g][u] = "publish" => Backed(draft[g][u], Revision(u), journal[u])
  BY DEF KnownFits
<1>. QED BY <1>1, <1>2, <1>3, <1>4, <1>5

\* What a process holds of a task in authoritativeRecords was committed: through
\* refused commits, store faults, crashes and the late projection of a restore.
THEOREM ProcessesKnowTheJournal == Spec => []CacheIsCommitted
<1>1. Init => KnownFits
  BY DEF Init, NoRecords, KnownFits, Backed
<1>2. KnownFits => CacheIsCommitted
  BY DEF KnownFits, CacheIsCommitted, Backed
<1>. QED BY <1>1, <1>2, StepKeepsKnown, InvHolds, PTL DEF Spec

--------------------------------------------------------------------------------
(* The rows of a first generation *)

KeysFit == \A t \in Task :
    /\ journal[t] # None => journal[t].gen >= 1
    /\ journal[t] = None \/ journal[t].gen = 1 => \A r \in rows[t] : r.key = 1

LEMMA RepairKeepsKeys ==
  ASSUME Inv, KeysFit, NEW t \in Task, journal[t] = None \/ journal[t].gen = 1
  PROVE  /\ \A r \in Repaired(t) : r.key = 1
         /\ \A d \in Record : (journal[t] = None => d.gen = 1) =>
                \A r \in Written(t, d) : r.key = 1
<1>1. \A r \in Missed(t) : r.key = 1
  BY DEF KeysFit, Missed
<1>2. \A r \in Repaired(t) : r.key = 1
  BY <1>1 DEF Repaired, Put, KeysFit
<1>. QED BY <1>2 DEF Written, Put

\* How a step may leave the rows of u.
LEMMA RowsChange ==
  ASSUME Inv, [Next]_vars, NEW u \in Task
  PROVE  \/ rows'[u] \in {rows[u], Repaired(u)}
         \/ \E f \in Funnel : /\ Commit(f, u) \/ CrashInCommit(f, u)
                              /\ rows'[u] = Written(u, draft[f][u])
<1> DEFINE G == \/ rows'[u] \in {rows[u], Repaired(u)}
                \/ \E f \in Funnel : /\ Commit(f, u) \/ CrashInCommit(f, u)
                                     /\ rows'[u] = Written(u, draft[f][u])
<1>1. rows \in [Task -> SUBSET Row]
  BY DEF Inv, TypeOK
<1>2. ASSUME NEW f \in Funnel, NEW t \in Task, Load(f, t) \/ RestoreLoad(f, t)
      PROVE  G
  BY <1>1, <1>2 DEF Load, RestoreLoad
<1>3. ASSUME NEW f \in Funnel, NEW t \in Task, CommitRefused(f, t)
      PROVE  G
  BY <1>3 DEF CommitRefused, RepairedRows
<1>4. ASSUME NEW f \in Funnel, NEW t \in Task, Commit(f, t) \/ CrashInCommit(f, t)
      PROVE  G
  <2>1. rows' = [RepairedRows(Reads(f, t)) EXCEPT ![t] = Written(t, draft[f][t])]
    BY <1>4 DEF Commit, CrashInCommit
  <2>2. CASE u = t
    BY <1>4, <2>1, <2>2 DEF RepairedRows
  <2>3. CASE u # t
    BY <2>1, <2>3 DEF RepairedRows
  <2>. QED BY <2>2, <2>3
<1>5. ASSUME NEW f \in Funnel, NEW t \in Task,
             LoadThrows(f, t) \/ CommitThrows(f, t) \/ Publish(f, t) \/ RestoreProject(f, t)
      PROVE  G
  BY <1>5, SMTT(60) DEF LoadThrows, CommitThrows, Publish, RestoreProject, store
<1>6. ASSUME NEW f \in Funnel, NEW w \in Task \X Kind, WaveStep(f, w)
      PROVE  G
  BY <1>6 DEF WaveStep, ListChildren, ListThrows, Send, WaveEnds, store
<1>7. (UNCHANGED vars \/ Tick \/ (\E k \in Caller, t \in Task : Submit(k, t))
       \/ \E f \in Funnel : CrashAnywhere(f)) => G
  BY DEF vars, store, Tick, Submit, CrashAnywhere
<1> HIDE DEF G
<1>8. G
  BY <1>2, <1>3, <1>4, <1>5, <1>6, <1>7 DEF Next, SubmitStep, RestoreStep
<1>. QED BY <1>8 DEF G

LEMMA StepKeepsKeys == Inv /\ KeysFit /\ [Next]_vars => KeysFit'
<1> SUFFICES ASSUME Inv, KeysFit, [Next]_vars, NEW u \in Task
             PROVE  /\ journal'[u] # None => journal'[u].gen >= 1
                    /\ journal'[u] = None \/ journal'[u].gen = 1 =>
                          \A r \in rows'[u] : r.key = 1
  BY DEF KeysFit
<1>1. ASSUME NEW f \in Funnel, NEW t \in Task, Commit(f, t)
      PROVE  /\ draft[f][t] \in Record
             /\ journal' = [journal EXCEPT ![t] = draft[f][t]]
             /\ journal[t] = None => draft[f][t].gen = 1
             /\ journal[t] # None => /\ journal[t].gen \in Nat
                                    /\ draft[f][t].gen \in {journal[t].gen, journal[t].gen + 1}
  <2>1. PICK d \in Record, j \in Job :
            /\ d = draft[f][t] /\ JobFits(f, t, j)
            /\ Accepts(journal[t], j) /\ Follows(d, journal[t], j)
            /\ journal' = [journal EXCEPT ![t] = d]
    BY <1>1, CommitFacts DEF Inv
  <2>2. journal[t] = None => d.gen = 1
    BY <2>1 DEF Accepts, Follows, JobFits
  <2>3. journal[t] # None => /\ journal[t].gen \in Nat
                             /\ d.gen \in {journal[t].gen, journal[t].gen + 1}
    BY <2>1 DEF Follows, Record, Inv, TypeOK
  <2>. QED BY <2>1, <2>2, <2>3
<1>2. journal[u] # None => journal[u].gen \in Nat /\ journal[u].gen >= 1
  BY DEF KeysFit, Inv, TypeOK, Record
<1>3. CASE \E f \in Funnel : Commit(f, u)
  <2>1. PICK f \in Funnel : Commit(f, u)
    BY <1>3
  <2>2. PICK d \in Record : d = draft[f][u]
    BY <1>1, <2>1
  <2>3. rows'[u] = Written(u, d)
    BY <2>1, <2>2, RowTypes DEF Commit, Inv
  <2>4. journal'[u] = d /\ d # None
    BY <1>1, <2>1, <2>2, NoneIsNothing DEF Inv, TypeOK
  <2>5. /\ journal[u] = None => d.gen = 1
        /\ journal[u] # None => d.gen \in {journal[u].gen, journal[u].gen + 1}
    BY <1>1, <2>1, <2>2
  <2>6. d.gen >= 1
    BY <1>2, <2>5
  <2>7. d.gen = 1 => journal[u] = None \/ journal[u].gen = 1
    BY <1>2, <2>5
  <2>. QED BY <2>3, <2>4, <2>5, <2>6, <2>7, RepairKeepsKeys
<1>4. CASE \A f \in Funnel : ~Commit(f, u)
  <2>1. journal'[u] = journal[u]
    <3>1. CASE \E f \in Funnel, t \in Task : Commit(f, t)
      BY <1>1, <1>4, <3>1 DEF Inv, TypeOK
    <3>2. CASE \A f \in Funnel, t \in Task : ~Commit(f, t)
      BY <3>2, OtherStepsKeepDrafts DEF Inv, Load
    <3>. QED BY <3>1, <3>2
  <2>2. CASE rows'[u] \in {rows[u], Repaired(u)}
    BY <2>1, <2>2, RepairKeepsKeys DEF KeysFit
  <2>3. CASE \E f \in Funnel : CrashInCommit(f, u) /\ rows'[u] = Written(u, draft[f][u])
    <3>1. PICK f \in Funnel : CrashInCommit(f, u) /\ rows'[u] = Written(u, draft[f][u])
      BY <2>3
    <3>2. /\ stage[f][u] = "commit" /\ tail[f][u] # <<>> /\ tail[f][u] \in Seq(Job)
          /\ Unchanged(f, u) /\ draft[f][u] \in Record
      BY <3>1 DEF CrashInCommit, Served, Inv, TypeOK, Shape, StagesFit
    <3>3. PICK j \in Job : /\ j = Head(tail[f][u]) /\ JobFits(f, u, j)
                           /\ Accepts(journal[u], j) /\ Follows(draft[f][u], journal[u], j)
      BY <3>2, PopProperties DEF Inv, Safe, DraftsFit, Shape, JobsFit
    <3>4. journal[u] = None => draft[f][u].gen = 1
      BY <3>3 DEF Accepts, Follows, JobFits
    <3>. QED BY <1>2, <2>1, <3>1, <3>2, <3>4, RepairKeepsKeys
  <2>. QED BY <1>4, <2>2, <2>3, RowsChange
<1>. QED BY <1>3, <1>4

\* Whatever a crash between the two rows of a commit leaves behind, the record of
\* a first generation can be repaired from its event: no retry is fenced off.
THEOREM FirstGenerationsStayReadable == Spec => []FirstGenerationIsReadable
<1>1. Init => KeysFit
  BY DEF Init, NoRecords, KeysFit
<1>2. KeysFit => FirstGenerationIsReadable
  BY DEF KeysFit, FirstGenerationIsReadable, Readable, Missed
<1>. QED BY <1>1, <1>2, StepKeepsKeys, InvHolds, PTL DEF Spec
================================================================================

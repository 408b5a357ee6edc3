--------------------------- MODULE BufferedPoolProofs ---------------------------
(***************************************************************************)
(* Proofs about BufferedPool for every set of clients and flushes and      *)
(* whatever they write: types, transactions that are stored in at most one *)
(* database transaction, and the implementation of WriteLog.  Flushes may  *)
(* fail, shadows may be reaped and stop() may be called at any time.       *)
(***************************************************************************)
EXTENDS BufferedPool, SequenceTheorems, FiniteSetTheorems, TLAPS

--------------------------------------------------------------------------------
(* The inductive invariant *)

Elements(s) == {s[i] : i \in DOMAIN s}
Distinct(s) == \A i, j \in DOMAIN s : s[i] = s[j] => i = j

\* What client c has pushed.
Pushed(c) == UNION {Elements(Work[c][i]) : i \in 1 .. pushed[c]}
Inside == {"swap", "open", "apply", "clear", "requeue"}

\* Flushes take turns: only the first in line is past the mutex.
LineFits ==
    /\ \A f \in Flush : at[f] \in Inside => Holds(f, flushLine)
    /\ \A i \in DOMAIN flushLine :
         /\ at[flushLine[i]] \in Inside \cup {"lock"}
         /\ i > 1 => at[flushLine[i]] = "lock"
    /\ Distinct(flushLine)

\* The copy is the batch in flight, unless stop() has dropped that one.
CopyFits ==
    /\ at[Closer] # "idle" => stops > 0
    /\ IF \E f \in Flush : at[f] = "apply"
       THEN copy = inflight \/ (inflight = <<>> /\ stops > 0)
       ELSE copy = <<>>

\* A call in line may still be made when it is served.
CallsFit == \A c \in Client :
    /\ pushed[c] <= Len(Work[c])
    /\ c \in Direct => phase[c] = "open"
    /\ call[c] = "begin" => phase[c] = "new"
    /\ call[c] = "push" => phase[c] = "open" /\ pushed[c] < Len(Work[c])
    /\ call[c] \in {"commit", "rollback"} => phase[c] = "open" /\ c \notin Direct

\* A shadow holds writes its client has pushed, once.
ShadowsFit == \A c \in Client : shadow[c] # None =>
    /\ c \notin Direct /\ phase[c] = "open"
    /\ Elements(shadow[c]) \subseteq Pushed(c) /\ Distinct(shadow[c])

Buffered == Elements(active) \cup Elements(inflight) \cup Elements(copy)
Logged == UNION {Elements(log[b]) : b \in DOMAIN log}
Stored == Buffered \cup Logged

\* Nothing is stored that was not pushed, or not committed.
StoreFits ==
    /\ \A op \in Stored : \E c \in Client : op \in Pushed(c)
    /\ \A c \in Client \ Direct : phase[c] # "committed" => Stored \cap OpsOf(c) = {}

\* The writes of a transaction are all in one place.
Has(s, c) == \E i \in DOMAIN s : s[i] \in OpsOf(c)
Whole(c) ==
    /\ ~(Has(active, c) /\ Has(Taken, c))
    /\ Has(active, c) \/ Has(Taken, c) => Batches(c) = {}
    /\ \A b, d \in Batches(c) : b = d

Inv ==
    /\ TypeOK /\ LineFits /\ CopyFits /\ CallsFit /\ ShadowsFit /\ StoreFits
    /\ \A c \in Client \ Direct : Whole(c)

--------------------------------------------------------------------------------
(* Sequences of writes *)

LEMMA ElementsConcat ==
  ASSUME NEW S, NEW s \in Seq(S), NEW t \in Seq(S)
  PROVE  s \o t \in Seq(S) /\ Elements(s \o t) = Elements(s) \cup Elements(t)
<1>1. /\ s \o t \in Seq(S) /\ Len(s \o t) = Len(s) + Len(t)
      /\ \A i \in 1 .. Len(s) : (s \o t)[i] = s[i]
      /\ \A i \in 1 .. Len(t) : (s \o t)[Len(s) + i] = t[i]
  BY ConcatProperties
<1>2. \A i \in 1 .. Len(s) + Len(t) :
         i \in 1 .. Len(s) \/ (i - Len(s) \in 1 .. Len(t) /\ i = Len(s) + (i - Len(s)))
  OBVIOUS
<1>3. Elements(s \o t) \subseteq Elements(s) \cup Elements(t)
  <2> SUFFICES ASSUME NEW i \in 1 .. Len(s) + Len(t)
               PROVE  (s \o t)[i] \in Elements(s) \cup Elements(t)
    BY <1>1 DEF Elements
  <2>1. CASE i \in 1 .. Len(s)
    BY <1>1, <2>1 DEF Elements
  <2>2. CASE i - Len(s) \in 1 .. Len(t) /\ i = Len(s) + (i - Len(s))
    <3>1. PICK k \in 1 .. Len(t) : i = Len(s) + k
      BY <2>2
    <3>. QED BY <1>1, <3>1 DEF Elements
  <2>. QED BY <1>2, <2>1, <2>2
<1>4. Elements(s) \subseteq Elements(s \o t) /\ Elements(t) \subseteq Elements(s \o t)
  <2>1. ASSUME NEW i \in 1 .. Len(s) PROVE s[i] \in Elements(s \o t)
    <3>1. i \in DOMAIN (s \o t) /\ (s \o t)[i] = s[i]
      BY <1>1
    <3>. QED BY <3>1 DEF Elements
  <2>2. ASSUME NEW i \in 1 .. Len(t) PROVE t[i] \in Elements(s \o t)
    <3>1. Len(s) + i \in DOMAIN (s \o t) /\ (s \o t)[Len(s) + i] = t[i]
      BY <1>1
    <3>. QED BY <3>1 DEF Elements
  <2>3. DOMAIN s = 1 .. Len(s) /\ DOMAIN t = 1 .. Len(t)
    OBVIOUS
  <2>. QED BY <2>1, <2>2, <2>3 DEF Elements
<1>. QED BY <1>1, <1>3, <1>4

LEMMA DistinctConcat ==
  ASSUME NEW S, NEW s \in Seq(S), NEW t \in Seq(S), Distinct(s), Distinct(t),
         Elements(s) \cap Elements(t) = {}
  PROVE  Distinct(s \o t)
<1>1. /\ s \o t \in Seq(S) /\ Len(s \o t) = Len(s) + Len(t)
      /\ \A i \in 1 .. Len(s) : (s \o t)[i] = s[i]
      /\ \A i \in 1 .. Len(t) : (s \o t)[Len(s) + i] = t[i]
  BY ConcatProperties
<1> SUFFICES ASSUME NEW i \in 1 .. Len(s) + Len(t), NEW j \in 1 .. Len(s) + Len(t),
                    (s \o t)[i] = (s \o t)[j]
             PROVE  i = j
  BY <1>1 DEF Distinct
<1>2. \A k \in 1 .. Len(s) + Len(t) :
         k \in 1 .. Len(s) \/ \E m \in 1 .. Len(t) : k = Len(s) + m
  <2> SUFFICES ASSUME NEW k \in 1 .. Len(s) + Len(t), k \notin 1 .. Len(s)
               PROVE  \E m \in 1 .. Len(t) : k = Len(s) + m
    OBVIOUS
  <2>1. k - Len(s) \in 1 .. Len(t) /\ k = Len(s) + (k - Len(s))
    OBVIOUS
  <2>. QED BY <2>1
<1>3. \A k \in 1 .. Len(s), m \in 1 .. Len(t) : s[k] # t[m]
  <2> SUFFICES ASSUME NEW k \in 1 .. Len(s), NEW m \in 1 .. Len(t), s[k] = t[m]
               PROVE  FALSE
    OBVIOUS
  <2>1. s[k] \in Elements(s) /\ t[m] \in Elements(t)
    BY DEF Elements
  <2>. QED BY <2>1
<1>4. CASE i \in 1 .. Len(s) /\ j \in 1 .. Len(s)
  BY <1>1, <1>4 DEF Distinct
<1>5. CASE \E m, n \in 1 .. Len(t) : i = Len(s) + m /\ j = Len(s) + n
  BY <1>1, <1>5 DEF Distinct
<1>6. CASE i \in 1 .. Len(s) /\ \E n \in 1 .. Len(t) : j = Len(s) + n
  BY <1>1, <1>3, <1>6
<1>7. CASE j \in 1 .. Len(s) /\ \E n \in 1 .. Len(t) : i = Len(s) + n
  BY <1>1, <1>3, <1>7
<1>. QED BY <1>2, <1>4, <1>5, <1>6, <1>7

LEMMA ElementsOfSeq ==
  ASSUME NEW S, NEW s \in Seq(S)
  PROVE  Elements(s) \subseteq S
  BY DEF Elements

LEMMA NoElements ==
  /\ Elements(<<>>) = {} /\ Distinct(<<>>)
  /\ \A c : ~Has(<<>>, c)
  BY DEF Elements, Distinct, Has

LEMMA HasIsElement ==
  ASSUME NEW s, NEW c
  PROVE  Has(s, c) <=> Elements(s) \cap OpsOf(c) # {}
  BY DEF Has, Elements

LEMMA HasConcat ==
  ASSUME NEW S, NEW s \in Seq(S), NEW t \in Seq(S), NEW c
  PROVE  Has(s \o t, c) <=> Has(s, c) \/ Has(t, c)
  BY ElementsConcat, HasIsElement

LEMMA Logging ==
  ASSUME NEW batch \in Seq(Op), log \in Seq(Seq(Op)), log' = Append(log, batch)
  PROVE  /\ log' \in Seq(Seq(Op))
         /\ Logged' = Logged \cup Elements(batch)
         /\ \A c \in Client :
              Batches(c)' = Batches(c) \cup (IF Has(batch, c) THEN {Len(log) + 1} ELSE {})
<1>1. /\ log' \in Seq(Seq(Op)) /\ DOMAIN log' = 1 .. Len(log) + 1 /\ DOMAIN log = 1 .. Len(log)
      /\ \A b \in 1 .. Len(log) : log'[b] = log[b]
      /\ log'[Len(log) + 1] = batch
  BY AppendProperties
<1>2. 1 .. Len(log) + 1 = 1 .. Len(log) \cup {Len(log) + 1}
  OBVIOUS
<1>3. Logged' = Logged \cup Elements(batch)
  BY <1>1, <1>2 DEF Logged
<1>4. ASSUME NEW c \in Client
      PROVE  Batches(c)' = Batches(c) \cup (IF Has(batch, c) THEN {Len(log) + 1} ELSE {})
  BY <1>1, <1>2 DEF Batches, Has
<1>. QED BY <1>1, <1>3, <1>4

--------------------------------------------------------------------------------
(* What clients write *)

LEMMA WorkFacts ==
  ASSUME NEW c \in Client
  PROVE  /\ Len(Work[c]) \in Nat /\ DOMAIN Work[c] = 1 .. Len(Work[c])
         /\ OpsOf(c) \subseteq Op
         /\ \A i \in 1 .. Len(Work[c]) :
              /\ Work[c][i] \in Seq(Op) /\ Work[c][i] # <<>>
              /\ Elements(Work[c][i]) \subseteq OpsOf(c)
              /\ Distinct(Work[c][i])
<1>1. Work[c] \in Seq(Seq(Op) \ {<<>>})
  BY PoolAssumption
<1>2. Len(Work[c]) \in Nat /\ DOMAIN Work[c] = 1 .. Len(Work[c])
  BY <1>1
<1>3. \A i \in 1 .. Len(Work[c]) : Work[c][i] \in Seq(Op) /\ Work[c][i] # <<>>
  BY <1>1, ElementOfSeq
<1>4. \A i \in 1 .. Len(Work[c]) : Elements(Work[c][i]) \subseteq OpsOf(c)
  BY <1>2 DEF OpsOf, Elements
<1>5. \A i \in 1 .. Len(Work[c]) : Distinct(Work[c][i])
  BY <1>2, WorkAssumption DEF Distinct
<1>. QED BY <1>2, <1>3, <1>4, <1>5 DEF Op

\* The next batch of a client has never been pushed.
LEMMA FreshBatch ==
  ASSUME TypeOK, NEW c \in Client, pushed[c] < Len(Work[c])
  PROVE  /\ pushed[c] + 1 \in 1 .. Len(Work[c])
         /\ \A d \in Client : pushed[d] <= Len(Work[d]) =>
              Elements(Work[c][pushed[c] + 1]) \cap Pushed(d) = {}
<1>1. pushed[c] \in Nat /\ pushed[c] + 1 \in 1 .. Len(Work[c])
  BY WorkFacts DEF TypeOK
<1>2. ASSUME NEW d \in Client, pushed[d] <= Len(Work[d]),
             NEW op \in Elements(Work[c][pushed[c] + 1]), op \in Pushed(d)
      PROVE  FALSE
  <2>1. PICK i \in 1 .. pushed[d] : op \in Elements(Work[d][i])
    BY <1>2 DEF Pushed
  <2>2. i \in 1 .. Len(Work[d]) /\ pushed[d] \in Nat
    BY <1>2, WorkFacts DEF TypeOK
  <2>3. op \in OpsOf(d) /\ op \in OpsOf(c)
    BY <1>1, <1>2, <2>1, <2>2, WorkFacts
  <2>4. d = c
    BY <2>3, WorkAssumption
  <2>5. PICK k \in DOMAIN Work[c][i], m \in DOMAIN Work[c][pushed[c] + 1] :
           Work[c][i][k] = Work[c][pushed[c] + 1][m]
    BY <1>2, <2>1, <2>4 DEF Elements
  <2>6. i = pushed[c] + 1
    BY <1>1, <2>2, <2>4, <2>5, WorkFacts, WorkAssumption, SMTT(60)
  <2>. QED BY <1>1, <2>1, <2>4, <2>6
<1>. QED BY <1>1, <1>2

\* A push adds its batch to what its client has pushed.
LEMMA Pushing ==
  ASSUME TypeOK, NEW c \in Client, pushed' = [pushed EXCEPT ![c] = @ + 1]
  PROVE  /\ Pushed(c)' = Pushed(c) \cup Elements(Work[c][pushed[c] + 1])
         /\ \A d \in Client : d # c => Pushed(d)' = Pushed(d)
<1>1. pushed[c] \in Nat /\ pushed'[c] = pushed[c] + 1
      /\ \A d \in Client : d # c => pushed'[d] = pushed[d]
  BY DEF TypeOK
<1>2. 1 .. pushed'[c] = 1 .. pushed[c] \cup {pushed[c] + 1}
  BY <1>1
<1>3. Pushed(c)' = Pushed(c) \cup Elements(Work[c][pushed[c] + 1])
  BY <1>2 DEF Pushed
<1>4. \A d \in Client : d # c => Pushed(d)' = Pushed(d)
  BY <1>1 DEF Pushed
<1>. QED BY <1>3, <1>4

--------------------------------------------------------------------------------
(* Flushes take turns *)

\* A flush that works has the mutex, and no other one works.
LEMMA OneInside ==
  ASSUME LineFits, NEW f \in Flush, NEW g \in Flush, at[f] \in Inside, at[g] \in Inside
  PROVE  f = g
  BY DEF LineFits, Holds

LEMMA InsideFacts ==
  ASSUME TypeOK, LineFits, NEW f \in Flush, at[f] \in Inside
  PROVE  /\ flushLine \in Seq(Flush) /\ flushLine # <<>> /\ flushLine[1] = f
         /\ \A g \in Flush : at[g] \in Inside => g = f
  BY OneInside DEF TypeOK, LineFits, Holds

\* What is taken, by where the flush stands that works.
LEMMA TakenIs ==
  ASSUME LineFits, NEW f \in Flush
  PROVE  /\ at[f] = "clear" => Taken = <<>>
         /\ at[f] = "apply" => Taken = copy
         /\ at[f] \in {"swap", "open", "requeue"} => Taken = inflight
<1>1. CASE at[f] = "clear"
  BY <1>1 DEF Taken
<1>2. CASE at[f] \in {"apply", "swap", "open", "requeue"}
  <2>1. \A g \in Flush : at[g] \in {"clear", "apply"} => g = f
    BY <1>2, OneInside DEF Inside
  <2>. QED BY <1>2, <2>1 DEF Taken
<1>. QED BY <1>1, <1>2

LEMMA TakenNow ==
  ASSUME TypeOK, CopyFits
  PROVE  /\ Taken \in Seq(Op) /\ Elements(Taken) \subseteq Elements(inflight) \cup Elements(copy)
         /\ Taken = <<>> \/ Taken = copy \/ Taken = inflight
  BY EmptySeq DEF Taken, TypeOK, Elements

\* A flush asks for the mutex.
LEMMA EnterKeepsLine ==
  ASSUME TypeOK, LineFits, NEW f \in Flush, at[f] = "idle", Enter(f)
  PROVE  /\ at' \in [Flush -> Place] /\ flushLine' \in Seq(Flush) /\ LineFits'
         /\ at'[f] \in {"lock", "ended", "idle"}
         /\ \A g \in Flush : g # f => at'[g] = at[g]
<1>1. Over(f) \in {"ended", "idle"}
  BY DEF Over
<1>2. at \in [Flush -> Place] /\ flushLine \in Seq(Flush)
  BY DEF TypeOK
<1>3. \A i \in DOMAIN flushLine : flushLine[i] # f
  BY DEF LineFits, Inside
<1>4. CASE at' = [at EXCEPT ![f] = Over(f)] /\ flushLine' = flushLine
  <2>1. at'[f] \in {"ended", "idle"} /\ \A g \in Flush : g # f => at'[g] = at[g]
    BY <1>1, <1>2, <1>4
  <2>2. at' \in [Flush -> Place]
    BY <1>1, <1>2, <1>4 DEF Place
  <2>3. \A i \in DOMAIN flushLine : flushLine[i] \in Flush /\ at'[flushLine[i]] = at[flushLine[i]]
    BY <1>2, <1>3, <2>1
  <2>4. LineFits'
    BY <1>4, <2>1, <2>3 DEF LineFits, Inside, Holds, Distinct
  <2>. QED BY <1>2, <1>4, <2>1, <2>2, <2>4
<1>5. CASE at' = [at EXCEPT ![f] = "lock"] /\ flushLine' = Append(flushLine, f)
  <2>1. at'[f] = "lock" /\ \A g \in Flush : g # f => at'[g] = at[g]
    BY <1>2, <1>5
  <2>2. at' \in [Flush -> Place]
    BY <1>2, <1>5 DEF Place
  <2>3. /\ flushLine' \in Seq(Flush) /\ Len(flushLine') = Len(flushLine) + 1
        /\ DOMAIN flushLine' = 1 .. Len(flushLine) + 1 /\ DOMAIN flushLine = 1 .. Len(flushLine)
        /\ \A i \in 1 .. Len(flushLine) : flushLine'[i] = flushLine[i]
        /\ flushLine'[Len(flushLine) + 1] = f
    BY <1>2, <1>5, AppendProperties
  <2>4. \A i \in DOMAIN flushLine : flushLine[i] \in Flush /\ at'[flushLine[i]] = at[flushLine[i]]
    BY <1>2, <1>3, <2>1
  <2>5. ASSUME NEW i \in DOMAIN flushLine'
        PROVE  at'[flushLine'[i]] \in Inside \cup {"lock"} /\ (i > 1 => at'[flushLine'[i]] = "lock")
    <3>1. CASE i \in DOMAIN flushLine
      BY <2>3, <2>4, <3>1 DEF LineFits
    <3>2. CASE i = Len(flushLine) + 1
      BY <2>1, <2>3, <3>2
    <3>. QED BY <2>3, <3>1, <3>2
  <2>6. Distinct(flushLine')
    BY <1>2, <1>3, <2>3 DEF LineFits, Distinct
  <2>7. ASSUME NEW g \in Flush, at'[g] \in Inside PROVE Holds(g, flushLine')
    <3>1. g # f /\ at[g] \in Inside
      BY <2>1, <2>7 DEF Inside
    <3>2. flushLine # <<>> /\ flushLine[1] = g
      BY <1>2, <3>1, InsideFacts
    <3>3. 1 \in 1 .. Len(flushLine)
      BY <1>2, <3>2
    <3>4. flushLine' # <<>> /\ flushLine'[1] = g
      BY <1>2, <2>3, <3>2, <3>3
    <3>. QED BY <2>3, <3>4 DEF Holds
  <2>8. LineFits'
    BY <2>5, <2>6, <2>7 DEF LineFits
  <2>. QED BY <2>1, <2>2, <2>3, <2>8
<1>. QED BY <1>4, <1>5 DEF Enter

\* A flush goes on with the mutex.
LEMMA StayKeepsLine ==
  ASSUME TypeOK, LineFits, NEW f \in Flush, Holds(f, flushLine), NEW next \in Inside,
         at' = [at EXCEPT ![f] = next], flushLine' = flushLine
  PROVE  /\ at' \in [Flush -> Place] /\ LineFits' /\ at'[f] = next
         /\ \A g \in Flush : g # f => at'[g] = at[g]
<1>1. at \in [Flush -> Place] /\ flushLine \in Seq(Flush) /\ flushLine # <<>> /\ flushLine[1] = f
  BY DEF TypeOK, Holds
<1>2. at'[f] = next /\ \A g \in Flush : g # f => at'[g] = at[g]
  BY <1>1
<1>3. at' \in [Flush -> Place]
  BY <1>1 DEF Inside, Place
<1>4. ASSUME NEW i \in DOMAIN flushLine
      PROVE  at'[flushLine[i]] \in Inside \cup {"lock"} /\ (i > 1 => at'[flushLine[i]] = "lock")
  <2>1. CASE i = 1
    BY <1>1, <1>2, <2>1
  <2>2. CASE i # 1
    <3>1. i > 1 /\ flushLine[i] # f /\ flushLine[i] \in Flush
      BY <1>1, <2>2 DEF LineFits, Distinct
    <3>. QED BY <1>2, <3>1 DEF LineFits
  <2>. QED BY <2>1, <2>2
<1>5. \A g \in Flush : at'[g] \in Inside => g = f
  BY <1>1, <1>2 DEF LineFits, Holds
<1>6. LineFits'
  BY <1>4, <1>5 DEF LineFits, Holds
<1>. QED BY <1>2, <1>3, <1>6

\* A flush that is over hands the mutex to the next in line.
LEMMA LeaveKeepsLine ==
  ASSUME TypeOK, LineFits, NEW f \in Flush, at[f] \in Inside,
         at' = [at EXCEPT ![f] = Over(f)], flushLine' = Tail(flushLine)
  PROVE  /\ at' \in [Flush -> Place] /\ flushLine' \in Seq(Flush) /\ LineFits'
         /\ at'[f] \in {"ended", "idle"} /\ (at'[f] = "ended" => f = Closer)
         /\ \A g \in Flush : at'[g] \notin Inside
         /\ \A g \in Flush : g # f => at'[g] = at[g]
<1>1. at \in [Flush -> Place] /\ flushLine \in Seq(Flush) /\ flushLine # <<>> /\ flushLine[1] = f
      /\ \A g \in Flush : at[g] \in Inside => g = f
  BY InsideFacts DEF TypeOK
<1>2. Over(f) \in {"ended", "idle"} /\ (Over(f) = "ended" => f = Closer)
  BY DEF Over
<1>3. at'[f] = Over(f) /\ \A g \in Flush : g # f => at'[g] = at[g]
  BY <1>1
<1>4. at' \in [Flush -> Place]
  BY <1>1, <1>2 DEF Place
<1>5. /\ flushLine' \in Seq(Flush) /\ DOMAIN flushLine' = 1 .. Len(flushLine) - 1
      /\ DOMAIN flushLine = 1 .. Len(flushLine) /\ Len(flushLine) \in Nat
      /\ \A i \in 1 .. Len(flushLine) - 1 : flushLine'[i] = flushLine[i + 1]
  BY <1>1, HeadTailProperties
<1>6. \A g \in Flush : at'[g] \notin Inside
  BY <1>1, <1>2, <1>3 DEF Inside
<1>7. ASSUME NEW i \in DOMAIN flushLine' PROVE at'[flushLine'[i]] = "lock"
  <2>1. i + 1 \in DOMAIN flushLine /\ i + 1 > 1 /\ flushLine'[i] = flushLine[i + 1]
    BY <1>5
  <2>2. flushLine[i + 1] # f /\ flushLine[i + 1] \in Flush
    BY <1>1, <2>1 DEF LineFits, Distinct
  <2>. QED BY <1>3, <2>1, <2>2 DEF LineFits
<1>8. Distinct(flushLine')
  BY <1>5 DEF LineFits, Distinct
<1>9. LineFits'
  BY <1>6, <1>7, <1>8 DEF LineFits
<1>. QED BY <1>2, <1>3, <1>4, <1>5, <1>6, <1>9

--------------------------------------------------------------------------------
(* What a step leaves alone *)

LEMMA FlushesStay ==
  ASSUME LineFits, CopyFits, UNCHANGED <<at, flushLine, inflight, copy, stops>>
  PROVE  LineFits' /\ CopyFits' /\ Taken' = Taken
  BY DEF LineFits, CopyFits, Taken, Holds, Distinct, Inside

LEMMA ClientsStay ==
  ASSUME CallsFit, ShadowsFit, UNCHANGED <<clients, shadow>>
  PROVE  CallsFit' /\ ShadowsFit' /\ \A c \in Client : Pushed(c)' = Pushed(c)
  BY SMTT(60) DEF clients, CallsFit, ShadowsFit, Pushed, Elements, Distinct

LEMMA WhatIsStored ==
  ASSUME TypeOK, CopyFits, NEW c \in Client
  PROVE  /\ Stored \cap OpsOf(c) = {} =>
              ~Has(active, c) /\ ~Has(Taken, c) /\ Batches(c) = {}
         /\ Batches(c) = {} <=> Logged \cap OpsOf(c) = {}
         /\ Elements(Taken) \subseteq Stored /\ Elements(active) \subseteq Stored
<1>1. Batches(c) = {} <=> Logged \cap OpsOf(c) = {}
  BY DEF Batches, Logged, Elements
<1>2. Elements(Taken) \subseteq Stored /\ Elements(active) \subseteq Stored
  BY TakenNow DEF Stored, Buffered
<1>3. Logged \subseteq Stored
  BY DEF Stored
<1>4. Stored \cap OpsOf(c) = {} => ~Has(active, c) /\ ~Has(Taken, c)
  BY <1>2, HasIsElement
<1>. QED BY <1>1, <1>2, <1>3, <1>4

\* Writes move between the buffers, or are dropped.
LEMMA StoreShrinks ==
  ASSUME Inv, UNCHANGED <<log, phase, pushed>>, Buffered' \subseteq Buffered,
         \A c \in Client :
            /\ Has(active, c)' \/ Has(Taken, c)' => Has(active, c) \/ Has(Taken, c)
            /\ Has(active, c)' /\ Has(Taken, c)' => Has(active, c) /\ Has(Taken, c)
  PROVE  StoreFits' /\ \A c \in Client \ Direct : Whole(c)'
<1>1. Logged' = Logged /\ \A c \in Client : Batches(c)' = Batches(c) /\ Pushed(c)' = Pushed(c)
  BY DEF Logged, Batches, Pushed, Elements
<1>2. Stored' \subseteq Stored
  BY <1>1 DEF Stored
<1>3. StoreFits'
  BY <1>1, <1>2 DEF Inv, StoreFits
<1>4. \A c \in Client \ Direct : Whole(c)'
  BY <1>1 DEF Inv, Whole
<1>. QED BY <1>3, <1>4

LEMMA StoreStays ==
  ASSUME Inv, UNCHANGED <<log, phase, pushed, active, inflight, copy>>, Taken' = Taken
  PROVE  StoreFits' /\ \A c \in Client \ Direct : Whole(c)'
<1>1. Buffered' = Buffered
  BY DEF Buffered, Elements
<1>2. \A c \in Client : (Has(active, c)' <=> Has(active, c)) /\ (Has(Taken, c)' <=> Has(Taken, c))
  BY DEF Has
<1>. QED BY <1>1, <1>2, StoreShrinks

\* Writes join the active buffer.
LEMMA StoreGrows ==
  ASSUME NEW more, UNCHANGED <<inflight, copy, log>>,
         Elements(active)' = Elements(active) \cup more
  PROVE  Stored' = Stored \cup more
<1>1. Elements(inflight)' = Elements(inflight) /\ Elements(copy)' = Elements(copy)
      /\ Logged' = Logged
  BY DEF Elements, Logged
<1>. QED BY <1>1 DEF Stored, Buffered

--------------------------------------------------------------------------------
(* Steps of the clients *)

LEMMA LoopTypes ==
  ASSUME TypeOK, EnsureStarted \/ ScheduleFlush
  PROVE  looping' \in BOOLEAN /\ timer' \in BOOLEAN /\ started' \in BOOLEAN /\ stopped' \in BOOLEAN
<1>1. CASE EnsureStarted
  BY <1>1 DEF EnsureStarted, TypeOK, loop
<1>2. CASE ScheduleFlush
  BY <1>2 DEF ScheduleFlush, TypeOK
<1>. QED BY <1>1, <1>2

LEMMA ProcessTypes == Client \subseteq Process /\ Flush \subseteq Process /\ Reaper \in Process
  BY DEF Process

LEMMA ServeFacts ==
  ASSUME TypeOK, NEW c \in Client, NEW kind \in Call, Serves(c, kind)
  PROVE  /\ call[c] = kind /\ call' \in [Client -> Call] /\ call'[c] = "none"
         /\ \A d \in Client : d # c => call'[d] = call[d]
         /\ stateLine' \in Seq(Process)
<1>1. call \in [Client -> Call] /\ stateLine \in Seq(Process) /\ stateLine # <<>>
  BY DEF Serves, Holds, TypeOK
<1>2. stateLine' \in Seq(Process)
  BY <1>1, HeadTailProperties DEF Serves
<1>. QED BY <1>1, <1>2 DEF Serves, Call

LEMMA AskKeepsInv ==
  ASSUME Inv, NEW c \in Client, Ask(c)
  PROVE  Inv'
<1>1. /\ TypeOK /\ call[c] = "none"
      /\ UNCHANGED <<active, inflight, copy, log, shadow, old, phase, pushed, flushLine, at,
                     faults, stops>>
  BY DEF Inv, Ask, buffers, shadows
<1>2. PICK kind \in Calls(c) : call' = [call EXCEPT ![c] = kind]
  BY DEF Ask
<1>3. \/ kind = "begin" /\ phase[c] = "new"
      \/ kind = "push" /\ phase[c] = "open" /\ pushed[c] < Len(Work[c])
      \/ kind \in {"commit", "rollback"} /\ phase[c] = "open" /\ c \notin Direct
  BY DEF Calls
<1>4. /\ call' \in [Client -> Call] /\ call'[c] = kind
      /\ \A d \in Client : d # c => call'[d] = call[d]
  BY <1>1, <1>2, <1>3 DEF TypeOK, Call
<1>5. TypeOK'
  <2>1. stateLine' \in Seq(Process)
    BY <1>1, ProcessTypes, AppendProperties DEF Ask, TypeOK
  <2>2. EnsureStarted
    BY DEF Ask
  <2>. QED BY <1>1, <1>4, <2>1, <2>2, LoopTypes DEF TypeOK
<1>6. LineFits' /\ CopyFits' /\ Taken' = Taken
  BY <1>1, FlushesStay DEF Inv
<1>7. CallsFit'
  BY <1>1, <1>3, <1>4 DEF Inv, CallsFit
<1>8. ShadowsFit'
  BY <1>1 DEF Inv, ShadowsFit, Pushed, Elements, Distinct
<1>. QED BY <1>1, <1>5, <1>6, <1>7, <1>8, StoreStays DEF Inv

LEMMA BeginKeepsInv ==
  ASSUME Inv, NEW c \in Client, Begin(c)
  PROVE  Inv'
<1>1. /\ TypeOK /\ Serves(c, "begin")
      /\ UNCHANGED <<active, inflight, copy, log, pushed, flushLine, at, faults, stops,
                     looping, timer, started, stopped>>
  BY DEF Inv, Begin, buffers, loop
<1>2. /\ call[c] = "begin" /\ call' \in [Client -> Call] /\ call'[c] = "none"
      /\ \A d \in Client : d # c => call'[d] = call[d]
      /\ stateLine' \in Seq(Process)
  BY <1>1, ServeFacts DEF Call
<1>3. phase[c] = "new" /\ c \notin Direct /\ shadow[c] = None
  BY <1>2 DEF Inv, CallsFit, ShadowsFit
<1>4. /\ phase' \in [Client -> Phase] /\ phase'[c] = "open"
      /\ \A d \in Client : d # c => phase'[d] = phase[d]
  BY <1>1 DEF Begin, TypeOK, Phase
<1>5. /\ shadow' \in [Client -> Seq(Op) \cup {None}] /\ shadow'[c] = <<>>
      /\ \A d \in Client : d # c => shadow'[d] = shadow[d]
      /\ old' \in SUBSET Client
  BY <1>1, <1>3, EmptySeq DEF Begin, TypeOK
<1>6. TypeOK'
  BY <1>1, <1>2, <1>4, <1>5 DEF TypeOK
<1>7. LineFits' /\ CopyFits' /\ Taken' = Taken
  BY <1>1, FlushesStay DEF Inv
<1>8. CallsFit'
  BY <1>1, <1>2, <1>4 DEF Inv, CallsFit
<1>9. \A d \in Client : Pushed(d)' = Pushed(d)
  BY <1>1 DEF Pushed, Elements
<1>10. ShadowsFit'
  BY <1>3, <1>4, <1>5, <1>9, NoElements DEF Inv, ShadowsFit, Elements, Distinct
<1>11. Stored' = Stored
  BY <1>1 DEF Stored, Buffered, Logged, Elements
<1>12. StoreFits'
  BY <1>3, <1>4, <1>9, <1>11 DEF Inv, StoreFits
<1>13. \A d \in Client \ Direct : Whole(d)'
  BY <1>1, <1>7 DEF Inv, Whole, Has, Batches
<1>. QED BY <1>6, <1>7, <1>8, <1>10, <1>12, <1>13 DEF Inv

LEMMA RollbackKeepsInv ==
  ASSUME Inv, NEW c \in Client, Rollback(c)
  PROVE  Inv'
<1>1. /\ TypeOK /\ Serves(c, "rollback")
      /\ UNCHANGED <<active, inflight, copy, log, pushed, flushLine, at, faults, stops,
                     looping, timer, started, stopped>>
  BY DEF Inv, Rollback, buffers, loop
<1>2. /\ call[c] = "rollback" /\ call' \in [Client -> Call] /\ call'[c] = "none"
      /\ \A d \in Client : d # c => call'[d] = call[d]
      /\ stateLine' \in Seq(Process)
  BY <1>1, ServeFacts DEF Call
<1>3. phase[c] = "open" /\ c \notin Direct
  BY <1>2 DEF Inv, CallsFit
<1>4. /\ phase' \in [Client -> Phase] /\ phase'[c] = "rolled_back"
      /\ \A d \in Client : d # c => phase'[d] = phase[d]
  BY <1>1 DEF Rollback, TypeOK, Phase
<1>5. /\ shadow' \in [Client -> Seq(Op) \cup {None}] /\ shadow'[c] = None
      /\ \A d \in Client : d # c => shadow'[d] = shadow[d]
      /\ old' \in SUBSET Client
  BY <1>1 DEF Rollback, TypeOK
<1>6. TypeOK'
  BY <1>1, <1>2, <1>4, <1>5 DEF TypeOK
<1>7. LineFits' /\ CopyFits' /\ Taken' = Taken
  BY <1>1, FlushesStay DEF Inv
<1>8. CallsFit'
  BY <1>1, <1>2, <1>3, <1>4 DEF Inv, CallsFit
<1>9. \A d \in Client : Pushed(d)' = Pushed(d)
  BY <1>1 DEF Pushed, Elements
<1>10. ShadowsFit'
  BY <1>4, <1>5, <1>9 DEF Inv, ShadowsFit, Elements, Distinct
<1>11. Stored' = Stored
  BY <1>1 DEF Stored, Buffered, Logged, Elements
<1>12. StoreFits'
  BY <1>3, <1>4, <1>9, <1>11 DEF Inv, StoreFits
<1>13. \A d \in Client \ Direct : Whole(d)'
  BY <1>1, <1>7 DEF Inv, Whole, Has, Batches
<1>. QED BY <1>6, <1>7, <1>8, <1>10, <1>12, <1>13 DEF Inv

LEMMA CommitKeepsInv ==
  ASSUME Inv, NEW c \in Client, Commit(c)
  PROVE  Inv'
<1>1. /\ TypeOK /\ Serves(c, "commit") /\ ScheduleFlush
      /\ UNCHANGED <<inflight, copy, log, pushed, flushLine, at, faults, stops>>
  BY DEF Inv, Commit
<1>2. /\ call[c] = "commit" /\ call' \in [Client -> Call] /\ call'[c] = "none"
      /\ \A d \in Client : d # c => call'[d] = call[d]
      /\ stateLine' \in Seq(Process)
  BY <1>1, ServeFacts DEF Call
<1>3. phase[c] = "open" /\ c \notin Direct
  BY <1>2 DEF Inv, CallsFit
<1>4. /\ phase' \in [Client -> Phase] /\ phase'[c] = "committed"
      /\ \A d \in Client : d # c => phase'[d] = phase[d]
  BY <1>1 DEF Commit, TypeOK, Phase
<1>5. /\ shadow' \in [Client -> Seq(Op) \cup {None}] /\ shadow'[c] = None
      /\ \A d \in Client : d # c => shadow'[d] = shadow[d]
      /\ old' \in SUBSET Client
  BY <1>1 DEF Commit, TypeOK
<1>6. PICK batch \in Seq(Op) :
        /\ active' = active \o batch
        /\ Elements(batch) \subseteq Pushed(c)
  <2>1. CASE shadow[c] = None
    <3>1. active' = active \o <<>> /\ <<>> \in Seq(Op)
      BY <1>1, <2>1, ConcatEmptySeq, EmptySeq DEF Commit, TypeOK
    <3>. QED BY <3>1, NoElements
  <2>2. CASE shadow[c] # None
    BY <1>1, <2>2 DEF Commit, TypeOK, Inv, ShadowsFit
  <2>. QED BY <2>1, <2>2
<1>7. active' \in Seq(Op) /\ Elements(active)' = Elements(active) \cup Elements(batch)
  BY <1>1, <1>6, ElementsConcat DEF TypeOK
<1>8. TypeOK'
  BY <1>1, <1>2, <1>4, <1>5, <1>7, LoopTypes DEF TypeOK
<1>9. LineFits' /\ CopyFits' /\ Taken' = Taken
  BY <1>1, FlushesStay DEF Inv
<1>10. CallsFit'
  BY <1>1, <1>2, <1>3, <1>4 DEF Inv, CallsFit
<1>11. \A d \in Client : Pushed(d)' = Pushed(d)
  BY <1>1 DEF Pushed, Elements
<1>12. ShadowsFit'
  BY <1>4, <1>5, <1>11 DEF Inv, ShadowsFit, Elements, Distinct
<1>13. Stored' = Stored \cup Elements(batch)
  BY <1>7, StoreGrows DEF Commit
<1>14. Pushed(c) \subseteq OpsOf(c)
  <2>1. pushed[c] \in Nat /\ pushed[c] <= Len(Work[c])
    BY <1>1 DEF Inv, CallsFit, TypeOK
  <2>2. \A i \in 1 .. pushed[c] : i \in 1 .. Len(Work[c])
    BY <2>1, WorkFacts
  <2>. QED BY <2>2, WorkFacts DEF Pushed
<1>15. \A d \in Client : d # c => Elements(batch) \cap OpsOf(d) = {}
  BY <1>6, <1>14, WorkAssumption
<1>16. StoreFits'
  BY <1>3, <1>4, <1>6, <1>11, <1>13, <1>15 DEF Inv, StoreFits
<1>17. ASSUME NEW d \in Client \ Direct PROVE Whole(d)'
  <2>1. (Has(Taken, d)' <=> Has(Taken, d)) /\ Batches(d)' = Batches(d)
    BY <1>1, <1>9 DEF Has, Batches
  <2>2. Has(active, d)' <=> Has(active, d) \/ Has(batch, d)
    <3>1. Has(active', d) <=> Has(active, d) \/ Has(batch, d)
      BY <1>1, <1>6, HasConcat DEF TypeOK
    <3>. QED BY <3>1 DEF Has
  <2>3. CASE d = c
    <3>1. ~Has(active, c) /\ ~Has(Taken, c) /\ Batches(c) = {}
      BY <1>1, <1>3, WhatIsStored DEF Inv, StoreFits
    <3>. QED BY <2>1, <2>3, <3>1 DEF Whole
  <2>4. CASE d # c
    <3>1. ~Has(batch, d)
      BY <1>15, <2>4, HasIsElement
    <3>. QED BY <2>1, <2>2, <3>1 DEF Inv, Whole
  <2>. QED BY <2>3, <2>4
<1>. QED BY <1>8, <1>9, <1>10, <1>12, <1>16, <1>17 DEF Inv

LEMMA PushKeepsInv ==
  ASSUME Inv, NEW c \in Client, Push(c)
  PROVE  Inv'
<1> DEFINE batch == Work[c][pushed[c] + 1]
<1>1. /\ TypeOK /\ Serves(c, "push") /\ ScheduleFlush
      /\ pushed' = [pushed EXCEPT ![c] = @ + 1]
      /\ UNCHANGED <<inflight, copy, log, phase, flushLine, at, faults, stops>>
  BY DEF Inv, Push
<1>2. /\ call[c] = "push" /\ call' \in [Client -> Call] /\ call'[c] = "none"
      /\ \A d \in Client : d # c => call'[d] = call[d]
      /\ stateLine' \in Seq(Process)
  BY <1>1, ServeFacts DEF Call
<1>3. phase[c] = "open" /\ pushed[c] < Len(Work[c])
      /\ \A d \in Client : pushed[d] <= Len(Work[d])
  BY <1>2 DEF Inv, CallsFit
<1>4. /\ pushed' \in [Client -> Nat] /\ pushed'[c] = pushed[c] + 1
      /\ \A d \in Client : d # c => pushed'[d] = pushed[d]
      /\ pushed[c] \in Nat /\ Len(Work[c]) \in Nat
  BY <1>1, WorkFacts DEF TypeOK
<1>5. /\ batch \in Seq(Op) /\ Elements(batch) \subseteq OpsOf(c) /\ Distinct(batch)
      /\ \A d \in Client : Elements(batch) \cap Pushed(d) = {}
  BY <1>1, <1>3, FreshBatch, WorkFacts
<1>6. Pushed(c)' = Pushed(c) \cup Elements(batch)
      /\ \A d \in Client : d # c => Pushed(d)' = Pushed(d)
  BY <1>1, Pushing
<1>7. \/ c \in Direct /\ active' = active \o batch /\ shadow' = shadow /\ old' = old
      \/ /\ c \notin Direct /\ active' = active /\ old' = old \ {c}
         /\ shadow' = [shadow EXCEPT ![c] = (IF @ = None THEN <<>> ELSE @) \o batch]
  BY DEF Push, shadows
<1>. HIDE DEF batch
<1>8. LineFits' /\ CopyFits' /\ Taken' = Taken
  BY <1>1, FlushesStay DEF Inv
<1>9. CallsFit'
  BY <1>1, <1>2, <1>3, <1>4 DEF Inv, CallsFit
<1>10. \A d \in Client : d # c => Elements(batch) \cap OpsOf(d) = {}
  BY <1>5, WorkAssumption
<1>11. CASE c \in Direct
  <2>1. /\ active' = active \o batch /\ active' \in Seq(Op) /\ shadow' = shadow /\ old' = old
        /\ Elements(active)' = Elements(active) \cup Elements(batch)
    <3>1. active' = active \o batch /\ shadow' = shadow /\ old' = old
      BY <1>7, <1>11
    <3>2. active \o batch \in Seq(Op)
          /\ Elements(active \o batch) = Elements(active) \cup Elements(batch)
      BY <1>1, <1>5, ElementsConcat DEF TypeOK
    <3>. QED BY <3>1, <3>2
  <2>2. TypeOK'
    BY <1>1, <1>2, <1>4, <2>1, LoopTypes DEF TypeOK
  <2>3. ShadowsFit'
    BY <1>1, <1>6, <1>11, <2>1, SMTT(60) DEF Inv, ShadowsFit, Elements, Distinct
  <2>4. Stored' = Stored \cup Elements(batch)
    BY <1>1, <2>1, StoreGrows
  <2>5. StoreFits'
    BY <1>1, <1>6, <1>10, <1>11, <2>4 DEF Inv, StoreFits
  <2>6. ASSUME NEW d \in Client \ Direct PROVE Whole(d)'
    <3>1. ~Has(batch, d)
      BY <1>10, <1>11, HasIsElement
    <3>2. Has(active', d) <=> Has(active, d)
      BY <1>1, <1>5, <2>1, <3>1, HasConcat DEF TypeOK
    <3>3. (Has(active, d)' <=> Has(active, d)) /\ (Has(Taken, d)' <=> Has(Taken, d))
          /\ Batches(d)' = Batches(d)
      BY <1>1, <1>8, <3>2 DEF Has, Batches
    <3>. QED BY <3>3 DEF Inv, Whole
  <2>. QED BY <1>8, <1>9, <2>2, <2>3, <2>5, <2>6 DEF Inv
<1>12. CASE c \notin Direct
  <2>1. PICK before \in Seq(Op) :
          /\ before = (IF shadow[c] = None THEN <<>> ELSE shadow[c])
          /\ Elements(before) \subseteq Pushed(c) /\ Distinct(before)
    BY <1>1, EmptySeq, NoElements DEF Inv, ShadowsFit, TypeOK
  <2>2. /\ before \o batch \in Seq(Op) /\ Distinct(before \o batch)
        /\ Elements(before \o batch) = Elements(before) \cup Elements(batch)
    <3>1. Elements(before) \cap Elements(batch) = {}
      BY <1>5, <2>1
    <3>2. Distinct(before \o batch)
      BY <1>5, <2>1, <3>1, DistinctConcat
    <3>3. before \o batch \in Seq(Op)
          /\ Elements(before \o batch) = Elements(before) \cup Elements(batch)
      BY <1>5, ElementsConcat
    <3>. QED BY <3>2, <3>3
  <2>3. /\ active' = active /\ shadow' \in [Client -> Seq(Op) \cup {None}]
        /\ shadow'[c] = before \o batch /\ old' \in SUBSET Client
        /\ \A d \in Client : d # c => shadow'[d] = shadow[d]
    BY <1>1, <1>7, <1>12, <2>1, <2>2, ZenonT(90) DEF TypeOK
  <2>4. TypeOK'
    BY <1>1, <1>2, <1>4, <2>3, LoopTypes DEF TypeOK
  <2>5. ASSUME NEW d \in Client, shadow'[d] # None
        PROVE  /\ d \notin Direct /\ phase'[d] = "open"
               /\ Elements(shadow'[d]) \subseteq Pushed(d)' /\ Distinct(shadow'[d])
    <3>1. CASE d = c
      BY <1>1, <1>3, <1>6, <1>12, <2>1, <2>2, <2>3, <3>1
    <3>2. CASE d # c
      BY <1>1, <1>6, <2>3, <2>5, <3>2 DEF Inv, ShadowsFit
    <3>. QED BY <3>1, <3>2
  <2>6. ShadowsFit'
    BY <2>5 DEF ShadowsFit, Elements, Distinct
  <2>7. Stored' = Stored
    BY <1>1, <2>3 DEF Stored, Buffered, Logged, Elements
  <2>8. StoreFits'
    BY <1>1, <1>6, <2>7 DEF Inv, StoreFits
  <2>9. \A d \in Client \ Direct : Whole(d)'
    <3>1. \A d \in Client : (Has(active, d)' <=> Has(active, d))
            /\ (Has(Taken, d)' <=> Has(Taken, d)) /\ Batches(d)' = Batches(d)
      BY <1>1, <1>8, <2>3 DEF Has, Batches
    <3>. QED BY <3>1 DEF Inv, Whole
  <2>. QED BY <1>8, <1>9, <2>4, <2>6, <2>8, <2>9 DEF Inv
<1>. QED BY <1>11, <1>12

--------------------------------------------------------------------------------
(* Steps of the flushes *)

LEMMA FiresKeepsInv ==
  ASSUME Inv, NEW f \in Flusher, IntervalFires(f) \/ TimeoutFires(f)
  PROVE  Inv'
<1>1. /\ TypeOK /\ f \in Flush /\ at[f] = "idle" /\ Enter(f) /\ f # Closer
      /\ UNCHANGED <<active, inflight, copy, log, call, phase, pushed, shadow, old,
                     stateLine, faults, stops, looping, started, stopped>>
      /\ timer' \in BOOLEAN
  BY PoolAssumption
     DEF Inv, TypeOK, IntervalFires, TimeoutFires, buffers, clients, shadows, loop, Flush
<1>2. /\ at' \in [Flush -> Place] /\ flushLine' \in Seq(Flush) /\ LineFits'
      /\ at'[f] \in {"lock", "ended", "idle"}
      /\ \A g \in Flush : g # f => at'[g] = at[g]
  BY <1>1, EnterKeepsLine DEF Inv
<1>3. TypeOK'
  BY <1>1, <1>2 DEF TypeOK
<1>4. \A g \in Flush, where \in Inside : at'[g] = where <=> at[g] = where
  BY <1>1, <1>2 DEF Inside
<1>5. Taken' = Taken /\ CopyFits'
  <2>1. \A g \in Flush : (at'[g] = "clear" <=> at[g] = "clear")
                      /\ (at'[g] = "apply" <=> at[g] = "apply")
    BY <1>4 DEF Inside
  <2>2. Closer \in Flush /\ at'[Closer] = at[Closer]
    BY <1>1, <1>2 DEF Flush
  <2>. QED BY <1>1, <2>1, <2>2 DEF Inv, Taken, CopyFits
<1>6. CallsFit' /\ ShadowsFit'
  BY <1>1, ClientsStay DEF Inv, clients
<1>. QED BY <1>1, <1>2, <1>3, <1>5, <1>6, StoreStays DEF Inv

LEMMA LockKeepsInv ==
  ASSUME Inv, NEW f \in Flush, Lock(f)
  PROVE  Inv'
<1>1. /\ TypeOK /\ at[f] = "lock" /\ Holds(f, flushLine)
      /\ at' = [at EXCEPT ![f] = "swap"]
      /\ UNCHANGED <<active, inflight, copy, log, call, phase, pushed, shadow, old,
                     flushLine, looping, timer, started, stopped, faults, stops>>
  BY DEF Inv, Lock, buffers, clients, shadows, loop
<1>2. /\ at' \in [Flush -> Place] /\ LineFits' /\ at'[f] = "swap"
      /\ \A g \in Flush : g # f => at'[g] = at[g]
  BY <1>1, StayKeepsLine DEF Inv, Inside
<1>3. TypeOK'
  <2>1. stateLine' \in Seq(Process)
    BY <1>1, ProcessTypes, AppendProperties DEF Lock, TypeOK
  <2>. QED BY <1>1, <1>2, <2>1 DEF TypeOK
<1>4. Taken' = Taken /\ CopyFits'
  <2>1. \A g \in Flush : (at'[g] = "clear" <=> at[g] = "clear")
                      /\ (at'[g] = "apply" <=> at[g] = "apply")
    BY <1>1, <1>2
  <2>2. at'[Closer] = "idle" <=> at[Closer] = "idle"
    BY <1>1, <1>2 DEF Flush
  <2>. QED BY <1>1, <2>1, <2>2 DEF Inv, Taken, CopyFits
<1>5. CallsFit' /\ ShadowsFit'
  BY <1>1, ClientsStay DEF Inv, clients
<1>. QED BY <1>1, <1>2, <1>3, <1>4, <1>5, StoreStays DEF Inv

\* The mutex for the state is handed over.
LEMMA StateLineTypes ==
  ASSUME TypeOK, NEW p \in Process, Holds(p, stateLine), stateLine' = Tail(stateLine)
  PROVE  stateLine' \in Seq(Process)
  BY HeadTailProperties DEF TypeOK, Holds

LEMMA SwapKeepsInv ==
  ASSUME Inv, NEW f \in Flush, Swap(f)
  PROVE  Inv' /\ (Taken \o active)' = Taken \o active
<1>1. /\ TypeOK /\ LineFits /\ CopyFits /\ at[f] = "swap" /\ at[f] \in Inside
      /\ stateLine' \in Seq(Process)
      /\ UNCHANGED <<copy, log, call, phase, pushed, shadow, old, looping, timer, started,
                     stopped, faults, stops>>
  BY StateLineTypes, ProcessTypes DEF Inv, Swap, clients, shadows, loop, Inside
<1>2. \/ inflight = <<>> /\ inflight' = active /\ active' = <<>>
      \/ inflight' = inflight /\ active' = active
  BY DEF Swap
<1>3. inflight' \in Seq(Op) /\ active' \in Seq(Op)
  BY <1>1, <1>2 DEF TypeOK
<1>4. /\ at' \in [Flush -> Place] /\ flushLine' \in Seq(Flush) /\ LineFits'
      /\ at'[f] \in {"open", "idle", "ended"} /\ (at'[f] = "ended" => f = Closer)
      /\ \A g \in Flush : g # f => at'[g] = at[g]
  <2>1. CASE inflight' = <<>>
    BY <1>1, <2>1, LeaveKeepsLine DEF Swap
  <2>2. CASE inflight' # <<>>
    <3>1. at' = [at EXCEPT ![f] = "open"] /\ flushLine' = flushLine /\ Holds(f, flushLine)
      BY <1>1, <2>2 DEF Swap, LineFits
    <3>. QED BY <1>1, <3>1, StayKeepsLine DEF TypeOK, Inside
  <2>. QED BY <2>1, <2>2
<1>5. TypeOK'
  BY <1>1, <1>3, <1>4, SMTT(60) DEF TypeOK
<1>6. \A g \in Flush : at[g] \notin {"clear", "apply"} /\ at'[g] \notin {"clear", "apply"}
  BY <1>1, <1>4, OneInside DEF Inside
<1>7. Taken = inflight /\ Taken' = inflight' /\ CopyFits'
  <2>1. at'[Closer] # "idle" => at[Closer] # "idle"
    BY <1>1, <1>4 DEF Flush
  <2>. QED BY <1>1, <1>6, <2>1 DEF Taken, CopyFits
<1>8. CallsFit' /\ ShadowsFit'
  BY <1>1, ClientsStay DEF Inv, clients
<1>9. Buffered' \subseteq Buffered
  BY <1>1, <1>2, NoElements DEF Buffered, Elements
<1>10. \A c \in Client :
          /\ Has(active, c)' \/ Has(Taken, c)' => Has(active, c) \/ Has(Taken, c)
          /\ Has(active, c)' /\ Has(Taken, c)' => Has(active, c) /\ Has(Taken, c)
  BY <1>2, <1>7 DEF Has
<1>11. StoreFits' /\ \A c \in Client \ Direct : Whole(c)'
  BY <1>1, <1>9, <1>10, StoreShrinks
<1>12. (Taken \o active)' = Taken \o active
  BY <1>1, <1>2, <1>3, <1>7, ConcatEmptySeq DEF TypeOK
<1>. QED BY <1>4, <1>5, <1>7, <1>8, <1>11, <1>12 DEF Inv

LEMMA OpenKeepsInv ==
  ASSUME Inv, NEW f \in Flush, Open(f)
  PROVE  Inv' /\ Taken' = Taken
<1>1. /\ TypeOK /\ LineFits /\ CopyFits /\ at[f] = "open" /\ at[f] \in Inside
      /\ at' = [at EXCEPT ![f] = "apply"] /\ copy' = inflight
      /\ UNCHANGED <<active, inflight, log, call, phase, pushed, shadow, old, stateLine,
                     flushLine, looping, timer, started, stopped, faults, stops>>
  BY DEF Inv, Open, clients, shadows, loop, Inside
<1>2. /\ at' \in [Flush -> Place] /\ LineFits' /\ at'[f] = "apply"
      /\ \A g \in Flush : g # f => at'[g] = at[g]
  BY <1>1, StayKeepsLine DEF LineFits, Inside
<1>3. TypeOK'
  BY <1>1, <1>2 DEF TypeOK
<1>4. Taken = inflight /\ Taken' = copy'
  <2>1. Taken = inflight
    BY <1>1, TakenIs
  <2>2. \A g \in Flush : at'[g] # "clear"
    BY <1>1, <1>2, OneInside DEF Inside
  <2>. QED BY <1>2, <2>1, <2>2 DEF Taken
<1>5. CopyFits'
  <2>1. at'[Closer] # "idle" => at[Closer] # "idle"
    BY <1>1, <1>2 DEF Flush
  <2>. QED BY <1>1, <1>2, <2>1 DEF CopyFits
<1>6. CallsFit' /\ ShadowsFit'
  BY <1>1, ClientsStay DEF Inv, clients
<1>7. Buffered' \subseteq Buffered
  BY <1>1 DEF Buffered, Elements
<1>8. Taken' = Taken
  BY <1>1, <1>4
<1>9. \A c \in Client :
         /\ Has(active, c)' <=> Has(active, c)
         /\ Has(Taken, c)' <=> Has(Taken, c)
  BY <1>1, <1>8 DEF Has
<1>10. StoreFits' /\ \A c \in Client \ Direct : Whole(c)'
  BY <1>1, <1>7, <1>9, StoreShrinks
<1>. QED BY <1>2, <1>3, <1>5, <1>6, <1>8, <1>10 DEF Inv

LEMMA ClearKeepsInv ==
  ASSUME Inv, NEW f \in Flush, Clear(f)
  PROVE  Inv' /\ Taken' = Taken
<1>1. /\ TypeOK /\ LineFits /\ CopyFits /\ at[f] = "clear" /\ at[f] \in Inside
      /\ at' = [at EXCEPT ![f] = Over(f)] /\ flushLine' = Tail(flushLine) /\ inflight' = <<>>
      /\ UNCHANGED <<active, copy, log, call, phase, pushed, shadow, old, stateLine,
                     looping, timer, started, stopped, faults, stops>>
  BY DEF Inv, Clear, clients, shadows, loop, Inside
<1>2. /\ at' \in [Flush -> Place] /\ flushLine' \in Seq(Flush) /\ LineFits'
      /\ at'[f] \in {"ended", "idle"} /\ (at'[f] = "ended" => f = Closer)
      /\ \A g \in Flush : at'[g] \notin Inside
      /\ \A g \in Flush : g # f => at'[g] = at[g]
  BY <1>1, LeaveKeepsLine
<1>3. TypeOK'
  BY <1>1, <1>2, EmptySeq DEF TypeOK
<1>4. \A g \in Flush : at[g] # "apply" /\ at'[g] \notin {"clear", "apply"}
  BY <1>1, <1>2, OneInside DEF Inside
<1>5. Taken = <<>> /\ Taken' = <<>>
  BY <1>1, <1>4 DEF Taken
<1>6. CopyFits'
  <2>1. at'[Closer] # "idle" => at[Closer] # "idle"
    BY <1>1, <1>2 DEF Flush
  <2>. QED BY <1>1, <1>4, <2>1 DEF CopyFits
<1>7. CallsFit' /\ ShadowsFit'
  BY <1>1, ClientsStay DEF Inv, clients
<1>8. Buffered' \subseteq Buffered
  BY <1>1, NoElements DEF Buffered, Elements
<1>9. \A c \in Client :
         /\ Has(active, c)' <=> Has(active, c)
         /\ Has(Taken, c)' <=> Has(Taken, c)
  BY <1>1, <1>5 DEF Has
<1>10. StoreFits' /\ \A c \in Client \ Direct : Whole(c)'
  BY <1>1, <1>8, <1>9, StoreShrinks
<1>. QED BY <1>2, <1>3, <1>5, <1>6, <1>7, <1>10 DEF Inv

\* A sorted batch is a batch of the same writes.
LEMMA SortedFacts ==
  ASSUME NEW s \in Seq(Op), NEW batch \in WriteLog!Sorted(s)
  PROVE  batch \in Seq(Op) /\ Elements(batch) \subseteq Elements(s)
<1>1. PICK order \in [DOMAIN s -> DOMAIN s] : batch = [i \in DOMAIN s |-> s[order[i]]]
  BY DEF WriteLog!Sorted, WriteLog!Orders
<1>2. DOMAIN s = 1 .. Len(s) /\ Len(s) \in Nat /\ \A i \in DOMAIN s : s[i] \in Op
  BY ElementOfSeq
<1>3. batch \in [1 .. Len(s) -> Op]
  BY <1>1, <1>2
<1>4. batch \in Seq(Op)
  BY <1>2, <1>3, SeqDef
<1>. QED BY <1>1, <1>4 DEF Elements

LEMMA ApplyKeepsInv ==
  ASSUME Inv, NEW f \in Flush, Apply(f)
  PROVE  Inv' /\ Taken = copy /\ Taken' = <<>>
<1>1. /\ TypeOK /\ LineFits /\ CopyFits /\ at[f] = "apply" /\ at[f] \in Inside
      /\ at' = [at EXCEPT ![f] = "clear"] /\ copy' = <<>>
      /\ UNCHANGED <<active, inflight, call, phase, pushed, shadow, old, stateLine,
                     flushLine, looping, timer, started, stopped, faults, stops>>
  BY DEF Inv, Apply, clients, shadows, loop, Inside
<1>2. /\ at' \in [Flush -> Place] /\ LineFits' /\ at'[f] = "clear"
      /\ \A g \in Flush : g # f => at'[g] = at[g]
  BY <1>1, StayKeepsLine DEF LineFits, Inside
<1>3. Taken = copy /\ Taken' = <<>>
  BY <1>1, <1>2, TakenIs DEF Taken
<1>4. CopyFits'
  <2>1. at'[Closer] # "idle" => at[Closer] # "idle"
    BY <1>1, <1>2 DEF Flush
  <2>2. \A g \in Flush : at'[g] # "apply"
    BY <1>1, <1>2, OneInside DEF Inside
  <2>. QED BY <1>1, <2>1, <2>2 DEF CopyFits
<1>5. CallsFit' /\ ShadowsFit'
  BY <1>1, ClientsStay DEF Inv, clients
<1>6. CASE copy = <<>>
  <2>1. log' = log
    BY <1>6 DEF Apply
  <2>2. TypeOK'
    BY <1>1, <1>2, <2>1, EmptySeq DEF TypeOK
  <2>3. Buffered' \subseteq Buffered
    BY <1>1, <1>6 DEF Buffered, Elements
  <2>4. \A c \in Client :
           /\ Has(active, c)' <=> Has(active, c)
           /\ Has(Taken, c)' <=> Has(Taken, c)
    BY <1>1, <1>3, <1>6 DEF Has
  <2>5. StoreFits' /\ \A c \in Client \ Direct : Whole(c)'
    BY <1>1, <2>1, <2>3, <2>4, StoreShrinks
  <2>. QED BY <1>2, <1>3, <1>4, <1>5, <2>2, <2>5 DEF Inv
<1>7. CASE copy # <<>>
  <2>1. PICK batch \in WriteLog!Sorted(copy) : log' = Append(log, batch)
    BY <1>7 DEF Apply
  <2>2. batch \in Seq(Op) /\ Elements(batch) \subseteq Elements(copy)
    BY <1>1, SortedFacts DEF TypeOK
  <2>3. /\ log' \in Seq(Seq(Op)) /\ Logged' = Logged \cup Elements(batch)
        /\ \A c \in Client :
             Batches(c)' = Batches(c) \cup (IF Has(batch, c) THEN {Len(log) + 1} ELSE {})
    BY <1>1, <2>1, <2>2, Logging DEF TypeOK
  <2>4. TypeOK'
    BY <1>1, <1>2, <2>3, EmptySeq DEF TypeOK
  <2>5. Stored' \subseteq Stored
    <3>1. Elements(active)' = Elements(active) /\ Elements(inflight)' = Elements(inflight)
          /\ Elements(copy)' = {}
      BY <1>1 DEF Elements
    <3>. QED BY <2>2, <2>3, <3>1 DEF Stored, Buffered
  <2>6. \A c \in Client : Pushed(c)' = Pushed(c)
    BY <1>1 DEF Pushed, Elements
  <2>7. StoreFits'
    BY <1>1, <2>5, <2>6 DEF Inv, StoreFits
  <2>8. ASSUME NEW c \in Client \ Direct PROVE Whole(c)'
    <3>1. (Has(active, c)' <=> Has(active, c)) /\ ~Has(Taken, c)'
      BY <1>1, <1>3 DEF Has
    <3>2. Has(batch, c) => Has(Taken, c)
      BY <1>3, <2>2, HasIsElement
    <3>3. /\ ~(Has(active, c) /\ Has(Taken, c))
          /\ Has(active, c) \/ Has(Taken, c) => Batches(c) = {}
          /\ \A b, d \in Batches(c) : b = d
      BY DEF Inv, Whole
    <3>4. CASE Has(batch, c)
      <4>1. Batches(c)' = {Len(log) + 1} /\ ~Has(active, c)'
        BY <2>3, <3>1, <3>2, <3>3, <3>4
      <4>. QED BY <3>1, <4>1 DEF Whole
    <3>5. CASE ~Has(batch, c)
      <4>1. Batches(c)' = Batches(c)
        BY <2>3, <3>5
      <4>. QED BY <3>1, <3>3, <4>1 DEF Whole
    <3>. QED BY <3>4, <3>5
  <2>. QED BY <1>2, <1>3, <1>4, <1>5, <2>4, <2>7, <2>8 DEF Inv
<1>. QED BY <1>6, <1>7

LEMMA FailKeepsInv ==
  ASSUME Inv, NEW f \in Flush, Fail(f)
  PROVE  Inv' /\ (Taken' = Taken \/ (stops > 0 /\ Taken' = <<>>))
<1>1. /\ TypeOK /\ LineFits /\ CopyFits /\ at[f] \in {"open", "apply"} /\ at[f] \in Inside
      /\ at' = [at EXCEPT ![f] = "requeue"] /\ copy' = <<>> /\ faults' = faults + 1
      /\ stateLine' = Append(stateLine, f)
      /\ UNCHANGED <<active, inflight, log, call, phase, pushed, shadow, old,
                     flushLine, looping, timer, started, stopped, stops>>
  BY DEF Inv, Fail, clients, shadows, loop, Inside
<1>2. /\ at' \in [Flush -> Place] /\ LineFits' /\ at'[f] = "requeue"
      /\ \A g \in Flush : g # f => at'[g] = at[g]
  BY <1>1, StayKeepsLine DEF LineFits, Inside
<1>3. TypeOK'
  <2>1. stateLine' \in Seq(Process)
    BY <1>1, ProcessTypes, AppendProperties DEF TypeOK
  <2>. QED BY <1>1, <1>2, <2>1, EmptySeq DEF TypeOK
<1>4. \A g \in Flush : at'[g] \notin {"clear", "apply"}
  BY <1>1, <1>2, OneInside DEF Inside
<1>5. Taken' = inflight /\ (Taken' = Taken \/ (stops > 0 /\ Taken' = <<>>))
  <2>1. Taken' = inflight
    BY <1>1, <1>4 DEF Taken
  <2>2. CASE at[f] = "open"
    BY <2>1, <2>2, <1>1, TakenIs
  <2>3. CASE at[f] = "apply"
    BY <2>1, <2>3, <1>1, TakenIs DEF CopyFits
  <2>. QED BY <1>1, <2>1, <2>2, <2>3
<1>6. CopyFits'
  <2>1. at'[Closer] # "idle" => at[Closer] # "idle"
    BY <1>1, <1>2 DEF Flush
  <2>. QED BY <1>1, <1>4, <2>1 DEF CopyFits
<1>7. CallsFit' /\ ShadowsFit'
  BY <1>1, ClientsStay DEF Inv, clients
<1>8. Buffered' \subseteq Buffered
  BY <1>1, NoElements DEF Buffered, Elements
<1>9. \A c \in Client :
         /\ Has(active, c)' <=> Has(active, c)
         /\ Has(Taken, c)' => Has(Taken, c)
  BY <1>1, <1>5 DEF Has
<1>10. StoreFits' /\ \A c \in Client \ Direct : Whole(c)'
  BY <1>1, <1>8, <1>9, StoreShrinks
<1>. QED BY <1>2, <1>3, <1>5, <1>6, <1>7, <1>10 DEF Inv

LEMMA RequeueKeepsInv ==
  ASSUME Inv, NEW f \in Flush, Requeue(f)
  PROVE  Inv' /\ (Taken \o active)' = Taken \o active
<1>1. /\ TypeOK /\ LineFits /\ CopyFits /\ at[f] = "requeue" /\ at[f] \in Inside
      /\ at' = [at EXCEPT ![f] = Over(f)] /\ flushLine' = Tail(flushLine)
      /\ active' = inflight \o active /\ inflight' = <<>>
      /\ stateLine' \in Seq(Process)
      /\ UNCHANGED <<copy, log, call, phase, pushed, shadow, old, looping, timer, started,
                     stopped, faults, stops>>
  BY StateLineTypes, ProcessTypes DEF Inv, Requeue, clients, shadows, loop, Inside
<1>2. /\ at' \in [Flush -> Place] /\ flushLine' \in Seq(Flush) /\ LineFits'
      /\ at'[f] \in {"ended", "idle"} /\ (at'[f] = "ended" => f = Closer)
      /\ \A g \in Flush : at'[g] \notin Inside
      /\ \A g \in Flush : g # f => at'[g] = at[g]
  BY <1>1, LeaveKeepsLine
<1>3. active' \in Seq(Op) /\ Elements(active') = Elements(inflight) \cup Elements(active)
      /\ \A c \in Client : Has(active', c) <=> Has(inflight, c) \/ Has(active, c)
  BY <1>1, ElementsConcat, HasConcat DEF TypeOK
<1>4. TypeOK'
  BY <1>1, <1>2, <1>3, EmptySeq DEF TypeOK
<1>5. Taken = inflight /\ Taken' = <<>>
  <2>1. \A g \in Flush : at'[g] \notin {"clear", "apply"}
    BY <1>2 DEF Inside
  <2>. QED BY <1>1, <2>1, TakenIs DEF Taken
<1>6. CopyFits'
  <2>1. at'[Closer] # "idle" => at[Closer] # "idle"
    BY <1>1, <1>2 DEF Flush
  <2>2. \A g \in Flush : at[g] # "apply" /\ at'[g] # "apply"
    BY <1>1, <1>2, OneInside DEF Inside
  <2>. QED BY <1>1, <2>1, <2>2 DEF CopyFits
<1>7. CallsFit' /\ ShadowsFit'
  BY <1>1, ClientsStay DEF Inv, clients
<1>8. Buffered' \subseteq Buffered
  <2>1. Elements(active)' = Elements(inflight) \cup Elements(active)
        /\ Elements(inflight)' = {} /\ Elements(copy)' = Elements(copy)
    <3>1. Elements(active)' = Elements(active')
      BY DEF Elements
    <3>2. Elements(inflight)' = {} /\ Elements(copy)' = Elements(copy)
      BY <1>1 DEF Elements
    <3>. QED BY <1>3, <3>1, <3>2
  <2>. QED BY <2>1 DEF Buffered
<1>9. \A c \in Client :
         /\ Has(active, c)' <=> Has(inflight, c) \/ Has(active, c)
         /\ ~Has(Taken, c)'
  BY <1>3, <1>5 DEF Has
<1>10. StoreFits' /\ \A c \in Client \ Direct : Whole(c)'
  BY <1>1, <1>5, <1>8, <1>9, StoreShrinks
<1>11. (Taken \o active)' = Taken \o active
  BY <1>1, <1>3, <1>5, ConcatEmptySeq
<1>. QED BY <1>2, <1>4, <1>6, <1>7, <1>10, <1>11 DEF Inv

--------------------------------------------------------------------------------
(* The reaper, the clock and stop() *)

LEMMA ReaperKeepsInv ==
  ASSUME Inv, Age \/ CleanupFires \/ Cleanup
  PROVE  Inv' /\ UNCHANGED <<active, log, stops>> /\ Taken' = Taken
<1>1. /\ TypeOK
      /\ UNCHANGED <<active, inflight, copy, log, call, phase, pushed, flushLine, at,
                     looping, timer, started, stopped, faults, stops>>
  BY DEF Inv, Age, CleanupFires, Cleanup, buffers, clients, loop
<1>2. stateLine' \in Seq(Process)
  <2>1. CASE stateLine' = Append(stateLine, Reaper)
    BY <1>1, <2>1, ProcessTypes, AppendProperties DEF TypeOK
  <2>2. CASE Cleanup
    BY <1>1, <2>2, ProcessTypes, StateLineTypes DEF Cleanup
  <2>3. CASE stateLine' = stateLine
    BY <1>1, <2>3 DEF TypeOK
  <2>. QED BY <2>1, <2>2, <2>3 DEF Age, CleanupFires
<1>3. /\ shadow' \in [Client -> Seq(Op) \cup {None}] /\ old' \in SUBSET Client
      /\ \A c \in Client : shadow'[c] = shadow[c] \/ shadow'[c] = None
  <2>1. CASE shadow' = shadow
    BY <1>1, <2>1 DEF Age, CleanupFires, Cleanup, shadows, TypeOK
  <2>2. CASE Cleanup
    BY <1>1, <2>2 DEF Cleanup, TypeOK
  <2>. QED BY <2>1, <2>2 DEF Age, CleanupFires, shadows
<1>4. TypeOK'
  BY <1>1, <1>2, <1>3 DEF TypeOK
<1>5. LineFits' /\ CopyFits' /\ Taken' = Taken
  BY <1>1, FlushesStay DEF Inv
<1>6. CallsFit'
  BY <1>1 DEF Inv, CallsFit
<1>7. ShadowsFit'
  <2>1. \A c \in Client : Pushed(c)' = Pushed(c)
    BY <1>1 DEF Pushed, Elements
  <2>2. ASSUME NEW c \in Client, shadow'[c] # None
        PROVE  /\ c \notin Direct /\ phase'[c] = "open"
               /\ Elements(shadow'[c]) \subseteq Pushed(c)' /\ Distinct(shadow'[c])
    BY <1>1, <1>3, <2>1, <2>2 DEF Inv, ShadowsFit
  <2>. QED BY <2>2 DEF ShadowsFit, Elements, Distinct
<1>8. StoreFits' /\ \A c \in Client \ Direct : Whole(c)'
  BY <1>1, <1>5, StoreStays
<1>. QED BY <1>1, <1>4, <1>5, <1>6, <1>7, <1>8 DEF Inv

LEMMA StopKeepsInv ==
  ASSUME Inv, Stop
  PROVE  Inv' /\ UNCHANGED <<active, log>> /\ Taken' = Taken
<1>1. /\ TypeOK /\ Closer \in Flush /\ at[Closer] = "idle" /\ Enter(Closer)
      /\ stops' = stops + 1 /\ looping' = FALSE /\ timer' = FALSE
      /\ UNCHANGED <<active, inflight, copy, log, call, phase, pushed, shadow, old,
                     stateLine, started, stopped, faults>>
  BY DEF Inv, Stop, buffers, clients, shadows, Flush
<1>2. /\ at' \in [Flush -> Place] /\ flushLine' \in Seq(Flush) /\ LineFits'
      /\ at'[Closer] \in {"lock", "ended", "idle"}
      /\ \A g \in Flush : g # Closer => at'[g] = at[g]
  BY <1>1, EnterKeepsLine DEF Inv
<1>3. stops \in Nat /\ stops' > 0 /\ stops' \in Nat
  BY <1>1 DEF TypeOK
<1>4. TypeOK'
  BY <1>1, <1>2, <1>3 DEF TypeOK
<1>5. Taken' = Taken /\ CopyFits'
  <2>1. \A g \in Flush : (at'[g] = "clear" <=> at[g] = "clear")
                      /\ (at'[g] = "apply" <=> at[g] = "apply")
    BY <1>1, <1>2
  <2>. QED BY <1>1, <1>3, <2>1 DEF Inv, Taken, CopyFits
<1>6. CallsFit' /\ ShadowsFit'
  BY <1>1, ClientsStay DEF Inv, clients
<1>. QED BY <1>1, <1>2, <1>4, <1>5, <1>6, StoreStays DEF Inv

LEMMA StopEndsKeepsInv ==
  ASSUME Inv, StopEnds
  PROVE  /\ Inv' /\ stops > 0 /\ stops' = stops /\ log' = log /\ active' = <<>>
         /\ Taken' = Taken \/ Taken' = <<>>
<1>1. /\ TypeOK /\ LineFits /\ CopyFits /\ Closer \in Flush /\ at[Closer] = "ended"
      /\ at' = [at EXCEPT ![Closer] = "idle"] /\ active' = <<>> /\ inflight' = <<>>
      /\ shadow' = [c \in Client |-> None] /\ old' = {}
      /\ started' = FALSE /\ stopped' = TRUE
      /\ UNCHANGED <<copy, log, call, phase, pushed, stateLine, flushLine, looping, timer,
                     faults, stops>>
  BY DEF Inv, StopEnds, clients, Flush
<1>2. /\ at' \in [Flush -> Place] /\ at'[Closer] = "idle" /\ stops > 0
      /\ \A g \in Flush : g # Closer => at'[g] = at[g]
  BY <1>1 DEF TypeOK, Place, CopyFits
<1>3. TypeOK'
  BY <1>1, <1>2, EmptySeq DEF TypeOK
<1>4. LineFits'
  <2>1. \A i \in DOMAIN flushLine : flushLine[i] \in Flush /\ flushLine[i] # Closer
    <3>1. \A i \in DOMAIN flushLine : flushLine[i] \in Flush
      BY <1>1, ElementOfSeq DEF TypeOK
    <3>2. \A i \in DOMAIN flushLine : at[flushLine[i]] # "ended"
      BY <1>1 DEF LineFits, Inside
    <3>. QED BY <1>1, <3>1, <3>2
  <2>2. \A g \in Flush : at'[g] \in Inside => at[g] \in Inside
    BY <1>2 DEF Inside
  <2>. QED BY <1>1, <1>2, <2>1, <2>2 DEF LineFits, Holds, Distinct
<1>5. \A g \in Flush : (at'[g] = "clear" <=> at[g] = "clear")
                    /\ (at'[g] = "apply" <=> at[g] = "apply")
  BY <1>1, <1>2
<1>6. CopyFits' /\ (Taken' = Taken \/ Taken' = <<>>)
  BY <1>1, <1>2, <1>5 DEF CopyFits, Taken
<1>7. CallsFit'
  BY <1>1 DEF Inv, CallsFit
<1>8. ShadowsFit'
  BY <1>1 DEF ShadowsFit
<1>9. Buffered' \subseteq Buffered
  BY <1>1, NoElements DEF Buffered, Elements
<1>10. \A c \in Client : ~Has(active, c)' /\ (Has(Taken, c)' => Has(Taken, c))
  BY <1>1, <1>6 DEF Has
<1>11. StoreFits' /\ \A c \in Client \ Direct : Whole(c)'
  BY <1>1, <1>9, <1>10, StoreShrinks
<1>. QED BY <1>1, <1>2, <1>3, <1>4, <1>6, <1>7, <1>8, <1>11 DEF Inv

--------------------------------------------------------------------------------
(* The invariant *)

LEMMA InitInv == Init => Inv
<1> SUFFICES ASSUME Init PROVE Inv
  OBVIOUS
<1>1. TypeOK
  BY EmptySeq, PoolAssumption DEF Init, TypeOK, Call, Phase, Place
<1>2. LineFits /\ CopyFits
  BY DEF Init, LineFits, CopyFits, Distinct, Inside, Flush
<1>3. CallsFit
  BY WorkFacts DEF Init, CallsFit
<1>4. ShadowsFit
  BY DEF Init, ShadowsFit
<1>5. Stored = {}
  BY NoElements DEF Init, Stored, Buffered, Logged
<1>6. StoreFits
  BY <1>5 DEF StoreFits
<1>7. \A c \in Client \ Direct : Whole(c)
  <2>1. Taken = <<>> /\ active = <<>>
    BY DEF Init, Taken
  <2>2. \A c \in Client : Batches(c) = {}
    BY DEF Init, Batches
  <2>. QED BY <2>1, <2>2, NoElements DEF Whole
<1>. QED BY <1>1, <1>2, <1>3, <1>4, <1>6, <1>7 DEF Inv

LEMMA StutterKeepsInv ==
  ASSUME Inv, UNCHANGED vars
  PROVE  Inv' /\ UNCHANGED <<active, log, stops>> /\ Taken' = Taken
<1>1. UNCHANGED <<active, inflight, copy, log, call, phase, pushed, shadow, old, stateLine,
                  flushLine, at, looping, timer, started, stopped, faults, stops>>
  BY DEF vars, buffers, clients, shadows, loop
<1>2. TypeOK'
  BY <1>1 DEF Inv, TypeOK
<1>3. LineFits' /\ CopyFits' /\ Taken' = Taken
  BY <1>1, FlushesStay DEF Inv
<1>4. CallsFit' /\ ShadowsFit'
  BY <1>1, ClientsStay DEF Inv, clients
<1>. QED BY <1>1, <1>2, <1>3, <1>4, StoreStays DEF Inv

LEMMA NextKeepsInv ==
  ASSUME Inv, [Next]_vars
  PROVE  Inv'
<1>1. CASE \E c \in Client : Ask(c) \/ Serve(c)
  BY <1>1, AskKeepsInv, BeginKeepsInv, PushKeepsInv, CommitKeepsInv, RollbackKeepsInv DEF Serve
<1>2. CASE \E f \in Flusher : IntervalFires(f) \/ TimeoutFires(f)
  BY <1>2, FiresKeepsInv
<1>3. CASE \E f \in Flush : Proceed(f)
  BY <1>3, LockKeepsInv, SwapKeepsInv, OpenKeepsInv, ApplyKeepsInv, ClearKeepsInv,
     FailKeepsInv, RequeueKeepsInv DEF Proceed
<1>4. CASE Age \/ CleanupFires \/ Cleanup
  BY <1>4, ReaperKeepsInv
<1>5. CASE Stop \/ StopEnds
  BY <1>5, StopKeepsInv, StopEndsKeepsInv
<1>6. CASE UNCHANGED vars
  BY <1>6, StutterKeepsInv
<1>. QED BY <1>1, <1>2, <1>3, <1>4, <1>5, <1>6 DEF Next

\* The inductive invariant: flushes take turns, a copy is the batch in flight,
\* and the writes of a transaction lie in one place.
THEOREM InvHolds == Spec => []Inv
<1>1. Init => Inv
  BY InitInv
<1>2. Inv /\ [Next]_vars => Inv'
  BY NextKeepsInv
<1>. QED BY <1>1, <1>2, PTL DEF Spec

\* Buffers, shadows, queues and flushes stay in their types.
THEOREM TypeCorrect == Spec => []TypeOK
<1>1. Inv => TypeOK
  BY DEF Inv
<1>. QED BY <1>1, InvHolds, PTL

\* What reaches the database of a transaction does so in one database transaction,
\* whatever fails, is retried, is reaped or is stopped (BufferedDbPool.ts, flush).
THEOREM TransactionsAreNotTorn == Spec => []OneFlush
<1>1. Inv => OneFlush
  <2> SUFFICES ASSUME Inv, NEW c \in Client \ Direct PROVE Cardinality(Batches(c)) <= 1
    BY DEF OneFlush
  <2>1. \A b, d \in Batches(c) : b = d
    BY DEF Inv, Whole
  <2>2. CASE Batches(c) = {}
    BY <2>2, FS_EmptySet
  <2>3. CASE Batches(c) # {}
    <3>1. PICK b : Batches(c) = {b}
      BY <2>1, <2>3
    <3>2. Cardinality(Batches(c)) = 1
      BY <3>1, FS_Singleton
    <3>. QED BY <3>2
  <2>. QED BY <2>2, <2>3
<1>. QED BY <1>1, InvHolds, PTL

\* Nothing of a transaction that has not committed, or was rolled back, is in
\* the shared buffers or the database (BufferedDbPool.ts, commitWork).
THEOREM OnlyCommitted == Spec => []OnlyCommittedWork
<1>1. Inv => OnlyCommittedWork
  <2> SUFFICES ASSUME Inv, NEW c \in Client \ Direct, phase[c] # "committed"
               PROVE  /\ Batches(c) = {}
                      /\ \A i \in DOMAIN active : active[i] \notin OpsOf(c)
                      /\ \A i \in DOMAIN inflight : inflight[i] \notin OpsOf(c)
    BY DEF OnlyCommittedWork
  <2>1. Stored \cap OpsOf(c) = {}
    BY DEF Inv, StoreFits
  <2>2. Batches(c) = {}
    BY <2>1, WhatIsStored DEF Inv
  <2>. QED BY <2>1, <2>2 DEF Stored, Buffered, Elements
<1>. QED BY <1>1, InvHolds, PTL

--------------------------------------------------------------------------------
(* The pool implements WriteLog *)

LEMMA ConcatParts ==
  ASSUME NEW S, NEW s \in Seq(S), NEW t \in Seq(S)
  PROVE  /\ s \o t \in Seq(S) /\ Len(s \o t) = Len(s) + Len(t)
         /\ Len(s) \in Nat /\ Len(t) \in Nat
         /\ SubSeq(s \o t, 1, Len(s)) = s
         /\ SubSeq(s \o t, Len(s) + 1, Len(s \o t)) = t
<1>1. s \o t \in Seq(S) /\ Len(s \o t) = Len(s) + Len(t) /\ Len(s) \in Nat /\ Len(t) \in Nat
  BY ConcatProperties, LenProperties
<1>2. SubSeq(s \o t, 1, Len(s)) = s
  <2>1. CASE Len(s) = 0
    BY <1>1, <2>1, SubSeqEmpty
  <2>2. CASE Len(s) # 0
    <3>1. 1 \in 1 .. Len(s) /\ Len(s) \in 1 .. Len(s)
      BY <1>1, <2>2
    <3>2. SubSeq(s \o t, 1, Len(s)) = SubSeq(s, 1, Len(s))
      BY <3>1, SubSeqOfConcat1
    <3>. QED BY <3>2, SubSeqFull
  <2>. QED BY <2>1, <2>2
<1>3. SubSeq(s \o t, Len(s) + 1, Len(s \o t)) = t
  <2>1. CASE Len(t) = 0
    BY <1>1, <2>1, SubSeqEmpty
  <2>2. CASE Len(t) # 0
    <3>1. Len(s) + 1 \in Len(s) + 1 .. Len(s) + Len(t)
          /\ Len(s) + Len(t) \in Len(s) + 1 .. Len(s) + Len(t)
      BY <1>1, <2>2
    <3>2. SubSeq(s \o t, Len(s) + 1, Len(s) + Len(t))
            = SubSeq(t, Len(s) + 1 - Len(s), Len(s) + Len(t) - Len(s))
      BY <3>1, SubSeqOfConcat2
    <3>3. SubSeq(s \o t, Len(s) + 1, Len(s) + Len(t)) = SubSeq(t, 1, Len(t))
      BY <1>1, <3>2
    <3>. QED BY <1>1, <3>3, SubSeqFull
  <2>. QED BY <2>1, <2>2
<1>. QED BY <1>1, <1>2, <1>3

\* What is pending, and the sets WriteLog speaks of.
LEMMA PendingFacts ==
  ASSUME TypeOK, CopyFits
  PROVE  /\ Taken \in Seq(Op) /\ active \in Seq(Op)
         /\ WriteLog!Elements(Taken \o active) = Elements(Taken) \cup Elements(active)
         /\ WriteLog!Applied = Logged
         /\ WriteLog!Elements(Taken \o active) \cup WriteLog!Applied \subseteq Stored
<1>1. Taken \in Seq(Op) /\ active \in Seq(Op)
  BY TakenNow DEF TypeOK
<1>2. \A s : WriteLog!Elements(s) = Elements(s)
  BY DEF Elements, WriteLog!Elements
<1>3. Elements(Taken \o active) = Elements(Taken) \cup Elements(active)
  BY <1>1, ElementsConcat
<1>4. WriteLog!Applied = Logged
  BY <1>2 DEF WriteLog!Applied, Logged
<1>5. Elements(Taken) \subseteq Stored /\ Elements(active) \subseteq Stored /\ Logged \subseteq Stored
  BY TakenNow DEF Stored, Buffered
<1>. QED BY <1>1, <1>2, <1>3, <1>4, <1>5

\* Writes nobody has seen join the pending ones: a push, or a commit.
LEMMA AcceptStep ==
  ASSUME TypeOK, CopyFits, NEW new \in Seq(Op), Distinct(new), Elements(new) \cap Stored = {},
         Taken' = Taken, active' = active \o new, UNCHANGED <<log, stops>>
  PROVE  WriteLog!Accept \/ (Taken \o active)' = Taken \o active
<1> DEFINE pending == Taken \o active
<1>1. /\ Taken \in Seq(Op) /\ active \in Seq(Op) /\ pending \in Seq(Op)
      /\ WriteLog!Elements(pending) \cup WriteLog!Applied \subseteq Stored
  BY PendingFacts, ConcatProperties
<1>2. pending' = pending \o new
  BY <1>1, ConcatAssociative, SMTT(60)
<1>3. CASE new = <<>>
  BY <1>1, <1>2, <1>3, ConcatEmptySeq
<1>4. CASE new # <<>>
  <2>. HIDE DEF pending
  <2>1. /\ Len(pending') = Len(pending) + Len(new) /\ Len(pending) \in Nat /\ Len(new) \in Nat
        /\ SubSeq(pending', 1, Len(pending)) = pending
        /\ SubSeq(pending', Len(pending) + 1, Len(pending')) = new
    BY <1>1, <1>2, ConcatParts
  <2>2. Len(new) > 0
    BY <1>4, <2>1, EmptySeq
  <2>3. WriteLog!Elements(new) = Elements(new)
    BY DEF Elements, WriteLog!Elements
  <2>4. \A i, k \in DOMAIN new : new[i] = new[k] => i = k
    BY DEF Distinct
  <2>5. WriteLog!Elements(new) \cap (WriteLog!Elements(pending) \cup WriteLog!Applied) = {}
    BY <1>1, <2>3
  <2>6. UNCHANGED <<log, stops > 0>>
    OBVIOUS
  <2>7. Len(pending') > Len(pending)
    BY <2>1, <2>2
  <2> DEFINE last == SubSeq(pending', Len(pending) + 1, Len(pending'))
  <2>8. \A i, k \in DOMAIN last : last[i] = last[k] => i = k
    BY <2>1, <2>4
  <2>9. WriteLog!Elements(last) \cap (WriteLog!Elements(pending) \cup WriteLog!Applied) = {}
    BY <2>1, <2>5
  <2>10. SubSeq(pending', 1, Len(pending)) = pending
    BY <2>1
  <2>. QED BY <2>6, <2>7, <2>8, <2>9, <2>10 DEF WriteLog!Accept, pending
<1>. QED BY <1>3, <1>4 DEF pending

\* The database takes what a flush holds, the oldest writes pending.
LEMMA TakeStep ==
  ASSUME TypeOK, CopyFits, Taken # <<>>, Taken' = <<>>, active' = active, stops' = stops,
         NEW batch \in WriteLog!Sorted(Taken), log' = Append(log, batch)
  PROVE  WriteLog!Apply
<1> DEFINE pending == Taken \o active
           n == Len(Taken)
<1>1. Taken \in Seq(Op) /\ active \in Seq(Op)
  BY PendingFacts
<1>2. /\ n \in Nat /\ Len(active) \in Nat /\ Len(pending) = n + Len(active)
      /\ SubSeq(pending, 1, n) = Taken
      /\ SubSeq(pending, n + 1, Len(pending)) = active
  BY <1>1, ConcatParts
<1>3. n > 0
  BY <1>1, <1>2, EmptySeq
<1>4. pending' = active
  BY <1>1, ConcatEmptySeq
<1>. HIDE DEF n, pending
<1>5. n \in 1 .. Len(pending) /\ pending' = SubSeq(pending, n + 1, Len(pending))
  BY <1>2, <1>3, <1>4
<1>6. batch \in WriteLog!Sorted(SubSeq(pending, 1, n))
  BY <1>2
<1>7. UNCHANGED (stops > 0)
  OBVIOUS
<1>. QED BY <1>5, <1>6, <1>7 DEF WriteLog!Apply, pending

\* A pool that was told to stop loses its oldest writes, its newest, or all.
LEMMA ForgetStep ==
  ASSUME TypeOK, CopyFits, stops > 0, UNCHANGED <<log, stops>>,
         Taken' = Taken \/ Taken' = <<>>, active' = active \/ active' = <<>>
  PROVE  WriteLog!Forget
<1> DEFINE pending == Taken \o active
<1>1. Taken \in Seq(Op) /\ active \in Seq(Op)
  BY PendingFacts
<1>2. /\ pending \in Seq(Op) /\ Len(Taken) \in Nat /\ Len(active) \in Nat
      /\ Len(pending) = Len(Taken) + Len(active)
      /\ SubSeq(pending, 1, Len(Taken)) = Taken
      /\ SubSeq(pending, Len(Taken) + 1, Len(pending)) = active
  BY <1>1, ConcatParts
<1>3. \/ pending' = pending \/ pending' = Taken \/ pending' = active \/ pending' = <<>>
  BY <1>1, ConcatEmptySeq, SMTT(60)
<1>. HIDE DEF pending
<1>4. \E n, m \in 0 .. Len(pending) : pending' = SubSeq(pending, n + 1, m)
  <2>1. 0 \in 0 .. Len(pending) /\ Len(pending) \in 0 .. Len(pending)
        /\ Len(Taken) \in 0 .. Len(pending) /\ 0 + 1 = 1
    BY <1>2
  <2>2. CASE pending' = pending
    <3>1. pending' = SubSeq(pending, 0 + 1, Len(pending))
      BY <1>2, <2>1, <2>2, SubSeqFull
    <3>. QED BY <2>1, <3>1
  <2>3. CASE pending' = Taken
    <3>1. pending' = SubSeq(pending, 0 + 1, Len(Taken))
      BY <1>2, <2>1, <2>3
    <3>. QED BY <2>1, <3>1
  <2>4. CASE pending' = active
    <3>1. pending' = SubSeq(pending, Len(Taken) + 1, Len(pending))
      BY <1>2, <2>4
    <3>. QED BY <2>1, <3>1
  <2>5. CASE pending' = <<>>
    <3>1. SubSeq(pending, 0 + 1, 0) = <<>>
      BY SubSeqEmpty
    <3>. QED BY <2>1, <2>5, <3>1
  <2>. QED BY <1>3, <2>2, <2>3, <2>4, <2>5
<1>5. UNCHANGED (stops > 0)
  OBVIOUS
<1>. QED BY <1>4, <1>5 DEF WriteLog!Forget, pending

LEMMA SilentStep ==
  ASSUME (Taken \o active)' = Taken \o active, UNCHANGED <<log, stops>>
  PROVE  UNCHANGED <<Taken \o active, log, stops > 0>>
  OBVIOUS

\* The steps of clients: what a push or a commit adds has not been stored.
LEMMA ClientStep ==
  ASSUME Inv, NEW c \in Client, Ask(c) \/ Serve(c)
  PROVE  WriteLog!Accept \/ UNCHANGED <<Taken \o active, log, stops > 0>>
<1>1. /\ TypeOK /\ CopyFits /\ UNCHANGED <<log, stops>> /\ active \in Seq(Op)
      /\ UNCHANGED <<inflight, copy, at>>
  BY DEF Inv, TypeOK, Ask, Serve, Begin, Push, Commit, Rollback, buffers
<1>2. Taken' = Taken
  BY <1>1 DEF Taken
<1>3. PICK new \in Seq(Op) :
        Distinct(new) /\ Elements(new) \cap Stored = {} /\ active' = active \o new
  <2>1. CASE active' = active
    BY <1>1, <2>1, EmptySeq, NoElements, ConcatEmptySeq
  <2>2. CASE Push(c) /\ c \in Direct
    <3> DEFINE batch == Work[c][pushed[c] + 1]
    <3>1. call[c] = "push" /\ active' = active \o batch
      BY <2>2 DEF Push, Serves
    <3>2. pushed[c] < Len(Work[c]) /\ \A d \in Client : pushed[d] <= Len(Work[d])
      BY <3>1 DEF Inv, CallsFit
    <3>3. batch \in Seq(Op) /\ Distinct(batch)
          /\ \A d \in Client : Elements(batch) \cap Pushed(d) = {}
      BY <1>1, <3>2, FreshBatch, WorkFacts
    <3>4. Elements(batch) \cap Stored = {}
      BY <3>3 DEF Inv, StoreFits
    <3>. QED BY <3>1, <3>3, <3>4
  <2>3. CASE Commit(c) /\ shadow[c] # None
    <3>1. call[c] = "commit" /\ active' = active \o shadow[c]
      BY <2>3 DEF Commit, Serves
    <3>2. c \notin Direct /\ phase[c] = "open"
      BY <3>1 DEF Inv, CallsFit
    <3>3. shadow[c] \in Seq(Op) /\ Distinct(shadow[c]) /\ Elements(shadow[c]) \subseteq Pushed(c)
      BY <1>1, <2>3 DEF Inv, ShadowsFit, TypeOK
    <3>4. Pushed(c) \subseteq OpsOf(c)
      <4>1. pushed[c] \in Nat /\ pushed[c] <= Len(Work[c])
        BY <1>1 DEF Inv, CallsFit, TypeOK
      <4>2. \A i \in 1 .. pushed[c] : i \in 1 .. Len(Work[c])
        BY <4>1, WorkFacts
      <4>. QED BY <4>2, WorkFacts DEF Pushed
    <3>5. Stored \cap OpsOf(c) = {}
      BY <3>2 DEF Inv, StoreFits
    <3>. QED BY <3>1, <3>3, <3>4, <3>5
  <2>. QED BY <2>1, <2>2, <2>3 DEF Ask, Serve, Begin, Push, Commit, Rollback, buffers
<1>. QED BY <1>1, <1>2, <1>3, AcceptStep, SilentStep

\* The steps of a flush.
LEMMA FlushStep ==
  ASSUME Inv, NEW f \in Flush, Proceed(f)
  PROVE  WriteLog!Apply \/ WriteLog!Forget \/ UNCHANGED <<Taken \o active, log, stops > 0>>
<1>1. TypeOK /\ CopyFits
  BY DEF Inv
<1>2. CASE Lock(f)
  <2>1. UNCHANGED <<active, inflight, copy, log, stops>>
    BY <1>2 DEF Lock, buffers
  <2>2. \A g \in Flush : (at'[g] = "clear" <=> at[g] = "clear")
                      /\ (at'[g] = "apply" <=> at[g] = "apply")
    BY <1>1, <1>2 DEF Lock, TypeOK
  <2>. QED BY <2>1, <2>2, SilentStep DEF Taken
<1>3. CASE Swap(f) \/ Requeue(f)
  BY <1>3, SwapKeepsInv, RequeueKeepsInv, SilentStep DEF Swap, Requeue
<1>4. CASE Open(f) \/ Clear(f)
  <2>1. Taken' = Taken /\ UNCHANGED <<active, log, stops>>
    BY <1>4, OpenKeepsInv, ClearKeepsInv DEF Open, Clear
  <2>. QED BY <2>1, SilentStep
<1>5. CASE Apply(f)
  <2>1. Taken = copy /\ Taken' = <<>> /\ UNCHANGED <<active, stops>>
    BY <1>5, ApplyKeepsInv DEF Apply
  <2>2. CASE copy = <<>>
    BY <1>5, <2>1, <2>2, SilentStep DEF Apply
  <2>3. CASE copy # <<>>
    <3>1. PICK batch \in WriteLog!Sorted(copy) : log' = Append(log, batch)
      BY <1>5, <2>3 DEF Apply
    <3>. QED BY <1>1, <2>1, <2>3, <3>1, TakeStep
  <2>. QED BY <2>2, <2>3
<1>6. CASE Fail(f)
  <2>1. UNCHANGED <<active, log, stops>> /\ (Taken' = Taken \/ (stops > 0 /\ Taken' = <<>>))
    BY <1>6, FailKeepsInv DEF Fail
  <2>. QED BY <1>1, <2>1, SilentStep, ForgetStep
<1>. QED BY <1>2, <1>3, <1>4, <1>5, <1>6 DEF Proceed

LEMMA StopStep ==
  ASSUME Inv, Stop \/ StopEnds
  PROVE  WriteLog!Close \/ WriteLog!Forget
<1>1. CASE Stop
  <2>1. UNCHANGED <<active, log>> /\ Taken' = Taken /\ stops' = stops + 1 /\ stops \in Nat
    BY <1>1, StopKeepsInv DEF Stop, Inv, TypeOK
  <2>2. (stops > 0)' = TRUE
    BY <2>1
  <2>. QED BY <2>1, <2>2 DEF WriteLog!Close
<1>2. CASE StopEnds
  BY <1>2, StopEndsKeepsInv, ForgetStep DEF Inv
<1>. QED BY <1>1, <1>2

LEMMA FireStep ==
  ASSUME Inv, NEW f \in Flusher, IntervalFires(f) \/ TimeoutFires(f)
  PROVE  UNCHANGED <<Taken \o active, log, stops > 0>>
<1>1. /\ TypeOK /\ f \in Flush /\ at[f] = "idle" /\ Enter(f)
      /\ UNCHANGED <<active, inflight, copy, log, stops>>
  BY DEF Inv, IntervalFires, TimeoutFires, buffers, Flush
<1>2. /\ at'[f] \in {"lock", "ended", "idle"}
      /\ \A g \in Flush : g # f => at'[g] = at[g]
  BY <1>1, EnterKeepsLine DEF Inv
<1>3. \A g \in Flush : (at'[g] = "clear" <=> at[g] = "clear")
                    /\ (at'[g] = "apply" <=> at[g] = "apply")
  BY <1>1, <1>2
<1>. QED BY <1>1, <1>3, SilentStep DEF Taken

\* The pool implements WriteLog: writes are applied once, in batches of the
\* oldest, sorted by rank and as accepted within a rank, and none is lost before
\* stop() is called (BufferedDbPool.ts, flush and commitWork).
THEOREM Refinement == Spec => RefinesWriteLog
<1>1. Init => WriteLog!Init
  <2> SUFFICES ASSUME Init PROVE WriteLog!Init
    OBVIOUS
  <2>1. Taken = <<>> /\ active = <<>> /\ log = <<>> /\ stops = 0
    BY DEF Init, Taken
  <2>2. (stops > 0) = FALSE
    BY <2>1
  <2>3. Taken \o active = <<>>
    BY <2>1, ConcatEmptySeq, EmptySeq
  <2>. QED BY <2>1, <2>2, <2>3 DEF WriteLog!Init
<1>2. Inv /\ [Next]_vars => [WriteLog!Next]_<<Taken \o active, log, stops > 0>>
  <2> SUFFICES ASSUME Inv, [Next]_vars
               PROVE  WriteLog!Next \/ UNCHANGED <<Taken \o active, log, stops > 0>>
    OBVIOUS
  <2>1. CASE \E c \in Client : Ask(c) \/ Serve(c)
    BY <2>1, ClientStep DEF WriteLog!Next
  <2>2. CASE \E f \in Flusher : IntervalFires(f) \/ TimeoutFires(f)
    BY <2>2, FireStep
  <2>3. CASE \E f \in Flush : Proceed(f)
    BY <2>3, FlushStep DEF WriteLog!Next
  <2>4. CASE Age \/ CleanupFires \/ Cleanup
    BY <2>4, ReaperKeepsInv, SilentStep
  <2>5. CASE Stop \/ StopEnds
    BY <2>5, StopStep DEF WriteLog!Next
  <2>6. CASE UNCHANGED vars
    BY <2>6, StutterKeepsInv, SilentStep
  <2>. QED BY <2>1, <2>2, <2>3, <2>4, <2>5, <2>6 DEF Next
<1>. QED BY <1>1, <1>2, InvHolds, PTL DEF Spec, RefinesWriteLog, WriteLog!Spec

================================================================================

---------------------------- MODULE ApplyProofs ----------------------------
(***************************************************************************)
(* The way of an entry to the state machine (ApplyPipeline) and the log    *)
(* view (LogView), for any number of clients and goroutines, any capacity  *)
(* of the channel and logs of any length.                                  *)
(***************************************************************************)
EXTENDS LogView, SequenceTheorems, TLAPS

PCs == {"done", "start", "send", "mark"}
Goroutine == [pc : PCs, es : Seq(Entry)]

(* A goroutine's copy is a piece of the log l up to commit index c. *)
Batch(w, l, c) ==
  /\ w.pc \in {"send", "mark"} <=> w.es # <<>>
  /\ w.es # <<>> => w.es[1].index + Len(w.es) - 1 <= c
  /\ \A j \in 1 .. Len(w.es) : /\ w.es[j].index = w.es[1].index + j - 1
                               /\ w.es[j] = l[w.es[j].index]

LogTypes ==
  /\ leader \in BOOLEAN
  /\ log \in Seq(Entry) /\ Len(log) <= MaxLogLen
  /\ \A i \in 1 .. Len(log) : log[i].index = i
  /\ commitIndex \in 0 .. Len(log)
  /\ lastApplied \in 0 .. commitIndex
  /\ nodeStopped \in BOOLEAN /\ kvStopped \in BOOLEAN

PipeTypes ==
  /\ worker \in [Worker -> Goroutine]
  /\ \A k \in Worker : Batch(worker[k], log, commitIndex)
  /\ commitCh \in Seq(Entry)
  /\ \A j \in 1 .. Len(commitCh) : commitCh[j].index <= commitIndex
                                   /\ log[commitCh[j].index] = commitCh[j]
  /\ applied \in Seq(1 .. commitIndex)

(* Every index that is being sent follows indexes that have arrived. *)
Sent(i) == \E h \in DOMAIN Arrived : Arrived[h] = i

SendersInOrder ==
  \A k \in Worker :
    /\ worker[k].pc = "send" => \A i \in 1 .. worker[k].es[1].index - 1 : Sent(i)
    /\ worker[k].pc = "mark" => \A i \in 1 .. worker[k].es[1].index : Sent(i)

PipeInv == LogTypes /\ PipeTypes /\ NoGaps /\ SendersInOrder

-----------------------------------------------------------------------------
LEMMA EntryFields ==
  ASSUME NEW e \in Entry
  PROVE  e.index \in 1 .. MaxLogLen /\ e.cmd \in Commands \cup {Noop}
         /\ e.by \in Client \cup {Nobody}
BY DEF Entry

(* What has arrived: the indexes a were applied, and ch is in the channel. *)
ArrivedBy(a, ch) == a \o [i \in DOMAIN ch |-> ch[i].index]

LEMMA ArrivedBySeq ==
  ASSUME NEW a \in Seq(Nat), NEW ch \in Seq(Entry)
  PROVE  /\ ArrivedBy(a, ch) \in Seq(Nat)
         /\ Len(ArrivedBy(a, ch)) = Len(a) + Len(ch)
         /\ DOMAIN ArrivedBy(a, ch) = 1 .. Len(a) + Len(ch)
         /\ \A h \in 1 .. Len(a) + Len(ch) :
              ArrivedBy(a, ch)[h] = IF h <= Len(a) THEN a[h] ELSE ch[h - Len(a)].index
<1>. DEFINE c == [i \in DOMAIN ch |-> ch[i].index]
            r == a \o c
<1>1. \A i \in 1 .. Len(ch) : ch[i].index \in Nat
  BY ApplyAssumption, EntryFields
<1>2. c \in Seq(Nat) /\ Len(c) = Len(ch) /\ \A h \in 1 .. Len(ch) : c[h] = ch[h].index
  BY <1>1, SMTT(30)
<1>. HIDE DEF c
<1>3. /\ r \in Seq(Nat) /\ Len(r) = Len(a) + Len(c)
      /\ \A h \in 1 .. Len(a) + Len(c) :
           r[h] = IF h <= Len(a) THEN a[h] ELSE c[h - Len(a)]
  BY <1>2, ConcatProperties
<1>. HIDE DEF r
<1>4. Len(a) \in Nat /\ Len(ch) \in Nat
  OBVIOUS
<1>5. ASSUME NEW h \in 1 .. Len(a) + Len(ch)
      PROVE  r[h] = IF h <= Len(a) THEN a[h] ELSE ch[h - Len(a)].index
  <2>1. CASE h <= Len(a)
    BY <1>2, <1>3, <2>1
  <2>2. CASE ~(h <= Len(a))
    <3>1. h - Len(a) \in 1 .. Len(ch)
      BY <1>4, <2>2
    <3>2. r[h] = c[h - Len(a)]
      BY <1>2, <1>3, <2>2
    <3>. QED
      BY <1>2, <2>2, <3>1, <3>2
  <2>. QED
    BY <2>1, <2>2
<1>6. DOMAIN r = 1 .. Len(a) + Len(ch)
  BY <1>2, <1>3
<1>7. r = ArrivedBy(a, ch)
  BY DEF ArrivedBy, c, r
<1>. QED
  BY <1>2, <1>3, <1>5, <1>6, <1>7

LEMMA ArrivedSeq ==
  ASSUME LogTypes, PipeTypes
  PROVE  /\ Arrived = ArrivedBy(applied, commitCh)
         /\ applied \in Seq(Nat) /\ commitCh \in Seq(Entry)
         /\ \A h \in DOMAIN Arrived : Arrived[h] \in 1 .. commitIndex
<1>1. applied \in Seq(Nat) /\ \A h \in 1 .. Len(applied) : applied[h] \in 1 .. commitIndex
  BY DEF PipeTypes, LogTypes
<1>2. commitCh \in Seq(Entry)
      /\ \A h \in 1 .. Len(commitCh) : commitCh[h].index \in 1 .. commitIndex
  BY ApplyAssumption, EntryFields DEF PipeTypes, LogTypes
<1>3. Arrived = ArrivedBy(applied, commitCh)
  BY DEF Arrived, ArrivedBy
<1>4. ASSUME NEW h \in DOMAIN Arrived PROVE Arrived[h] \in 1 .. commitIndex
  <2>1. /\ h \in 1 .. Len(applied) + Len(commitCh)
        /\ Arrived[h] = IF h <= Len(applied) THEN applied[h]
                        ELSE commitCh[h - Len(applied)].index
    BY <1>1, <1>2, <1>3, ArrivedBySeq
  <2>2. Len(applied) \in Nat /\ Len(commitCh) \in Nat
    BY <1>1, <1>2
  <2>3. CASE h <= Len(applied)
    BY <1>1, <2>1, <2>2, <2>3
  <2>4. CASE ~(h <= Len(applied))
    <3>1. h - Len(applied) \in 1 .. Len(commitCh)
      BY <2>1, <2>2, <2>4
    <3>. QED
      BY <1>2, <2>1, <2>4, <3>1
  <2>. QED
    BY <2>3, <2>4
<1>. QED
  BY <1>1, <1>2, <1>3, <1>4

(* One more entry in the channel, and one that moves on from there. *)
(* r lists the indexes a and then those of the entries of ch. *)
IsArrived(r, a, ch) ==
  /\ r \in Seq(Nat) /\ Len(r) = Len(a) + Len(ch) /\ DOMAIN r = 1 .. Len(a) + Len(ch)
  /\ \A h \in 1 .. Len(a) + Len(ch) :
       r[h] = IF h <= Len(a) THEN a[h] ELSE ch[h - Len(a)].index

LEMMA ArrivedIs ==
  ASSUME NEW a \in Seq(Nat), NEW ch \in Seq(Entry)
  PROVE  IsArrived(ArrivedBy(a, ch), a, ch)
BY ArrivedBySeq, SMTT(30) DEF IsArrived

LEMMA ArrivedSend ==
  ASSUME NEW a \in Seq(Nat), NEW ch \in Seq(Entry), NEW e \in Entry
  PROVE  /\ DOMAIN ArrivedBy(a, Append(ch, e)) = 1 .. Len(a) + Len(ch) + 1
         /\ \A h \in 1 .. Len(a) + Len(ch) :
              ArrivedBy(a, Append(ch, e))[h] = ArrivedBy(a, ch)[h]
         /\ ArrivedBy(a, Append(ch, e))[Len(a) + Len(ch) + 1] = e.index
<1>. DEFINE d == Append(ch, e)
<1>1. /\ d \in Seq(Entry) /\ Len(d) = Len(ch) + 1
      /\ \A i \in 1 .. Len(ch) : d[i] = ch[i]
      /\ d[Len(ch) + 1] = e
  BY AppendProperties
<1>2. Len(a) \in Nat /\ Len(ch) \in Nat
  OBVIOUS
<1>. HIDE DEF d
<1>3. /\ DOMAIN ArrivedBy(a, d) = 1 .. Len(a) + Len(ch) + 1
      /\ \A h \in 1 .. Len(a) + Len(ch) + 1 :
           ArrivedBy(a, d)[h] = IF h <= Len(a) THEN a[h] ELSE d[h - Len(a)].index
  <2>1. Len(a) + Len(d) = Len(a) + Len(ch) + 1
    BY <1>1, <1>2
  <2>2. /\ DOMAIN ArrivedBy(a, d) = 1 .. Len(a) + Len(d)
        /\ \A h \in 1 .. Len(a) + Len(d) :
             ArrivedBy(a, d)[h] = IF h <= Len(a) THEN a[h] ELSE d[h - Len(a)].index
    <3>1. IsArrived(ArrivedBy(a, d), a, d)
      BY <1>1, ArrivedIs
    <3>. QED
      BY <3>1 DEF IsArrived
  <2>. QED
    BY <2>1, <2>2
<1>4. ASSUME NEW h \in 1 .. Len(a) + Len(ch)
      PROVE  ArrivedBy(a, d)[h] = ArrivedBy(a, ch)[h]
  <2>1. ArrivedBy(a, ch)[h] = IF h <= Len(a) THEN a[h] ELSE ch[h - Len(a)].index
    BY ArrivedBySeq
  <2>2. h \in 1 .. Len(a) + Len(ch) + 1
    BY <1>2
  <2>3. ~(h <= Len(a)) => d[h - Len(a)] = ch[h - Len(a)]
    <3>1. ~(h <= Len(a)) => h - Len(a) \in 1 .. Len(ch)
      BY <1>2
    <3>. QED  BY <1>1, <3>1
  <2>. QED
    BY <1>3, <2>1, <2>2, <2>3
<1>5. ArrivedBy(a, d)[Len(a) + Len(ch) + 1] = e.index
  <2>. DEFINE h == Len(a) + Len(ch) + 1
  <2>1. /\ h \in 1 .. Len(a) + Len(ch) + 1 /\ ~(h <= Len(a))
        /\ h - Len(a) = Len(ch) + 1
    BY <1>2
  <2>. HIDE DEF h
  <2>2. ArrivedBy(a, d)[h] = e.index
    BY <1>1, <1>3, <2>1
  <2>. QED
    BY <2>2 DEF h
<1>. QED
  BY <1>3, <1>4, <1>5 DEF d

LEMMA ArrivedApply ==
  ASSUME NEW a \in Seq(Nat), NEW ch \in Seq(Entry), ch # <<>>
  PROVE  ArrivedBy(Append(a, Head(ch).index), Tail(ch)) = ArrivedBy(a, ch)
<1>. DEFINE b == Append(a, Head(ch).index)
            t == Tail(ch)
<1>1. Head(ch) = ch[1] /\ Head(ch) \in Entry /\ Head(ch).index \in Nat
  BY EntryFields, ApplyAssumption
<1>2. /\ b \in Seq(Nat) /\ Len(b) = Len(a) + 1
      /\ \A i \in 1 .. Len(a) : b[i] = a[i]
      /\ b[Len(a) + 1] = ch[1].index
  BY <1>1, AppendProperties
<1>3. /\ t \in Seq(Entry) /\ Len(t) = Len(ch) - 1
      /\ \A i \in 1 .. Len(t) : t[i] = ch[i + 1]
  BY HeadTailProperties
<1>4. Len(a) \in Nat /\ Len(ch) \in Nat \ {0}
  OBVIOUS
<1>. HIDE DEF b, t
<1>. DEFINE x == ArrivedBy(b, t)
            y == ArrivedBy(a, ch)
<1>5. Len(b) + Len(t) = Len(a) + Len(ch)
  BY <1>2, <1>3, <1>4
<1>6. /\ x \in Seq(Nat) /\ y \in Seq(Nat)
      /\ Len(x) = Len(a) + Len(ch) /\ Len(y) = Len(a) + Len(ch)
      /\ \A h \in 1 .. Len(a) + Len(ch) :
           /\ x[h] = IF h <= Len(b) THEN b[h] ELSE t[h - Len(b)].index
           /\ y[h] = IF h <= Len(a) THEN a[h] ELSE ch[h - Len(a)].index
  <2>1. /\ x \in Seq(Nat) /\ Len(x) = Len(b) + Len(t)
        /\ \A h \in 1 .. Len(b) + Len(t) :
             x[h] = IF h <= Len(b) THEN b[h] ELSE t[h - Len(b)].index
    <3>1. IsArrived(x, b, t)
      BY <1>2, <1>3, ArrivedIs
    <3>. QED
      BY <3>1 DEF IsArrived
  <2>2. /\ y \in Seq(Nat) /\ Len(y) = Len(a) + Len(ch)
        /\ \A h \in 1 .. Len(a) + Len(ch) :
             y[h] = IF h <= Len(a) THEN a[h] ELSE ch[h - Len(a)].index
    <3>1. IsArrived(y, a, ch)
      BY ArrivedIs
    <3>. QED
      BY <3>1 DEF IsArrived
  <2>. HIDE DEF x, y
  <2>. QED
    BY <1>5, <2>1, <2>2
<1>. HIDE DEF x, y
<1>7. ASSUME NEW h \in 1 .. Len(a) + Len(ch) PROVE x[h] = y[h]
  <2>1. CASE h <= Len(a)
    <3>1. h <= Len(b) /\ h \in 1 .. Len(a)
      BY <1>2, <1>4, <2>1
    <3>. QED
      BY <1>2, <1>6, <2>1, <3>1
  <2>2. CASE h = Len(a) + 1
    <3>1. h <= Len(b) /\ ~(h <= Len(a)) /\ h - Len(a) = 1
      BY <1>2, <1>4, <2>2
    <3>. QED
      BY <1>2, <1>6, <2>2, <3>1
  <2>3. CASE h > Len(a) + 1
    <3>1. /\ ~(h <= Len(b)) /\ ~(h <= Len(a))
          /\ h - Len(b) \in 1 .. Len(t) /\ (h - Len(b)) + 1 = h - Len(a)
      BY <1>2, <1>3, <1>4, <2>3
    <3>2. t[h - Len(b)] = ch[h - Len(a)]
      BY <1>3, <3>1
    <3>. QED
      BY <1>6, <3>1, <3>2
  <2>. QED
    BY <1>4, <2>1, <2>2, <2>3
<1>8. x = y
  BY <1>6, <1>7, SeqEqual
<1>. QED
  BY <1>8 DEF x, y, b, t

LEMMA RestingBatch ==
  ASSUME NEW l, NEW c
  PROVE  /\ Resting \in Goroutine /\ Spawned \in Goroutine
         /\ Batch(Resting, l, c) /\ Batch(Spawned, l, c)
         /\ Resting.pc = "done" /\ Spawned.pc = "start"
<1>1. Resting \in Goroutine /\ Spawned \in Goroutine
  BY DEF Resting, Spawned, PCs, Goroutine
<1>. QED
  BY <1>1 DEF Resting, Spawned, Batch

(* A batch stays one while the committed part of the log stays. *)
LEMMA BatchStays ==
  ASSUME NEW w \in Goroutine, NEW l, NEW c \in Nat, NEW m, NEW d \in Nat, c <= d,
         \A i \in 1 .. c : m[i] = l[i], Batch(w, l, c)
  PROVE  Batch(w, m, d)
<1>1. w.es \in Seq(Entry) /\ Len(w.es) \in Nat
  BY DEF Goroutine
<1>2. ASSUME NEW j \in 1 .. Len(w.es)
      PROVE  w.es[j] = m[w.es[j].index]
  <2>1. w.es # <<>> /\ 1 \in 1 .. Len(w.es)
    BY <1>1
  <2>2. w.es[1].index \in Nat /\ w.es[j].index \in 1 .. MaxLogLen
    BY <1>1, <2>1, ApplyAssumption, EntryFields
  <2>3. w.es[j].index = w.es[1].index + j - 1 /\ w.es[1].index + Len(w.es) - 1 <= c
    BY <2>1 DEF Batch
  <2>4. w.es[j].index \in 1 .. c
    BY <1>1, <2>2, <2>3
  <2>. QED
    BY <2>4 DEF Batch
<1>3. w.es # <<>> => w.es[1].index + Len(w.es) - 1 <= d
  <2>. SUFFICES ASSUME w.es # <<>> PROVE w.es[1].index + Len(w.es) - 1 <= d
    OBVIOUS
  <2>1. w.es[1].index \in Nat
    BY <1>1, ApplyAssumption, EntryFields
  <2>. QED
    BY <1>1, <2>1 DEF Batch
<1>. QED
  BY <1>2, <1>3 DEF Batch

LEMMA PipeInitially == Init => PipeInv
<1>. SUFFICES ASSUME Init PROVE PipeInv
  OBVIOUS
<1>. USE DEF Init
<1>1. LogTypes
  <2>1. leader \in BOOLEAN /\ nodeStopped \in BOOLEAN /\ kvStopped \in BOOLEAN
    OBVIOUS
  <2>2. log \in Seq(Entry) /\ Len(log) = 0
    OBVIOUS
  <2>. QED
    BY <2>1, <2>2, ApplyAssumption DEF LogTypes
<1>2. PipeTypes
  <2>1. Resting \in Goroutine /\ Batch(Resting, log, commitIndex)
    BY RestingBatch
  <2>. QED
    BY <2>1 DEF PipeTypes
<1>3. DOMAIN Arrived = {}
  <2>1. DOMAIN Arrived = 1 .. Len(applied) + Len(commitCh)
    BY <1>1, <1>2, ArrivedSeq, ArrivedBySeq
  <2>2. Len(applied) = 0 /\ Len(commitCh) = 0
    OBVIOUS
  <2>. QED
    BY <2>1, <2>2
<1>4. NoGaps
  BY <1>3 DEF NoGaps
<1>5. SendersInOrder
  BY DEF SendersInOrder, Resting
<1>. QED
  BY <1>1, <1>2, <1>4, <1>5 DEF PipeInv

-----------------------------------------------------------------------------
(* The log and the commit index grow; the goroutines' copies and what they *)
(* have sent stay as they are.                                             *)
LEMMA LogGrows ==
  ASSUME PipeInv, LogTypes', commitIndex <= commitIndex',
         \A i \in 1 .. commitIndex : log'[i] = log[i],
         UNCHANGED <<lastApplied, commitCh, applied>>,
         \A k \in Worker : worker'[k] \in {worker[k], Resting, Spawned},
         worker' \in [Worker -> Goroutine]
  PROVE  PipeInv'
<1>0. commitIndex \in Nat /\ commitIndex' \in Nat /\ LogTypes /\ PipeTypes
  BY DEF PipeInv, LogTypes
<1>1. ASSUME NEW k \in Worker PROVE Batch(worker'[k], log', commitIndex')
  <2>1. Batch(worker[k], log, commitIndex) /\ worker[k] \in Goroutine
    BY <1>0 DEF PipeTypes
  <2>2. Batch(worker[k], log', commitIndex')
    BY <1>0, <2>1, BatchStays
  <2>. QED
    BY <2>2, RestingBatch
<1>2. ASSUME NEW j \in 1 .. Len(commitCh')
      PROVE  commitCh'[j].index <= commitIndex' /\ log'[commitCh'[j].index] = commitCh'[j]
  <2>1. /\ commitCh'[j] = commitCh[j] /\ commitCh[j] \in Entry
        /\ commitCh[j].index <= commitIndex /\ log[commitCh[j].index] = commitCh[j]
    BY <1>0 DEF PipeTypes
  <2>2. commitCh[j].index \in 1 .. commitIndex
    BY <1>0, <2>1, EntryFields, ApplyAssumption
  <2>. QED
    BY <1>0, <2>1, <2>2
<1>3. applied' \in Seq(1 .. commitIndex')
  BY <1>0 DEF PipeTypes
<1>4. PipeTypes'
  BY <1>0, <1>1, <1>2, <1>3 DEF PipeTypes
<1>5. Arrived' = Arrived
  BY DEF Arrived
<1>6. NoGaps'
  BY <1>5 DEF PipeInv, NoGaps
<1>7. SendersInOrder'
  BY <1>5, RestingBatch DEF PipeInv, SendersInOrder, Sent
<1>. QED
  BY <1>4, <1>6, <1>7 DEF PipeInv

LEMMA AppendToLog ==
  ASSUME LogTypes, NEW i \in commitIndex + 1 .. Len(log) + 1, i <= MaxLogLen,
         NEW c \in Commands \cup {Noop}, NEW a \in Client \cup {Nobody},
         log' = Append(SubSeq(log, 1, i - 1), NewEntry(i, c, a))
  PROVE  /\ log' \in Seq(Entry) /\ Len(log') = i
         /\ \A j \in 1 .. i - 1 : log'[j] = log[j]
         /\ log'[i] = NewEntry(i, c, a)
         /\ \A j \in 1 .. Len(log') : log'[j].index = j
<1>. DEFINE s == SubSeq(log, 1, i - 1)
<1>1. i \in 1 .. MaxLogLen /\ i - 1 \in 0 .. Len(log) /\ log \in Seq(Entry)
  BY ApplyAssumption DEF LogTypes
<1>2. \A j \in 1 .. i - 1 : log[j] \in Entry
  BY <1>1
<1>3. s \in Seq(Entry) /\ Len(s) = i - 1 /\ \A j \in 1 .. i - 1 : s[j] = log[j]
  BY <1>1, <1>2, SubSeqProperties
<1>. HIDE DEF s
<1>4. log' = Append(s, NewEntry(i, c, a))
  BY DEF s
<1>5. NewEntry(i, c, a) \in Entry /\ NewEntry(i, c, a).index = i
  BY <1>1 DEF NewEntry, Entry
<1>6. /\ log' \in Seq(Entry) /\ Len(log') = Len(s) + 1
      /\ \A j \in 1 .. Len(s) : log'[j] = s[j]
      /\ log'[Len(s) + 1] = NewEntry(i, c, a)
  BY <1>3, <1>4, <1>5, AppendProperties
<1>7. log'[i] = NewEntry(i, c, a) /\ \A j \in 1 .. i - 1 : log'[j] = log[j]
  BY <1>1, <1>3, <1>6
<1>8. ASSUME NEW j \in 1 .. i PROVE log'[j].index = j
  <2>1. CASE j = i
    BY <1>5, <1>7, <2>1
  <2>2. CASE j # i
    <3>1. j \in 1 .. i - 1 /\ j \in 1 .. Len(log)
      BY <1>1, <2>2
    <3>. QED
      BY <1>7, <3>1 DEF LogTypes
  <2>. QED
    BY <2>1, <2>2
<1>. QED
  BY <1>1, <1>3, <1>6, <1>7, <1>8

LEMMA AppendAtEnd ==
  ASSUME LogTypes, NEW e, log' = Append(log, e)
  PROVE  log' = Append(SubSeq(log, 1, (Len(log) + 1) - 1), e)
<1>1. log \in Seq(Entry) /\ (Len(log) + 1) - 1 = Len(log)
  BY DEF LogTypes
<1>2. SubSeq(log, 1, Len(log)) = log
  BY <1>1, SubSeqFull
<1>. QED
  BY <1>1, <1>2

-----------------------------------------------------------------------------
(* What a step of goroutine k to w leaves to show. *)
LEMMA WorkerMoves ==
  ASSUME PipeInv, NEW k \in Worker, NEW w \in Goroutine, Batch(w, log, commitIndex),
         worker' = [worker EXCEPT ![k] = w]
  PROVE  /\ worker' \in [Worker -> Goroutine] /\ worker'[k] = w
         /\ \A x \in Worker : Batch(worker'[x], log, commitIndex)
         /\ \A x \in Worker \ {k} : worker'[x] = worker[x]
BY DEF PipeInv, PipeTypes

(* The head of a batch, and the rest of it. *)
LEMMA BatchHead ==
  ASSUME LogTypes, NEW w \in Goroutine, w.pc \in {"send", "mark"},
         Batch(w, log, commitIndex)
  PROVE  /\ Head(w.es) = w.es[1] /\ Head(w.es) \in Entry
         /\ Head(w.es).index \in 1 .. commitIndex
         /\ log[Head(w.es).index] = Head(w.es)
         /\ Tail(w.es) # <<>> => /\ Tail(w.es) \in Seq(Entry)
                                 /\ Tail(w.es)[1].index = Head(w.es).index + 1
                                 /\ Batch([pc |-> "send", es |-> Tail(w.es)], log, commitIndex)
<1>1. w.es \in Seq(Entry) /\ w.es # <<>> /\ Len(w.es) \in Nat \ {0}
  BY DEF Goroutine, Batch
<1>2. Head(w.es) = w.es[1] /\ Head(w.es) \in Entry
  BY <1>1
<1>3. commitIndex \in Nat
  BY DEF LogTypes
<1>4. w.es[1].index \in 1 .. MaxLogLen
  BY <1>2, EntryFields
<1>5. /\ w.es[1].index + Len(w.es) - 1 <= commitIndex
      /\ w.es[1] = log[w.es[1].index]
  BY <1>1 DEF Batch
<1>6. w.es[1].index \in 1 .. commitIndex
  BY <1>1, <1>3, <1>4, <1>5, ApplyAssumption
<1>7. ASSUME Tail(w.es) # <<>>
      PROVE  /\ Tail(w.es) \in Seq(Entry)
             /\ Tail(w.es)[1].index = Head(w.es).index + 1
             /\ Batch([pc |-> "send", es |-> Tail(w.es)], log, commitIndex)
  <2>. DEFINE t == Tail(w.es)
  <2>1. /\ t \in Seq(Entry) /\ Len(t) = Len(w.es) - 1
        /\ \A j \in 1 .. Len(t) : t[j] = w.es[j + 1]
    BY <1>1, HeadTailProperties
  <2>2. t # <<>>
    BY <1>7
  <2>. HIDE DEF t
  <2>3. Len(t) \in Nat \ {0}
    BY <2>1, <2>2
  <2>4. ASSUME NEW j \in 1 .. Len(t)
        PROVE  t[j].index = w.es[1].index + j /\ t[j] = log[t[j].index]
    <3>1. j + 1 \in 1 .. Len(w.es) /\ (j + 1) - 1 = j
      BY <1>1, <2>1, <2>3
    <3>2. w.es[j + 1].index = w.es[1].index + (j + 1) - 1
          /\ w.es[j + 1] = log[w.es[j + 1].index]
      BY <3>1 DEF Batch
    <3>. QED
      BY <1>4, <2>1, <3>1, <3>2, ApplyAssumption
  <2>5. t[1].index = w.es[1].index + 1
    BY <2>3, <2>4
  <2>6. Batch([pc |-> "send", es |-> t], log, commitIndex)
    <3>1. ASSUME NEW j \in 1 .. Len(t) PROVE t[j].index = t[1].index + j - 1
      <4>1. w.es[1].index \in Int /\ j \in Int
        BY <1>4, <2>3, ApplyAssumption
      <4>2. t[j].index = w.es[1].index + j
        BY <2>4
      <4>. DEFINE x == w.es[1].index
      <4>3. x \in Int /\ t[j].index = x + j /\ t[1].index = x + 1
        BY <2>5, <4>1, <4>2
      <4>. HIDE DEF x
      <4>4. x + j = (x + 1) + j - 1
        BY <4>1, <4>3
      <4>. QED
        BY <4>3, <4>4
    <3>2. t[1].index + Len(t) - 1 <= commitIndex
      BY <1>3, <1>4, <1>5, <2>1, <2>3, <2>5, ApplyAssumption
    <3>3. \A j \in 1 .. Len(t) : t[j] = log[t[j].index]
      BY <2>4
    <3>. QED
      BY <2>2, <3>1, <3>2, <3>3 DEF Batch
  <2>. QED
    BY <1>2, <2>1, <2>5, <2>6 DEF t
<1>. QED
  BY <1>2, <1>5, <1>6, <1>7

LEMMA CollectKept ==
  ASSUME PipeInv, NEW k \in Worker, CollectEntries(k)
  PROVE  PipeInv'
<1>. DEFINE es == SubSeq(log, lastApplied + 1, commitIndex)
            w == IF es = <<>> THEN Resting ELSE [pc |-> "send", es |-> es]
<1>0. LogTypes /\ PipeTypes /\ NoGaps
  BY DEF PipeInv
<1>1. /\ lastApplied \in Nat /\ commitIndex \in Nat /\ log \in Seq(Entry)
      /\ lastApplied <= commitIndex /\ commitIndex <= Len(log)
  BY <1>0 DEF LogTypes
<1>2. \A i \in lastApplied + 1 .. commitIndex : log[i] \in Entry /\ log[i].index = i
  BY <1>0, <1>1 DEF LogTypes
<1>3. /\ es \in Seq(Entry)
      /\ Len(es) = IF lastApplied + 1 <= commitIndex THEN commitIndex - lastApplied ELSE 0
      /\ \A j \in 1 .. commitIndex - lastApplied : es[j] = log[lastApplied + j]
  <2>1. /\ es \in Seq(Entry)
        /\ Len(es) = IF lastApplied + 1 <= commitIndex
                     THEN commitIndex - (lastApplied + 1) + 1 ELSE 0
        /\ \A j \in 1 .. commitIndex - (lastApplied + 1) + 1 :
             es[j] = log[(lastApplied + 1) + j - 1]
    BY <1>1, <1>2, SubSeqProperties
  <2>. HIDE DEF es
  <2>. QED
    BY <1>1, <2>1
<1>4. worker' = [worker EXCEPT ![k] = w] /\ worker[k].pc = "start"
  BY DEF CollectEntries, Goto
<1>. HIDE DEF es
<1>5. ASSUME es # <<>>
      PROVE  /\ es[1].index = lastApplied + 1
             /\ Batch([pc |-> "send", es |-> es], log, commitIndex)
  <2>1. lastApplied + 1 <= commitIndex /\ Len(es) = commitIndex - lastApplied
    BY <1>1, <1>3, <1>5
  <2>2. ASSUME NEW j \in 1 .. Len(es)
        PROVE  es[j].index = lastApplied + j /\ es[j] = log[es[j].index]
    BY <1>1, <1>2, <1>3, <2>1
  <2>3. es[1].index = lastApplied + 1
    BY <1>1, <2>1, <2>2
  <2>. QED
    BY <1>1, <1>5, <2>1, <2>2, <2>3 DEF Batch
<1>6. w \in Goroutine /\ Batch(w, log, commitIndex)
  <2>1. CASE es = <<>>
    BY <2>1, RestingBatch
  <2>2. CASE es # <<>>
    BY <1>3, <1>5, <2>2 DEF Goroutine, PCs
  <2>. QED
    BY <2>1, <2>2
<1>7. /\ w.pc \in {"send", "done"}
      /\ w.pc = "send" => w.es[1].index = lastApplied + 1
  BY <1>5, RestingBatch
<1>. HIDE DEF w
<1>8. UNCHANGED <<raftVars, lastApplied, callVars, storeVars, stopVars>>
  BY DEF CollectEntries
<1>9. /\ worker' \in [Worker -> Goroutine] /\ worker'[k] = w
      /\ \A x \in Worker : Batch(worker'[x], log, commitIndex)
      /\ \A x \in Worker \ {k} : worker'[x] = worker[x]
  BY <1>4, <1>6, WorkerMoves
<1>10. LogTypes' /\ PipeTypes'
  BY <1>0, <1>8, <1>9 DEF LogTypes, PipeTypes, raftVars, storeVars, stopVars
<1>11. Arrived' = Arrived /\ lastApplied' = lastApplied
  BY <1>8 DEF Arrived, storeVars
<1>12. NoGaps'
  BY <1>0, <1>11 DEF NoGaps
<1>13. \A i \in 1 .. lastApplied : Sent(i)
  BY <1>0 DEF NoGaps, Sent
<1>14. SendersInOrder'
  <2>. SUFFICES ASSUME NEW x \in Worker
                PROVE  /\ worker'[x].pc = "send" =>
                            \A i \in 1 .. worker'[x].es[1].index - 1 : Sent(i)
                       /\ worker'[x].pc = "mark" =>
                            \A i \in 1 .. worker'[x].es[1].index : Sent(i)
    BY <1>11 DEF SendersInOrder, Sent
  <2>1. CASE x = k
    BY <1>1, <1>7, <1>9, <1>13, <2>1
  <2>2. CASE x # k
    BY <1>9, <2>2 DEF PipeInv, SendersInOrder
  <2>. QED
    BY <2>1, <2>2
<1>. QED
  BY <1>10, <1>12, <1>14 DEF PipeInv

LEMMA SendKept ==
  ASSUME PipeInv, NEW k \in Worker, SendEntry(k)
  PROVE  PipeInv' /\ \A i : Sent(i) => Sent(i)'
<1>. DEFINE e == Head(worker[k].es)
            w == [worker[k] EXCEPT !.pc = "mark"]
            n == Len(applied) + Len(commitCh)
<1>0. LogTypes /\ PipeTypes /\ NoGaps
  BY DEF PipeInv
<1>1. /\ worker[k].pc = "send" /\ worker[k] \in Goroutine
      /\ Batch(worker[k], log, commitIndex)
  BY <1>0 DEF SendEntry, PipeTypes
<1>2. /\ e = worker[k].es[1] /\ e \in Entry /\ e.index \in 1 .. commitIndex
      /\ log[e.index] = e
  BY <1>0, <1>1, BatchHead
<1>3. w \in Goroutine /\ w.pc = "mark" /\ w.es = worker[k].es
  BY <1>1 DEF Goroutine, PCs
<1>4. Batch(w, log, commitIndex)
  BY <1>1, <1>3 DEF Batch
<1>5. worker' = [worker EXCEPT ![k] = w]
  BY <1>0 DEF SendEntry, PipeTypes
<1>. HIDE DEF w
<1>6. /\ worker' \in [Worker -> Goroutine] /\ worker'[k] = w
      /\ \A x \in Worker : Batch(worker'[x], log, commitIndex)
      /\ \A x \in Worker \ {k} : worker'[x] = worker[x]
  BY <1>3, <1>4, <1>5, WorkerMoves
<1>7. /\ UNCHANGED <<raftVars, lastApplied, callVars, kv, applied, stopVars>>
      /\ commitCh' = Append(commitCh, e)
  BY DEF SendEntry
<1>. HIDE DEF e
<1>8. LogTypes'
  BY <1>0, <1>7 DEF LogTypes, raftVars, stopVars
<1>9. PipeTypes'
  <2>1. /\ commitCh' \in Seq(Entry) /\ Len(commitCh') = Len(commitCh) + 1
        /\ \A j \in 1 .. Len(commitCh) : commitCh'[j] = commitCh[j]
        /\ commitCh'[Len(commitCh) + 1] = e
    BY <1>0, <1>2, <1>7, AppendProperties DEF PipeTypes
  <2>2. commitIndex' = commitIndex /\ log' = log /\ commitIndex \in Nat
    BY <1>0, <1>7 DEF raftVars, LogTypes
  <2>3. Len(commitCh) \in Nat
    BY <1>0 DEF PipeTypes
  <2>4. ASSUME NEW j \in 1 .. Len(commitCh) + 1
        PROVE  commitCh'[j].index <= commitIndex /\ log[commitCh'[j].index] = commitCh'[j]
    <3>1. CASE j = Len(commitCh) + 1
      BY <1>2, <2>1, <2>2, <3>1
    <3>2. CASE j # Len(commitCh) + 1
      <4>1. j \in 1 .. Len(commitCh)
        BY <2>3, <3>2
      <4>. QED
        BY <1>0, <2>1, <4>1 DEF PipeTypes
    <3>. QED
      BY <3>1, <3>2
  <2>. QED
    BY <1>0, <1>6, <1>7, <2>1, <2>2, <2>4 DEF PipeTypes
<1>10. /\ DOMAIN Arrived = 1 .. n /\ n \in Nat /\ DOMAIN Arrived' = 1 .. n + 1
       /\ \A h \in 1 .. n : Arrived'[h] = Arrived[h]
       /\ Arrived'[n + 1] = e.index
  <2>1. /\ Arrived = ArrivedBy(applied, commitCh)
        /\ applied \in Seq(Nat) /\ commitCh \in Seq(Entry)
    BY <1>0, ArrivedSeq
  <2>2. Arrived' = ArrivedBy(applied, Append(commitCh, e))
    BY <1>7 DEF Arrived, ArrivedBy
  <2>3. DOMAIN Arrived = 1 .. n /\ n \in Nat
    BY <2>1, ArrivedBySeq
  <2>. QED
    BY <1>2, <2>1, <2>2, <2>3, ArrivedSend
<1>. HIDE DEF n
<1>11. \A i : Sent(i) => Sent(i)'
  BY <1>10 DEF Sent
<1>12. \A i \in 1 .. e.index - 1 : Sent(i)
  BY <1>1, <1>2 DEF PipeInv, SendersInOrder
<1>13. \A i \in 1 .. e.index : Sent(i)'
  <2>1. ASSUME NEW i, i = e.index PROVE Sent(i)'
    BY <1>10, <2>1 DEF Sent
  <2>2. e.index \in Nat
    BY <1>2
  <2>3. ASSUME NEW i \in 1 .. e.index, i # e.index PROVE Sent(i)'
    BY <1>11, <1>12, <2>2, <2>3
  <2>. QED
    BY <2>1, <2>3
<1>14. NoGaps'
  <2>1. ASSUME NEW j \in DOMAIN Arrived', NEW i \in 1 .. Arrived'[j] - 1
        PROVE  \E h \in 1 .. j - 1 : Arrived'[h] = i
    <3>1. CASE j = n + 1
      <4>1. PICK h \in DOMAIN Arrived : Arrived[h] = i
        BY <1>10, <1>12, <3>1 DEF Sent
      <4>. QED
        BY <1>10, <3>1, <4>1
    <3>2. CASE j # n + 1
      <4>1. j \in 1 .. n /\ Arrived'[j] = Arrived[j]
        BY <1>10, <3>2
      <4>2. PICK h \in 1 .. j - 1 : Arrived[h] = i
        BY <1>0, <1>10, <4>1 DEF NoGaps
      <4>3. h \in 1 .. n
        BY <1>10, <4>1
      <4>. QED
        BY <1>10, <4>2, <4>3
    <3>. QED
      BY <3>1, <3>2
  <2>2. \A i \in 1 .. lastApplied' : Sent(i)'
    BY <1>0, <1>7, <1>11 DEF NoGaps, Sent
  <2>. QED
    BY <2>1, <2>2 DEF NoGaps, Sent
<1>15. SendersInOrder'
  <2>. SUFFICES ASSUME NEW x \in Worker
                PROVE  /\ worker'[x].pc = "send" =>
                            \A i \in 1 .. worker'[x].es[1].index - 1 : Sent(i)'
                       /\ worker'[x].pc = "mark" =>
                            \A i \in 1 .. worker'[x].es[1].index : Sent(i)'
    BY DEF SendersInOrder
  <2>1. CASE x = k
    BY <1>2, <1>3, <1>6, <1>13, <2>1
  <2>2. CASE x # k
    BY <1>6, <1>11, <2>2 DEF PipeInv, SendersInOrder
  <2>. QED
    BY <2>1, <2>2
<1>. QED
  BY <1>8, <1>9, <1>11, <1>14, <1>15 DEF PipeInv

LEMMA MarkKept ==
  ASSUME PipeInv, NEW k \in Worker, MarkApplied(k)
  PROVE  PipeInv'
<1>. DEFINE e == Head(worker[k].es)
            t == Tail(worker[k].es)
            w == IF t = <<>> THEN Resting ELSE [pc |-> "send", es |-> t]
<1>0. LogTypes /\ PipeTypes /\ NoGaps
  BY DEF PipeInv
<1>1. /\ worker[k].pc = "mark" /\ worker[k] \in Goroutine
      /\ Batch(worker[k], log, commitIndex)
  BY <1>0 DEF MarkApplied, PipeTypes
<1>2. /\ e = worker[k].es[1] /\ e \in Entry /\ e.index \in 1 .. commitIndex
      /\ t # <<>> => /\ t \in Seq(Entry) /\ t[1].index = e.index + 1
                     /\ Batch([pc |-> "send", es |-> t], log, commitIndex)
  BY <1>0, <1>1, BatchHead
<1>3. worker' = [worker EXCEPT ![k] = w] /\ lastApplied' = e.index
  BY DEF MarkApplied, Goto
<1>4. UNCHANGED <<raftVars, storeVars, stopVars>>
  BY DEF MarkApplied
<1>. HIDE DEF e, t
<1>5. /\ w \in Goroutine /\ Batch(w, log, commitIndex)
      /\ w.pc \in {"send", "done"}
      /\ w.pc = "send" => w.es[1].index = e.index + 1
  <2>1. CASE t = <<>>
    BY <2>1, RestingBatch
  <2>2. CASE t # <<>>
    BY <1>2, <2>2 DEF Goroutine, PCs
  <2>. QED
    BY <2>1, <2>2
<1>. HIDE DEF w
<1>6. /\ worker' \in [Worker -> Goroutine] /\ worker'[k] = w
      /\ \A x \in Worker : Batch(worker'[x], log, commitIndex)
      /\ \A x \in Worker \ {k} : worker'[x] = worker[x]
  BY <1>3, <1>5, WorkerMoves
<1>7. LogTypes'
  BY <1>0, <1>2, <1>3, <1>4 DEF LogTypes, raftVars, stopVars
<1>8. PipeTypes'
  BY <1>0, <1>4, <1>6 DEF PipeTypes, raftVars, storeVars
<1>9. Arrived' = Arrived
  BY <1>4 DEF Arrived, storeVars
<1>10. \A i \in 1 .. e.index : Sent(i)
  BY <1>1, <1>2 DEF PipeInv, SendersInOrder
<1>11. NoGaps'
  BY <1>0, <1>3, <1>9, <1>10 DEF NoGaps, Sent
<1>12. SendersInOrder'
  <2>. SUFFICES ASSUME NEW x \in Worker
                PROVE  /\ worker'[x].pc = "send" =>
                            \A i \in 1 .. worker'[x].es[1].index - 1 : Sent(i)
                       /\ worker'[x].pc = "mark" =>
                            \A i \in 1 .. worker'[x].es[1].index : Sent(i)
    BY <1>9 DEF SendersInOrder, Sent
  <2>1. CASE x = k
    <3>1. (e.index + 1) - 1 = e.index
      BY <1>2
    <3>. QED
      BY <1>5, <1>6, <1>10, <2>1, <3>1
  <2>2. CASE x # k
    BY <1>6, <2>2 DEF PipeInv, SendersInOrder
  <2>. QED
    BY <2>1, <2>2
<1>. QED
  BY <1>7, <1>8, <1>11, <1>12 DEF PipeInv

LEMMA ApplyKept ==
  ASSUME PipeInv, ApplyEntry
  PROVE  PipeInv' /\ Arrived' = Arrived
<1>0. LogTypes /\ PipeTypes /\ NoGaps /\ SendersInOrder
  BY DEF PipeInv
<1>1. /\ commitCh # <<>> /\ commitCh' = Tail(commitCh)
      /\ applied' = Append(applied, Head(commitCh).index)
      /\ UNCHANGED <<raftVars, lastApplied, worker, stopVars>>
  BY DEF ApplyEntry
<1>2. Arrived = ArrivedBy(applied, commitCh) /\ applied \in Seq(Nat) /\ commitCh \in Seq(Entry)
  BY <1>0, ArrivedSeq
<1>3. Arrived' = Arrived
  <2>1. Arrived' = ArrivedBy(applied', commitCh')
    BY DEF Arrived, ArrivedBy
  <2>. QED
    BY <1>1, <1>2, <2>1, ArrivedApply
<1>4. LogTypes'
  BY <1>0, <1>1 DEF LogTypes, raftVars, stopVars
<1>5. PipeTypes'
  <2>1. /\ commitCh' \in Seq(Entry) /\ Len(commitCh') = Len(commitCh) - 1
        /\ \A j \in 1 .. Len(commitCh') : commitCh'[j] = commitCh[j + 1]
    BY <1>1, <1>2, HeadTailProperties
  <2>2. Len(commitCh) \in Nat \ {0} /\ Head(commitCh) = commitCh[1] /\ commitCh[1] \in Entry
    BY <1>1, <1>2
  <2>3. commitCh[1].index \in 1 .. commitIndex
    BY <1>0, <2>2, EntryFields, ApplyAssumption DEF PipeTypes, LogTypes
  <2>4. applied' \in Seq(1 .. commitIndex)
    BY <1>0, <1>1, <2>2, <2>3, AppendProperties DEF PipeTypes
  <2>5. ASSUME NEW j \in 1 .. Len(commitCh')
        PROVE  commitCh'[j].index <= commitIndex /\ log[commitCh'[j].index] = commitCh'[j]
    <3>1. j + 1 \in 1 .. Len(commitCh)
      BY <2>1, <2>2
    <3>. QED
      BY <1>0, <2>1, <3>1 DEF PipeTypes
  <2>. QED
    BY <1>0, <1>1, <2>1, <2>4, <2>5 DEF PipeTypes, raftVars
<1>6. NoGaps' /\ SendersInOrder'
  BY <1>0, <1>1, <1>3 DEF NoGaps, SendersInOrder, Sent
<1>. QED
  BY <1>3, <1>4, <1>5, <1>6 DEF PipeInv

LEMMA PipeKept == PipeInv /\ [Next]_vars => PipeInv'
<1>. SUFFICES ASSUME PipeInv, [Next]_vars PROVE PipeInv'
  OBVIOUS
<1>0. LogTypes /\ PipeTypes /\ worker \in [Worker -> Goroutine] /\ commitIndex \in Nat
      /\ Len(log) \in Nat
  BY DEF PipeInv, PipeTypes, LogTypes
<1>1. ASSUME NEW i \in commitIndex + 1 .. Len(log) + 1, i <= MaxLogLen,
             NEW c \in Commands \cup {Noop}, NEW a \in Client \cup {Nobody},
             log' = Append(SubSeq(log, 1, i - 1), NewEntry(i, c, a)),
             leader' \in BOOLEAN,
             UNCHANGED <<commitIndex, lastApplied, worker, storeVars, stopVars>>
      PROVE  PipeInv'
  <2>1. /\ log' \in Seq(Entry) /\ Len(log') = i
        /\ \A j \in 1 .. i - 1 : log'[j] = log[j]
        /\ \A j \in 1 .. Len(log') : log'[j].index = j
    BY <1>0, <1>1, AppendToLog
  <2>2. LogTypes'
    <3>1. nodeStopped' \in BOOLEAN /\ kvStopped' \in BOOLEAN
      BY <1>0, <1>1 DEF LogTypes, stopVars
    <3>2. /\ Len(log') <= MaxLogLen /\ commitIndex' \in 0 .. Len(log')
          /\ lastApplied' \in 0 .. commitIndex'
      BY <1>0, <1>1, <2>1 DEF LogTypes
    <3>. QED
      BY <1>1, <2>1, <3>1, <3>2 DEF LogTypes
  <2>3. \A j \in 1 .. commitIndex : log'[j] = log[j]
    BY <1>0, <2>1
  <2>. QED
    BY <1>0, <1>1, <2>2, <2>3, LogGrows DEF storeVars
<1>2. ASSUME NEW c \in Commands \cup {Noop}, NEW a \in Client \cup {Nobody},
             Len(log) + 1 <= MaxLogLen,
             log' = Append(log, NewEntry(Len(log) + 1, c, a)),
             leader' \in BOOLEAN,
             UNCHANGED <<commitIndex, lastApplied, worker, storeVars, stopVars>>
      PROVE  PipeInv'
  <2>1. Len(log) + 1 \in commitIndex + 1 .. Len(log) + 1
    BY <1>0 DEF LogTypes
  <2>. QED
    BY <1>0, <1>1, <1>2, <2>1, AppendAtEnd
<1>3. CASE becomeLeader
  <2>1. Len(log) + 1 <= MaxLogLen /\ leader' \in BOOLEAN
    BY <1>0, <1>3, ApplyAssumption DEF becomeLeader
  <2>. QED
    BY <1>2, <1>3, <2>1 DEF becomeLeader
<1>4. CASE Overwrite
  <2>1. PICK i \in commitIndex + 1 .. Len(log) + 1, c \in Commands :
          /\ i <= MaxLogLen
          /\ log' = Append(SubSeq(log, 1, i - 1), NewEntry(i, c, Nobody))
    BY <1>4 DEF Overwrite
  <2>2. leader' \in BOOLEAN
    BY <1>0, <1>4 DEF Overwrite, LogTypes
  <2>. QED
    BY <1>1, <1>4, <2>1, <2>2 DEF Overwrite
<1>5. ASSUME NEW x \in Client, Propose(x) PROVE PipeInv'
  <2>1. leader' \in BOOLEAN
    BY <1>0, <1>5 DEF Propose, LogTypes
  <2>. QED
    BY <1>2, <1>5, <2>1 DEF Propose
<1>6. ASSUME UNCHANGED <<log, commitIndex, lastApplied, worker, storeVars>>,
             leader' \in BOOLEAN, nodeStopped' \in BOOLEAN, kvStopped' \in BOOLEAN
      PROVE  PipeInv'
  <2>1. LogTypes'
    BY <1>0, <1>6 DEF LogTypes
  <2>. QED
    BY <1>0, <1>6, <2>1, LogGrows DEF storeVars
<1>7. ASSUME NEW k \in Worker, NEW w \in {Resting, Spawned}, NEW i \in 0 .. Len(log),
             commitIndex' = i, commitIndex <= i, worker' = [worker EXCEPT ![k] = w],
             UNCHANGED <<leader, log, lastApplied, storeVars, stopVars>>
      PROVE  PipeInv'
  <2>1. LogTypes'
    BY <1>0, <1>7 DEF LogTypes, stopVars
  <2>2. /\ worker' \in [Worker -> Goroutine]
        /\ \A x \in Worker : worker'[x] \in {worker[x], Resting, Spawned}
    BY <1>0, <1>7, RestingBatch
  <2>. QED
    BY <1>0, <1>7, <2>1, <2>2, LogGrows DEF storeVars
<1>8. ASSUME NEW k \in Worker, Commit(k) PROVE PipeInv'
  <2>1. PICK i \in commitIndex + 1 .. Len(log) : commitIndex' = i
    BY <1>8 DEF Commit
  <2>2. i \in 0 .. Len(log) /\ commitIndex <= i
    BY <1>0, <2>1
  <2>. QED
    BY <1>7, <1>8, <2>1, <2>2 DEF Commit
<1>9. ASSUME NEW k \in Worker, HeartbeatTick(k) \/ SendStopped(k) PROVE PipeInv'
  <2>1. commitIndex \in 0 .. Len(log) /\ commitIndex <= commitIndex
    BY <1>0 DEF LogTypes
  <2>. QED
    BY <1>7, <1>9, <2>1 DEF HeartbeatTick, SendStopped, raftVars
<1>10. CASE becomeFollower \/ StopKV \/ StopNode \/ \E c \in Client : ProposeFails(c)
  <2>1. UNCHANGED <<log, commitIndex, lastApplied, worker, storeVars>>
    BY <1>10 DEF becomeFollower, StopKV, StopNode, ProposeFails, raftVars
  <2>2. leader' \in BOOLEAN /\ nodeStopped' \in BOOLEAN /\ kvStopped' \in BOOLEAN
    BY <1>0, <1>10 DEF LogTypes, becomeFollower, StopKV, StopNode, ProposeFails, raftVars,
                       stopVars
  <2>. QED
    BY <1>6, <2>1, <2>2
<1>11. CASE UNCHANGED vars
  BY <1>0, <1>6, <1>11 DEF vars, raftVars, stopVars, LogTypes
<1>. QED
  BY <1>3, <1>4, <1>5, <1>8, <1>9, <1>10, <1>11, CollectKept, SendKept, MarkKept, ApplyKept
  DEF Next, WorkerStep

-----------------------------------------------------------------------------
(* A goroutine copies entries under the lock and sends them long after:    *)
(* they are still what the log holds, however often it was cut meanwhile.  *)
THEOREM OnlyCommittedSent == Spec => []OnlyCommitted
<1>1. PipeInv => OnlyCommitted
  <2>. SUFFICES ASSUME PipeInv, NEW e \in InPipeline
                PROVE  e.index <= commitIndex /\ log[e.index] = e
    BY DEF OnlyCommitted
  <2>0. LogTypes /\ PipeTypes
    BY DEF PipeInv
  <2>1. CASE \E i \in DOMAIN commitCh : e = commitCh[i]
    BY <2>0, <2>1 DEF PipeTypes
  <2>2. ASSUME NEW k \in Worker, NEW i \in DOMAIN worker[k].es, e = worker[k].es[i]
        PROVE  e.index <= commitIndex /\ log[e.index] = e
    <3>. DEFINE es == worker[k].es
    <3>1. es \in Seq(Entry) /\ Batch(worker[k], log, commitIndex)
      BY <2>0 DEF PipeTypes, Goroutine
    <3>2. i \in 1 .. Len(es) /\ es # <<>> /\ Len(es) \in Nat /\ es[1] \in Entry
      BY <2>2, <3>1
    <3>3. /\ es[i].index = es[1].index + i - 1 /\ es[i] = log[es[i].index]
          /\ es[1].index + Len(es) - 1 <= commitIndex
      BY <3>1, <3>2 DEF Batch
    <3>4. es[1].index \in Nat /\ commitIndex \in Nat
      BY <2>0, <3>2, EntryFields, ApplyAssumption DEF LogTypes
    <3>. HIDE DEF es
    <3>5. es[i].index <= commitIndex
      BY <3>2, <3>3, <3>4
    <3>. QED
      BY <2>2, <3>3, <3>5 DEF es
  <2>. QED
    BY <2>1, <2>2 DEF InPipeline
<1>. QED
  BY <1>1, PipeInitially, PipeKept, PTL DEF Spec

(* However many goroutines send at once, no index reaches the state        *)
(* machine before every smaller one has, and what is recorded as applied   *)
(* has been sent.                                                          *)
THEOREM NoGapsEver == Spec => []NoGaps
<1>1. PipeInv => NoGaps
  BY DEF PipeInv
<1>. QED
  BY <1>1, PipeInitially, PipeKept, PTL DEF Spec

-----------------------------------------------------------------------------
(* What no step takes back: what is committed, and what has arrived. *)
LEMMA Onward ==
  ASSUME PipeInv, [Next]_vars
  PROVE  /\ commitIndex <= commitIndex'
         /\ \A i \in 1 .. commitIndex : log'[i] = log[i]
         /\ \A i : Sent(i) => Sent(i)'
<1>0. LogTypes /\ PipeTypes /\ commitIndex \in Nat /\ Len(log) \in Nat /\ commitIndex <= Len(log)
  BY DEF PipeInv, LogTypes
<1>1. commitIndex <= commitIndex'
  <2>1. ASSUME NEW k \in Worker, Commit(k) PROVE commitIndex <= commitIndex'
    BY <1>0, <2>1 DEF Commit
  <2>2. \/ commitIndex' = commitIndex \/ \E k \in Worker : Commit(k)
    BY DEF Next, vars, raftVars, becomeLeader, becomeFollower, Overwrite, Propose, ProposeFails,
           HeartbeatTick, WorkerStep, CollectEntries, SendEntry, SendStopped, MarkApplied,
           ApplyEntry, StopKV, StopNode
  <2>. QED
    BY <1>0, <2>1, <2>2
<1>2. \A i \in 1 .. commitIndex : log'[i] = log[i]
  <2>1. CASE log' = log
    BY <2>1
  <2>2. ASSUME NEW i \in commitIndex + 1 .. Len(log) + 1, NEW e,
               log' = Append(SubSeq(log, 1, i - 1), e)
        PROVE  \A j \in 1 .. commitIndex : log'[j] = log[j]
    <3>. DEFINE s == SubSeq(log, 1, i - 1)
    <3>1. log \in Seq(Entry) /\ i - 1 \in 0 .. Len(log) /\ i \in Nat
      BY <1>0 DEF LogTypes
    <3>2. \A j \in 1 .. i - 1 : log[j] \in Entry
      BY <3>1
    <3>3. s \in Seq(Entry) /\ Len(s) = i - 1 /\ \A j \in 1 .. i - 1 : s[j] = log[j]
      BY <3>1, <3>2, SubSeqProperties
    <3>4. s \in Seq(Entry \cup {e}) /\ e \in Entry \cup {e}
      BY <3>3
    <3>. HIDE DEF s
    <3>5. \A j \in 1 .. Len(s) : log'[j] = s[j]
      <4>1. log' = Append(s, e)
        BY <2>2 DEF s
      <4>. QED
        BY <3>4, <4>1, AppendProperties
    <3>. QED
      BY <1>0, <3>1, <3>3, <3>5
  <2>3. ASSUME NEW e, log' = Append(log, e)
        PROVE  \A j \in 1 .. commitIndex : log'[j] = log[j]
    <3>1. Len(log) + 1 \in commitIndex + 1 .. Len(log) + 1
      BY <1>0
    <3>. QED
      BY <1>0, <2>2, <2>3, <3>1, AppendAtEnd
  <2>4. \/ log' = log \/ \E e : log' = Append(log, e)
        \/ \E i \in commitIndex + 1 .. Len(log) + 1 : \E e :
             log' = Append(SubSeq(log, 1, i - 1), e)
    <3>1. CASE becomeLeader \/ \E c \in Client : Propose(c)
      BY <3>1 DEF becomeLeader, Propose
    <3>2. CASE Overwrite
      BY <3>2 DEF Overwrite
    <3>3. \/ log' = log \/ becomeLeader \/ Overwrite \/ \E c \in Client : Propose(c)
      BY DEF Next, vars, raftVars, becomeFollower, ProposeFails,
           Commit, HeartbeatTick, WorkerStep, CollectEntries, SendEntry, SendStopped,
           MarkApplied, ApplyEntry, StopKV, StopNode
    <3>. QED
      BY <3>1, <3>2, <3>3
  <2>. QED
    BY <2>1, <2>2, <2>3, <2>4
<1>3. ASSUME NEW i, Sent(i) PROVE Sent(i)'
  <2>1. CASE \E k \in Worker : SendEntry(k)
    BY <1>3, <2>1, SendKept
  <2>2. CASE ApplyEntry
    BY <1>3, <2>2, ApplyKept DEF Sent
  <2>3. CASE UNCHANGED <<commitCh, applied>>
    BY <1>3, <2>3 DEF Sent, Arrived
  <2>4. \/ UNCHANGED <<commitCh, applied>> \/ ApplyEntry \/ \E k \in Worker : SendEntry(k)
    BY DEF Next, vars, storeVars, becomeLeader, becomeFollower, Overwrite, Propose,
           ProposeFails, Commit, HeartbeatTick, WorkerStep, CollectEntries, SendStopped,
           MarkApplied, StopKV, StopNode
  <2>. QED
    BY <2>1, <2>2, <2>3, <2>4
<1>. QED
  BY <1>1, <1>2, <1>3

-----------------------------------------------------------------------------
(* Calls of Propose.  A client is registered under the index of its call   *)
(* only; until its node steps down, its entry is there.                    *)
CallTypes ==
  /\ proposals \in [1 .. MaxLogLen -> Client \cup {Nobody}]
  /\ client \in [Client -> [pc : {"idle", "waiting", "ok", "failed"}, index : 0 .. MaxLogLen]]

CallOf(c) ==
  /\ client[c].pc # "idle" => client[c].index \in 1 .. MaxLogLen
  /\ \A i \in 1 .. MaxLogLen : proposals[i] = c => client[c].pc # "idle" /\ client[c].index = i
  /\ client[c].pc = "ok" => client[c].index <= commitIndex /\ Sent(client[c].index)
  /\ client[c].pc = "ok" /\ c \notin deposed => log[client[c].index].by = c
  /\ client[c].pc = "waiting" /\ c \notin deposed =>
       leader /\ client[c].index <= Len(log) /\ log[client[c].index].by = c

CallInv == CallTypes /\ \A c \in Client : CallOf(c)

LEMMA CallsInitially == Init => CallInv
<1>. SUFFICES ASSUME Init PROVE CallInv
  OBVIOUS
<1>. USE DEF Init
<1>1. CallTypes
  BY ApplyAssumption DEF CallTypes
<1>2. ASSUME NEW c \in Client PROVE CallOf(c)
  BY ApplyAssumption DEF CallOf
<1>. QED
  BY <1>1, <1>2 DEF CallInv

(* A step that does not touch the call of c, and leaves the log alone      *)
(* unless the node does not lead, or grows it at the end.                  *)
LEMMA CallStays ==
  ASSUME PipeInv, [Next]_vars, CallInv, NEW c \in Client,
         client'[c] = client[c],
         \A i \in 1 .. MaxLogLen : proposals'[i] = c => proposals[i] = c,
         c \notin deposed' => c \notin deposed,
         (client[c].pc = "waiting" /\ c \notin deposed') =>
            (leader' = leader /\ Len(log') >= Len(log)
             /\ \A i \in 1 .. Len(log) : log'[i] = log[i])
  PROVE  CallOf(c)'
<1>0. CallTypes /\ CallOf(c) /\ LogTypes
  BY DEF CallInv, PipeInv
<1>1. /\ commitIndex \in Nat /\ commitIndex' \in Nat /\ Len(log) \in Nat /\ Len(log') \in Nat
      /\ commitIndex <= commitIndex'
      /\ \A i \in 1 .. commitIndex : log'[i] = log[i]
      /\ \A i : Sent(i) => Sent(i)'
  BY Onward, PipeKept DEF PipeInv, LogTypes
<1>. DEFINE x == client[c].index
<1>2. x \in 0 .. MaxLogLen /\ MaxLogLen \in Nat
  BY <1>0, ApplyAssumption DEF CallTypes
<1>3. client[c].pc = "ok" => x \in 1 .. commitIndex /\ x <= commitIndex' /\ Sent(x)'
  <2>. SUFFICES ASSUME client[c].pc = "ok"
                PROVE  x \in 1 .. commitIndex /\ x <= commitIndex' /\ Sent(x)'
    OBVIOUS
  <2>1. x \in 1 .. MaxLogLen /\ x <= commitIndex /\ Sent(x)
    BY <1>0 DEF CallOf
  <2>2. Sent(x)'
    <3>1. \A i : i = x => Sent(i)'
      BY <1>1, <2>1
    <3>. QED
      BY <3>1
  <2>. QED
    BY <1>1, <1>2, <2>1, <2>2
<1>. QED
  BY <1>0, <1>1, <1>2, <1>3 DEF CallOf

LEMMA CallsKept == PipeInv /\ CallInv /\ [Next]_vars => CallInv'
<1>. SUFFICES ASSUME PipeInv, CallInv, [Next]_vars PROVE CallInv'
  OBVIOUS
<1>0. /\ LogTypes /\ PipeTypes /\ CallTypes /\ \A c \in Client : CallOf(c)
      /\ log \in Seq(Entry) /\ Len(log) \in Nat /\ MaxLogLen \in Nat
  BY ApplyAssumption DEF PipeInv, CallInv, LogTypes
<1>1. CASE UNCHANGED <<proposals, client>> /\ deposed \subseteq deposed'
           /\ (\A c \in Client : client[c].pc = "waiting" /\ c \notin deposed' =>
                 leader' = leader /\ Len(log') >= Len(log)
                 /\ \A i \in 1 .. Len(log) : log'[i] = log[i])
  BY <1>0, <1>1, CallStays DEF CallInv, CallTypes
<1>2. CASE UNCHANGED <<callVars, leader, log>>
  BY <1>0, <1>1, <1>2 DEF callVars
<1>3. CASE becomeFollower \/ StopNode
  BY <1>0, <1>1, <1>3 DEF becomeFollower, StopNode, Waiting
<1>4. CASE Overwrite
  BY <1>0, <1>1, <1>4 DEF Overwrite, callVars, CallOf
<1>5. CASE becomeLeader
  BY <1>0, <1>1, <1>5 DEF becomeLeader, callVars, CallOf
<1>6. ASSUME NEW c \in Client, ProposeFails(c) PROVE CallInv'
  <2>1. /\ client[c].pc = "waiting" /\ client' = [client EXCEPT ![c].pc = "failed"]
        /\ UNCHANGED <<proposals, deposed, leader, log>>
    BY <1>6 DEF ProposeFails, raftVars
  <2>2. CallTypes'
    BY <1>0, <2>1 DEF CallTypes
  <2>3. client'[c].pc = "failed" /\ client'[c].index = client[c].index
    BY <1>0, <2>1 DEF CallTypes
  <2>4. CallOf(c)'
    BY <1>0, <2>1, <2>3 DEF CallOf
  <2>5. ASSUME NEW x \in Client, x # c PROVE CallOf(x)'
    <3>1. client'[x] = client[x]
      BY <1>0, <2>1, <2>5 DEF CallTypes
    <3>. QED
      BY <1>0, <2>1, <3>1, CallStays
  <2>. QED
    BY <2>2, <2>4, <2>5 DEF CallInv
<1>7. ASSUME NEW c \in Client, Propose(c) PROVE CallInv'
  <2>. DEFINE i == Len(log) + 1
              r == [pc |-> "waiting", index |-> i]
  <2>1. /\ client[c].pc = "idle" /\ leader /\ i <= MaxLogLen
        /\ proposals' = [proposals EXCEPT ![i] = c]
        /\ client' = [client EXCEPT ![c] = r]
        /\ UNCHANGED <<leader, deposed>>
    BY <1>7 DEF Propose
  <2>2. PICK cmd \in Commands : log' = Append(log, NewEntry(i, cmd, c))
    BY <1>7 DEF Propose
  <2>3. i \in 1 .. MaxLogLen
    BY <1>0, <2>1
  <2>4. NewEntry(i, cmd, c) \in Entry /\ NewEntry(i, cmd, c).by = c
    BY <2>3 DEF NewEntry, Entry
  <2>5. /\ Len(log') = i /\ \A j \in 1 .. Len(log) : log'[j] = log[j]
        /\ log'[i].by = c
    BY <1>0, <2>2, <2>4, AppendProperties
  <2>6. CallTypes'
    <3>1. r \in [pc : {"idle", "waiting", "ok", "failed"}, index : 0 .. MaxLogLen]
      BY <1>0, <2>3
    <3>. QED
      BY <1>0, <2>1, <2>3, <3>1 DEF CallTypes
  <2>7. CallOf(c)'
    <3>1. client'[c].pc = "waiting" /\ client'[c].index = i
      BY <1>0, <2>1 DEF CallTypes
    <3>2. \A j \in 1 .. MaxLogLen : proposals'[j] = c => j = i
      BY <1>0, <2>1 DEF CallTypes, CallOf
    <3>. HIDE DEF i
    <3>. QED
      BY <1>0, <2>1, <2>3, <2>5, <3>1, <3>2 DEF CallOf
  <2>8. ASSUME NEW x \in Client, x # c PROVE CallOf(x)'
    <3>1. /\ client'[x] = client[x]
          /\ \A j \in 1 .. MaxLogLen : proposals'[j] = x => proposals[j] = x
      BY <1>0, <2>1, <2>3, <2>8 DEF CallTypes
    <3>2. Len(log') >= Len(log)
      BY <1>0, <2>5
    <3>. QED
      BY <2>1, <2>5, <3>1, <3>2, CallStays
  <2>. QED
    BY <2>6, <2>7, <2>8 DEF CallInv
<1>8. ASSUME NEW k \in Worker, MarkApplied(k) PROVE CallInv'
  <2>. DEFINE i == Head(worker[k].es).index
  <2>0. /\ worker[k].pc = "mark" /\ worker[k] \in Goroutine
        /\ Batch(worker[k], log, commitIndex)
    BY <1>0, <1>8 DEF MarkApplied, PipeTypes
  <2>1. /\ i \in 1 .. commitIndex /\ i = worker[k].es[1].index
    BY <1>0, <2>0, BatchHead
  <2>2. Sent(i)
    BY <2>0, <2>1 DEF PipeInv, SendersInOrder
  <2>3. /\ proposals' = [proposals EXCEPT ![i] = Nobody]
        /\ client' = [c \in Client |-> IF c = proposals[i] /\ client[c].pc = "waiting"
                                       THEN [client[c] EXCEPT !.pc = "ok"]
                                       ELSE client[c]]
        /\ UNCHANGED <<deposed, raftVars, storeVars>>
    BY <1>8 DEF MarkApplied, Notify
  <2>. HIDE DEF i
  <2>4. i \in 1 .. MaxLogLen /\ i <= Len(log)
    BY <1>0, <2>1 DEF LogTypes
  <2>5. CallTypes'
    BY <1>0, <2>3, <2>4 DEF CallTypes
  <2>6. ASSUME NEW c \in Client PROVE CallOf(c)'
    <3>1. \A j \in 1 .. MaxLogLen : proposals'[j] = c => proposals[j] = c
      BY <1>0, <2>3, <2>4, ApplyAssumption DEF CallTypes
    <3>2. CASE client'[c] = client[c]
      BY <2>3, <3>1, <3>2, CallStays DEF raftVars
    <3>3. CASE c = proposals[i] /\ client[c].pc = "waiting"
      <4>1. client[c].index = i
        BY <1>0, <2>4, <3>3 DEF CallOf
      <4>2. client'[c].pc = "ok" /\ client'[c].index = i
        BY <1>0, <2>3, <3>3, <4>1 DEF CallTypes
      <4>3. \A j : j = i => Sent(j)'
        <5>1. Arrived' = Arrived
          BY <2>3 DEF Arrived, storeVars
        <5>. QED
          BY <2>2, <5>1 DEF Sent
      <4>4. c \notin deposed => log[i].by = c
        BY <1>0, <3>3, <4>1 DEF CallOf
      <4>5. Sent(client[c].index)'
        BY <4>2, <4>3
      <4>6. UNCHANGED <<commitIndex, log, deposed>> /\ i <= commitIndex
        BY <2>1, <2>3, <1>0 DEF raftVars, LogTypes
      <4>. QED
        BY <1>0, <2>4, <3>1, <3>3, <4>1, <4>2, <4>4, <4>5, <4>6 DEF CallOf
    <3>. QED
      BY <2>3, <3>2, <3>3
  <2>. QED
    BY <2>5, <2>6 DEF CallInv
<1>9. \/ UNCHANGED <<callVars, leader, log>> \/ becomeFollower \/ StopNode \/ Overwrite
      \/ becomeLeader \/ \E c \in Client : ProposeFails(c) \/ Propose(c)
      \/ \E k \in Worker : MarkApplied(k)
  BY DEF Next, vars, raftVars, Commit, HeartbeatTick, WorkerStep, CollectEntries,
         SendEntry, SendStopped, ApplyEntry, StopKV
<1>. QED
  BY <1>2, <1>3, <1>4, <1>5, <1>6, <1>7, <1>8, <1>9

(* A client that was told success has a committed index whose entry is     *)
(* with the state machine or in its channel, whatever elections came in    *)
(* between.                                                                *)
THEOREM ConfirmedHasArrived == Spec => []ConfirmedArrives
<1>1. CallInv => ConfirmedArrives
  BY DEF CallInv, CallOf, ConfirmedArrives, Sent
<1>. QED
  BY <1>1, PipeInitially, PipeKept, CallsInitially, CallsKept, PTL DEF Spec

(* If its node has led ever since, that entry is its own. *)
THEOREM ConfirmedIsOwn == Spec => []OwnWhileLeading
<1>1. CallInv => OwnWhileLeading
  BY DEF CallInv, CallOf, OwnWhileLeading
<1>. QED
  BY <1>1, PipeInitially, PipeKept, CallsInitially, CallsKept, PTL DEF Spec

-----------------------------------------------------------------------------
(* The map.  Puts(l, n) are the entries among the first n of log l that    *)
(* change it; the last one says what is in it.                             *)
Puts(l, n) == {i \in 1 .. n : l[i].cmd # Noop}

LastPut(l, n, v) ==
  \/ Puts(l, n) = {} /\ v = NoValue
  \/ \E x \in Puts(l, n) : /\ \A y \in Puts(l, n) : y <= x
                           /\ v = Apply(NoValue, l[x].cmd)

Distinct(a) == \A h, j \in DOMAIN a : h # j => a[h] # a[j]

(* Until an entry is taken from the channel twice, entry h is the h-th to  *)
(* be applied.                                                             *)
MapFollows ==
  Distinct(applied) => /\ \A h \in 1 .. Len(applied) : applied[h] = h
                       /\ LastPut(log, Len(applied), kv)

(* Somebody sees to it that the last committed entry is sent. *)
Ends(w) == w.es # <<>> /\ w.es[1].index + Len(w.es) - 1 = commitIndex

Attended ==
  ~nodeStopped => \/ commitIndex = 0 \/ Sent(commitIndex)
                  \/ \E k \in Worker : worker[k].pc = "start" \/ Ends(worker[k])

MapInv == /\ MapFollows /\ Attended
          /\ nodeStopped => kvStopped

LEMMA PutStep ==
  ASSUME NEW l, NEW n \in Nat, NEW v, LastPut(l, n, v)
  PROVE  LastPut(l, n + 1, Apply(v, l[n + 1].cmd))
<1>1. CASE l[n + 1].cmd = Noop
  <2>1. Puts(l, n + 1) = Puts(l, n)
    BY <1>1 DEF Puts
  <2>2. Apply(v, l[n + 1].cmd) = v
    BY <1>1 DEF Apply, Noop, Delete
  <2>. QED
    BY <2>1, <2>2 DEF LastPut
<1>2. CASE l[n + 1].cmd # Noop
  <2>1. n + 1 \in Puts(l, n + 1) /\ \A y \in Puts(l, n + 1) : y <= n + 1
    BY <1>2 DEF Puts
  <2>2. Apply(v, l[n + 1].cmd) = Apply(NoValue, l[n + 1].cmd)
    BY <1>2, Zenon DEF Apply
  <2>. QED
    BY <2>1, <2>2 DEF LastPut
<1>. QED
  BY <1>1, <1>2

LEMMA PutSame ==
  ASSUME NEW l, NEW m, NEW n \in Nat, \A i \in 1 .. n : m[i] = l[i], NEW v, LastPut(l, n, v)
  PROVE  LastPut(m, n, v)
<1>1. Puts(m, n) = Puts(l, n)
  BY DEF Puts
<1>2. \A x \in Puts(l, n) : m[x] = l[x]
  BY DEF Puts
<1>. QED
  BY <1>1, <1>2 DEF LastPut

LEMMA PutReplayed ==
  ASSUME NEW v, LastPut(log, commitIndex, v), commitIndex \in Nat
  PROVE  v = Replayed
<1>. DEFINE S == {i \in 1 .. commitIndex : log[i].cmd # Noop}
<1>1. S = Puts(log, commitIndex) /\ \A x \in S : x \in Nat
  BY DEF Puts
<1>. HIDE DEF S
<1>2. CASE S = {}
  BY <1>1, <1>2 DEF LastPut, Replayed, S
<1>3. ASSUME NEW x \in S, \A y \in S : y <= x, v = Apply(NoValue, log[x].cmd)
      PROVE  v = Replayed
  <2>1. Max(S) = x
    BY <1>1, <1>3 DEF Max
  <2>. QED
    BY <1>3, <2>1 DEF Replayed, S
<1>. QED
  BY <1>1, <1>2, <1>3 DEF LastPut

LEMMA MapInitially == Init => MapInv
<1>. SUFFICES ASSUME Init PROVE MapInv
  OBVIOUS
<1>. USE DEF Init
<1>1. Len(applied) = 0 /\ Puts(log, 0) = {}
  BY DEF Puts
<1>. QED
  BY <1>1 DEF MapInv, MapFollows, Attended, LastPut

LEMMA MapFollowsKept ==
  ASSUME PipeInv, MapFollows, [Next]_vars
  PROVE  MapFollows'
<1>0. /\ LogTypes /\ PipeTypes /\ applied \in Seq(1 .. commitIndex)
      /\ commitIndex \in Nat /\ Len(applied) \in Nat
  BY DEF PipeInv, LogTypes, PipeTypes
<1>1. CASE UNCHANGED <<applied, kv>>
  <2>1. Distinct(applied) => Len(applied) <= commitIndex
    BY <1>0 DEF MapFollows
  <2>2. Distinct(applied) => \A i \in 1 .. Len(applied) : log'[i] = log[i]
    BY <1>0, <2>1, Onward
  <2>3. Distinct(applied) => LastPut(log', Len(applied), kv)
    BY <1>0, <2>2, PutSame DEF MapFollows
  <2>. QED
    BY <1>1, <2>3 DEF MapFollows
<1>2. CASE ApplyEntry
  <2>. DEFINE e == Head(commitCh)
              n == Len(applied)
  <2>1. /\ commitCh # <<>> /\ applied' = Append(applied, e.index)
        /\ kv' = Apply(kv, e.cmd) /\ UNCHANGED log
    BY <1>2 DEF ApplyEntry, raftVars
  <2>2. /\ commitCh \in Seq(Entry) /\ e = commitCh[1] /\ Len(commitCh) \in Nat \ {0}
        /\ e \in Entry
    BY <1>0, <2>1 DEF PipeTypes
  <2>3. log[e.index] = e /\ e.index \in Nat \ {0}
    BY <1>0, <2>2, EntryFields, ApplyAssumption DEF PipeTypes
  <2>4. /\ Len(applied') = n + 1 /\ applied'[n + 1] = e.index
        /\ \A h \in 1 .. n : applied'[h] = applied[h]
        /\ DOMAIN applied' = 1 .. n + 1 /\ DOMAIN applied = 1 .. n
    BY <1>0, <2>1, <2>3, AppendProperties
  <2>. SUFFICES ASSUME Distinct(applied)'
                PROVE  /\ \A h \in 1 .. Len(applied') : applied'[h] = h
                       /\ LastPut(log', Len(applied'), kv')
    BY DEF MapFollows
  <2>5. Distinct(applied)
    BY <1>0, <2>4 DEF Distinct
  <2>6. \A h \in 1 .. n : applied[h] = h
    BY <2>5 DEF MapFollows
  <2>7. e.index = n + 1
    <3>1. e.index \notin 1 .. n
      <4>. SUFFICES ASSUME e.index \in 1 .. n PROVE FALSE
        OBVIOUS
      <4>1. applied'[e.index] = e.index /\ e.index # n + 1
        BY <1>0, <2>4, <2>6
      <4>2. e.index \in DOMAIN applied' /\ n + 1 \in DOMAIN applied'
        BY <1>0, <2>4
      <4>3. \A h, j \in DOMAIN applied' : h # j => applied'[h] # applied'[j]
        BY DEF Distinct
      <4>. HIDE DEF e, n
      <4>. QED
        BY <2>4, <4>1, <4>2, <4>3
    <3>2. ASSUME NEW i \in 1 .. e.index - 1 PROVE i \in 1 .. n
      <4>1. /\ Arrived = ArrivedBy(applied, commitCh)
            /\ applied \in Seq(Nat) /\ commitCh \in Seq(Entry)
        BY <1>0, ArrivedSeq
      <4>2. n + 1 \in 1 .. n + Len(commitCh) /\ ~(n + 1 <= n) /\ (n + 1) - n = 1
        BY <1>0, <2>2
      <4>3. n + 1 \in DOMAIN Arrived /\ Arrived[n + 1] = e.index
        <5>1. /\ DOMAIN Arrived = 1 .. n + Len(commitCh)
              /\ \A h \in 1 .. n + Len(commitCh) :
                   Arrived[h] = IF h <= n THEN applied[h] ELSE commitCh[h - n].index
          BY <4>1, ArrivedBySeq
        <5>2. Arrived[n + 1] = IF n + 1 <= n THEN applied[n + 1]
                               ELSE commitCh[(n + 1) - n].index
          BY <4>2, <5>1
        <5>. QED
          BY <2>2, <4>2, <5>1, <5>2
      <4>4. PICK h \in 1 .. (n + 1) - 1 : Arrived[h] = i
        BY <4>3 DEF PipeInv, NoGaps
      <4>5. h \in 1 .. n /\ h \in 1 .. n + Len(commitCh) /\ h <= n
        BY <1>0, <2>2, <4>4
      <4>6. Arrived[h] = applied[h]
        BY <4>1, <4>5, ArrivedBySeq
      <4>. QED
        BY <2>6, <4>4, <4>5, <4>6
    <3>. HIDE DEF e
    <3>3. CASE e.index > n + 1
      <4>1. n + 1 \in 1 .. e.index - 1
        BY <1>0, <2>3, <3>3
      <4>. QED
        BY <1>0, <3>2, <4>1
    <3>. QED
      BY <1>0, <2>3, <3>1, <3>3
  <2>8. LastPut(log, n + 1, Apply(kv, log[n + 1].cmd))
    BY <1>0, <2>5, PutStep DEF MapFollows
  <2>9. \A h \in 1 .. n + 1 : applied'[h] = h
    BY <1>0, <2>4, <2>6, <2>7
  <2>. QED
    BY <2>1, <2>3, <2>4, <2>7, <2>8, <2>9
<1>3. UNCHANGED <<applied, kv>> \/ ApplyEntry
  BY DEF Next, vars, storeVars, becomeLeader, becomeFollower, Overwrite, Propose,
         ProposeFails, Commit, HeartbeatTick, WorkerStep, CollectEntries, SendEntry,
         SendStopped, MarkApplied, StopKV, StopNode
<1>. QED
  BY <1>1, <1>2, <1>3

LEMMA AttendedKept ==
  ASSUME PipeInv, Attended, [Next]_vars
  PROVE  Attended'
<1>. SUFFICES ASSUME ~nodeStopped'
              PROVE  \/ commitIndex' = 0 \/ Sent(commitIndex)'
                     \/ \E k \in Worker : worker'[k].pc = "start" \/ Ends(worker[k])'
  BY DEF Attended
<1>0. /\ LogTypes /\ PipeTypes /\ worker \in [Worker -> Goroutine]
      /\ commitIndex \in Nat /\ lastApplied \in Nat
  BY DEF PipeInv, LogTypes, PipeTypes
<1>1. ~nodeStopped
  BY DEF Next, vars, stopVars, becomeLeader, becomeFollower, Overwrite, Propose,
         ProposeFails, Commit, HeartbeatTick, WorkerStep, CollectEntries, SendEntry,
         SendStopped, MarkApplied, ApplyEntry, StopKV, StopNode
<1>2. \/ commitIndex = 0 \/ Sent(commitIndex)
      \/ \E k \in Worker : worker[k].pc = "start" \/ Ends(worker[k])
  BY <1>1 DEF Attended
<1>3. ASSUME NEW k \in Worker, Commit(k)
      PROVE  worker'[k].pc = "start"
  BY <1>0, <1>3 DEF Commit, Spawned
<1>4. ASSUME commitIndex' = commitIndex,
             \A k \in Worker : worker[k].pc = "start" \/ Ends(worker[k]) =>
               \/ commitIndex = 0 \/ Sent(commitIndex)
               \/ worker'[k].pc = "start" \/ Ends(worker[k])'
      PROVE  \/ commitIndex' = 0 \/ Sent(commitIndex)'
             \/ \E k \in Worker : worker'[k].pc = "start" \/ Ends(worker[k])'
  <2>1. Sent(commitIndex) => Sent(commitIndex)'
    <3>1. \A i : Sent(i) => Sent(i)'
      BY Onward
    <3>. QED
      BY <1>4, <3>1 DEF Sent
  <2>. QED
    BY <1>2, <1>4, <2>1
<1>5. ASSUME NEW k \in Worker, commitIndex' = commitIndex,
             \A x \in Worker \ {k} : worker'[x] = worker[x],
             worker[k].pc = "start" \/ Ends(worker[k]) =>
               \/ commitIndex = 0 \/ Sent(commitIndex)
               \/ worker'[k].pc = "start" \/ Ends(worker[k])'
      PROVE  \/ commitIndex' = 0 \/ Sent(commitIndex)'
             \/ \E x \in Worker : worker'[x].pc = "start" \/ Ends(worker[x])'
  BY <1>4, <1>5 DEF Ends
<1>6. ASSUME NEW k \in Worker, HeartbeatTick(k)
      PROVE  \/ commitIndex' = 0 \/ Sent(commitIndex)'
             \/ \E x \in Worker : worker'[x].pc = "start" \/ Ends(worker[x])'
  <2>1. worker'[k].pc = "start"
    BY <1>0, <1>6 DEF HeartbeatTick, Spawned
  <2>. QED
    BY <2>1
<1>7. ASSUME NEW k \in Worker, CollectEntries(k)
      PROVE  \/ commitIndex' = 0 \/ Sent(commitIndex)'
             \/ \E x \in Worker : worker'[x].pc = "start" \/ Ends(worker[x])'
  <2>. DEFINE es == SubSeq(log, lastApplied + 1, commitIndex)
  <2>1. /\ worker' = [worker EXCEPT ![k] = IF es = <<>> THEN Resting
                                          ELSE [pc |-> "send", es |-> es]]
        /\ commitIndex' = commitIndex
    BY <1>7 DEF CollectEntries, Goto, raftVars
  <2>2. \A i \in lastApplied + 1 .. commitIndex : log[i] \in Entry /\ log[i].index = i
    BY <1>0 DEF LogTypes
  <2>3. /\ es \in Seq(Entry)
        /\ Len(es) = IF lastApplied + 1 <= commitIndex
                     THEN commitIndex - (lastApplied + 1) + 1 ELSE 0
        /\ \A j \in 1 .. commitIndex - (lastApplied + 1) + 1 :
             es[j] = log[(lastApplied + 1) + j - 1]
    BY <1>0, <2>2, SubSeqProperties
  <2>. HIDE DEF es
  <2>4. CASE es = <<>>
    <3>1. Len(es) = 0
      BY <2>4
    <3>2. lastApplied = commitIndex
      BY <1>0, <2>3, <3>1 DEF LogTypes
    <3>3. commitIndex = 0 \/ Sent(commitIndex)
      BY <1>0, <3>2 DEF PipeInv, NoGaps, Sent
    <3>. QED
      BY <1>5, <2>1, <3>3
  <2>5. CASE es # <<>>
    <3>1. Len(es) \in Nat \ {0}
      BY <2>3, <2>5
    <3>2. lastApplied + 1 <= commitIndex /\ Len(es) = commitIndex - lastApplied
      BY <1>0, <2>3, <3>1
    <3>3. es[1] = log[(lastApplied + 1) + 1 - 1]
      BY <1>0, <2>3, <3>2
    <3>4. es[1].index = lastApplied + 1
      BY <1>0, <2>2, <3>2, <3>3
    <3>5. worker'[k].es = es
      BY <1>0, <2>1, <2>5
    <3>6. Ends(worker[k])'
      BY <1>0, <2>1, <2>5, <3>2, <3>4, <3>5 DEF Ends
    <3>. QED
      BY <3>6
  <2>. QED
    BY <2>4, <2>5
<1>8. ASSUME NEW k \in Worker, SendEntry(k)
      PROVE  \/ commitIndex' = 0 \/ Sent(commitIndex)'
             \/ \E x \in Worker : worker'[x].pc = "start" \/ Ends(worker[x])'
  <2>1. /\ worker[k].pc = "send" /\ worker' = [worker EXCEPT ![k].pc = "mark"]
        /\ commitIndex' = commitIndex
    BY <1>8 DEF SendEntry, raftVars
  <2>2. worker'[k].es = worker[k].es /\ \A x \in Worker \ {k} : worker'[x] = worker[x]
    BY <1>0, <2>1 DEF Goroutine
  <2>. QED
    BY <1>5, <2>1, <2>2 DEF Ends
<1>9. ASSUME NEW k \in Worker, MarkApplied(k)
      PROVE  \/ commitIndex' = 0 \/ Sent(commitIndex)'
             \/ \E x \in Worker : worker'[x].pc = "start" \/ Ends(worker[x])'
  <2>. DEFINE es == worker[k].es
              t == Tail(es)
  <2>1. /\ worker[k].pc = "mark" /\ commitIndex' = commitIndex
        /\ worker' = [worker EXCEPT ![k] = IF t = <<>> THEN Resting
                                          ELSE [pc |-> "send", es |-> t]]
    BY <1>9 DEF MarkApplied, Goto, raftVars
  <2>2. worker[k] \in Goroutine /\ Batch(worker[k], log, commitIndex)
    BY <1>0 DEF PipeTypes
  <2>3. es \in Seq(Entry) /\ es # <<>> /\ Len(es) \in Nat \ {0}
    BY <2>1, <2>2 DEF Goroutine, Batch
  <2>4. Len(t) = Len(es) - 1
    BY <2>3, HeadTailProperties
  <2>5. /\ Head(es) = es[1] /\ es[1].index \in 1 .. commitIndex
        /\ t # <<>> => t[1].index = es[1].index + 1
    BY <1>0, <2>1, <2>2, BatchHead
  <2>6. Sent(es[1].index)
    BY <2>1, <2>5 DEF PipeInv, SendersInOrder
  <2>7. \A x \in Worker \ {k} : worker'[x] = worker[x]
    BY <1>0, <2>1
  <2>8. CASE t = <<>>
    <3>1. Len(t) = 0
      <4>. HIDE DEF t
      <4>. QED
        BY <2>8
    <3>2. Len(es) = 1
      BY <2>3, <2>4, <3>1
    <3>3. Ends(worker[k]) => Sent(commitIndex)
      BY <1>0, <2>5, <2>6, <3>2 DEF Ends
    <3>. QED
      BY <1>5, <2>1, <2>7, <3>3
  <2>9. CASE t # <<>>
    <3>1. worker'[k].es = t
      BY <1>0, <2>1, <2>9
    <3>. HIDE DEF t, es
    <3>. DEFINE x == es[1].index
                y == t[1].index
                m == Len(t)
                n == Len(es)
    <3>2. x \in Int /\ n \in Int /\ y = x + 1 /\ m = n - 1
      BY <1>0, <2>3, <2>4, <2>5, <2>9
    <3>3. y + m - 1 = x + n - 1
      <4>. HIDE DEF x, y, m, n
      <4>. QED
        BY <3>2
    <3>4. Ends(worker[k]) => Ends(worker[k])'
      BY <2>1, <2>9, <3>1, <3>3 DEF Ends, es
    <3>. QED
      BY <1>5, <2>1, <2>7, <3>4
  <2>. QED
    BY <2>8, <2>9
<1>10. CASE UNCHANGED <<commitIndex, worker>>
  BY <1>4, <1>10 DEF Ends
<1>11. \/ UNCHANGED <<commitIndex, worker>>
       \/ \E k \in Worker : \/ Commit(k) \/ HeartbeatTick(k) \/ CollectEntries(k)
                            \/ SendEntry(k) \/ MarkApplied(k)
  BY <1>1 DEF Next, vars, raftVars, becomeLeader, becomeFollower, Overwrite, Propose,
         ProposeFails, WorkerStep, SendStopped, ApplyEntry, StopKV, StopNode
<1>. QED
  BY <1>3, <1>6, <1>7, <1>8, <1>9, <1>10, <1>11

LEMMA MapKept == PipeInv /\ MapInv /\ [Next]_vars => MapInv'
<1>. SUFFICES ASSUME PipeInv, MapInv, [Next]_vars PROVE MapInv'
  OBVIOUS
<1>1. (nodeStopped => kvStopped)'
  BY DEF MapInv, Next, vars, stopVars, becomeLeader, becomeFollower, Overwrite, Propose,
         ProposeFails, Commit, HeartbeatTick, WorkerStep, CollectEntries, SendEntry,
         SendStopped, MarkApplied, ApplyEntry, StopKV, StopNode
<1>. QED
  BY <1>1, MapFollowsKept, AttendedKept DEF MapInv

(* When nothing is on its way, the map is what the committed entries make  *)
(* of an empty one, unless an entry was delivered twice: none is left out  *)
(* and none comes too early.                                               *)
THEOREM MapIsReplayed == Spec => []MapFollowsLog
<1>1. PipeInv /\ MapInv => MapFollowsLog
  <2>. SUFFICES ASSUME PipeInv, MapInv, commitCh = <<>>, ~kvStopped,
                       \A k \in Worker : worker[k] = Resting,
                       \A h, j \in DOMAIN applied : h # j => applied[h] # applied[j]
                PROVE  kv = Replayed
    BY DEF MapFollowsLog
  <2>0. /\ LogTypes /\ PipeTypes /\ applied \in Seq(1 .. commitIndex)
        /\ commitIndex \in Nat /\ Len(applied) \in Nat
    BY DEF PipeInv, LogTypes, PipeTypes
  <2>1. /\ \A h \in 1 .. Len(applied) : applied[h] = h
        /\ LastPut(log, Len(applied), kv)
    BY DEF MapInv, MapFollows, Distinct
  <2>2. commitIndex = 0 \/ Sent(commitIndex)
    <3>1. ~nodeStopped
      BY DEF MapInv
    <3>2. \A k \in Worker : worker[k].pc # "start" /\ ~Ends(worker[k])
      BY DEF Resting, Ends
    <3>. QED
      BY <3>1, <3>2 DEF MapInv, Attended
  <2>3. Len(applied) <= commitIndex
    <3>1. CASE Len(applied) = 0
      BY <2>0, <3>1
    <3>2. CASE Len(applied) # 0
      BY <2>0, <2>1, <3>2
    <3>. QED
      BY <3>1, <3>2
  <2>4. CASE Sent(commitIndex)
    <3>1. /\ Arrived = ArrivedBy(applied, commitCh)
          /\ applied \in Seq(Nat) /\ commitCh \in Seq(Entry) /\ Len(commitCh) = 0
      BY <2>0, ArrivedSeq
    <3>2. /\ DOMAIN Arrived = 1 .. Len(applied) + Len(commitCh)
          /\ \A h \in 1 .. Len(applied) + Len(commitCh) :
               Arrived[h] = IF h <= Len(applied) THEN applied[h]
                            ELSE commitCh[h - Len(applied)].index
      BY <3>1, ArrivedBySeq
    <3>3. PICK h \in DOMAIN Arrived : Arrived[h] = commitIndex
      BY <2>4 DEF Sent
    <3>4. h \in 1 .. Len(applied) /\ applied[h] = commitIndex
      BY <2>0, <3>1, <3>2, <3>3
    <3>. QED
      BY <2>0, <2>1, <2>3, <3>4, PutReplayed
  <2>5. CASE commitIndex = 0
    BY <2>0, <2>1, <2>3, <2>5, PutReplayed
  <2>. QED
    BY <2>2, <2>4, <2>5
<1>. QED
  BY <1>1, PipeInitially, PipeKept, MapInitially, MapKept, PTL DEF Spec

-----------------------------------------------------------------------------
(* The view.  What it holds before it has its entries, and that what it    *)
(* takes for committed or applied stays so.                                *)
ViewTypes ==
  /\ view \in [step : {"none", "status", "last", "shown"}, limit : Nat, commit : Nat,
               applied : Nat, last : Nat, cut : BOOLEAN, entries : Seq(Entry)]
  /\ view.commit <= commitIndex
  /\ \A i \in 1 .. view.applied : Sent(i)
  /\ view.step # "none" => view.limit >= 1
  /\ view.step = "last" => view.last >= 1
  /\ view.step # "shown" => view.entries = <<>>

ViewInv == ViewTypes /\ ViewHolds

(* Looking at the node changes nothing of it. *)
LEMMA LookStutters == [ViewNext]_viewVars => [Next]_vars
BY DEF ViewNext, viewVars, Look, Status, LastIndex, GetEntries, Work

LEMMA ViewInitially == ViewInit => ViewInv
<1>. SUFFICES ASSUME ViewInit PROVE ViewInv
  OBVIOUS
<1>1. view = NoView /\ commitIndex = 0
  BY DEF ViewInit, Init
<1>2. <<>> \in Seq(Entry) /\ \A j \in DOMAIN <<>> : FALSE
  OBVIOUS
<1>3. ViewTypes
  BY <1>1, <1>2 DEF ViewTypes, NoView
<1>4. ViewHolds
  BY <1>1, <1>2 DEF ViewHolds, CommittedShown, Shown, TailShown, NoView
<1>. QED
  BY <1>3, <1>4 DEF ViewInv

(* Steps that leave the view's entries alone. *)
LEMMA CommittedStays ==
  ASSUME PipeInv, [Next]_vars, ViewInv, view'.entries = view.entries,
         \/ view'.commit = view.commit /\ view'.applied = view.applied
         \/ view.entries = <<>>
  PROVE  CommittedShown'
<1>1. CASE view.entries = <<>>
  <2>1. \A j \in DOMAIN view'.entries : FALSE
    BY <1>1
  <2>. QED
    BY <2>1 DEF CommittedShown, Shown
<1>2. CASE view'.commit = view.commit /\ view'.applied = view.applied
  <2>0. /\ view.entries \in Seq(Entry) /\ commitIndex \in Nat /\ commitIndex' \in Nat
        /\ view.commit \in Nat /\ view.applied \in Nat
        /\ \A j \in 1 .. Len(view.entries) : view.entries[j].index \in Nat \ {0}
    BY PipeKept, EntryFields, ApplyAssumption DEF PipeInv, LogTypes, ViewInv, ViewTypes
  <2>1. ASSUME NEW e \in Shown(view.commit)'
        PROVE  e.index <= commitIndex' /\ log'[e.index] = e
    <3>1. e \in Shown(view.commit) /\ e.index \in Nat \ {0}
      BY <1>2, <2>0, <2>1 DEF Shown
    <3>2. e.index <= commitIndex /\ log[e.index] = e
      BY <3>1 DEF ViewInv, ViewHolds, CommittedShown
    <3>. QED
      BY <2>0, <3>1, <3>2, Onward
  <2>2. ASSUME NEW e \in Shown(view.applied)'
        PROVE  \E h \in DOMAIN Arrived' : Arrived'[h] = e.index
    <3>1. e \in Shown(view.applied)
      BY <1>2, <2>2 DEF Shown
    <3>2. Sent(e.index)
      BY <3>1 DEF ViewInv, ViewHolds, CommittedShown, Sent
    <3>3. \A i : i = e.index => Sent(i)'
      BY <3>2, Onward
    <3>. QED
      BY <3>3 DEF Sent
  <2>. QED
    BY <2>1, <2>2 DEF CommittedShown
<1>. QED
  BY <1>1, <1>2

LEMMA WorkKept == ASSUME PipeInv, ViewInv, Work PROVE ViewInv'
<1>0. [Next]_vars
  BY DEF Work
<1>1. view' \in {view, [view EXCEPT !.cut = TRUE]} /\ (view.step # "last" => view' = view)
  BY DEF Work
<1>2. /\ view' \in [step : {"none", "status", "last", "shown"}, limit : Nat, commit : Nat,
                    applied : Nat, last : Nat, cut : BOOLEAN, entries : Seq(Entry)]
      /\ view'.step = view.step /\ view'.limit = view.limit /\ view'.commit = view.commit
      /\ view'.applied = view.applied /\ view'.last = view.last
      /\ view'.entries = view.entries
  BY <1>1 DEF ViewInv, ViewTypes
<1>3. view'.commit <= commitIndex'
  <2>1. commitIndex \in Nat /\ commitIndex' \in Nat /\ view.commit \in Nat
    BY <1>0, PipeKept DEF PipeInv, LogTypes, ViewInv, ViewTypes
  <2>. QED
    BY <1>0, <1>2, <2>1, Onward DEF ViewInv, ViewTypes
<1>4. \A i \in 1 .. view'.applied : Sent(i)'
  BY <1>0, <1>2, Onward DEF ViewInv, ViewTypes
<1>5. ViewTypes'
  BY <1>2, <1>3, <1>4 DEF ViewInv, ViewTypes
<1>6. TailShown'
  <2>1. CASE view' = view
    BY <2>1 DEF ViewInv, ViewHolds, TailShown
  <2>2. CASE view.step = "last"
    BY <1>2, <2>2 DEF TailShown
  <2>. QED
    BY <1>1, <2>1, <2>2
<1>. QED
  BY <1>0, <1>2, <1>5, <1>6, CommittedStays DEF ViewInv, ViewHolds

(* The entries that GetEntries takes. *)
LEMMA TailOfLog ==
  ASSUME LogTypes, NEW m \in Nat \ {0}, NEW n \in 1 .. Len(log)
  PROVE  LET f == IF m < n THEN n - m + 1 ELSE 1
             es == SubSeq(log, f, n)
         IN  /\ es \in Seq(Entry) /\ es # <<>>
             /\ Len(es) = Min({m, n})
             /\ \A j \in 1 .. Len(es) : /\ es[j].index = n - Len(es) + j
                                        /\ es[j] = log[es[j].index]
<1>. DEFINE f == IF m < n THEN n - m + 1 ELSE 1
            es == SubSeq(log, f, n)
<1>0. log \in Seq(Entry) /\ Len(log) \in Nat /\ n \in Nat \ {0} /\ n <= Len(log)
  BY DEF LogTypes
<1>1. f \in 1 .. n /\ f = IF m < n THEN n - m + 1 ELSE 1
  BY <1>0
<1>. HIDE DEF f
<1>2. es = SubSeq(log, f, n)
  OBVIOUS
<1>. HIDE DEF es
<1>3. \A i \in f .. n : log[i] \in Entry
  BY <1>0, <1>1
<1>4. /\ es \in Seq(Entry) /\ Len(es) = n - f + 1
      /\ \A j \in 1 .. n - f + 1 : es[j] = log[f + j - 1]
  BY <1>0, <1>1, <1>2, <1>3, SubSeqProperties
<1>5. Len(es) = IF m < n THEN m ELSE n
  BY <1>0, <1>1, <1>4
<1>6. Min({m, n}) = IF m < n THEN m ELSE n
  BY <1>0 DEF Min
<1>7. ASSUME NEW j \in 1 .. Len(es)
      PROVE  es[j].index = n - Len(es) + j /\ es[j] = log[es[j].index]
  <2>1. f + j - 1 \in 1 .. Len(log) /\ f + j - 1 = n - Len(es) + j
    BY <1>0, <1>1, <1>4
  <2>2. es[j] = log[f + j - 1]
    BY <1>4
  <2>3. log[f + j - 1].index = f + j - 1
    BY <2>1 DEF LogTypes
  <2>. QED
    BY <2>1, <2>2, <2>3
<1>8. es # <<>>
  <2>1. Len(es) # 0
    BY <1>0, <1>5
  <2>. QED
    BY <2>1
<1>. QED
  BY <1>4, <1>5, <1>6, <1>7, <1>8 DEF f, es

LEMMA LookKept == ASSUME PipeInv, ViewInv, Look PROVE ViewInv'
<1>a. UNCHANGED vars
  BY DEF Look, Status, LastIndex, GetEntries
<1>b. LogTypes
  BY DEF PipeInv
<1>0. /\ UNCHANGED vars /\ LogTypes /\ commitIndex \in Nat /\ lastApplied \in Nat
      /\ lastApplied <= commitIndex /\ Len(log) \in Nat /\ commitIndex <= Len(log)
  BY <1>a, <1>b DEF LogTypes
<1>1. /\ commitIndex' = commitIndex /\ log' = log
      /\ (\A i : Sent(i)' <=> Sent(i)) /\ Arrived' = Arrived
  BY <1>0 DEF vars, raftVars, storeVars, Sent, Arrived
<1>2. CASE Status
  <2>1. PICK n \in Limits :
          view' = [NoView EXCEPT !.step = "status", !.limit = n,
                                 !.commit = commitIndex, !.applied = lastApplied]
    BY <1>2 DEF Status
  <2>2. n \in Nat /\ n >= 1 /\ <<>> \in Seq(Entry) /\ view.entries = <<>>
    BY <1>2, LimitAssumption DEF Status, ViewInv, ViewTypes
  <2>3. /\ view' \in [step : {"none", "status", "last", "shown"}, limit : Nat, commit : Nat,
                      applied : Nat, last : Nat, cut : BOOLEAN, entries : Seq(Entry)]
        /\ view'.step = "status" /\ view'.limit = n /\ view'.commit = commitIndex
        /\ view'.applied = lastApplied /\ view'.entries = <<>>
    BY <1>0, <2>1, <2>2 DEF NoView
  <2>4. \A i \in 1 .. lastApplied : Sent(i)'
    BY <1>1 DEF PipeInv, NoGaps, Sent
  <2>5. ViewTypes'
    BY <1>0, <1>1, <2>2, <2>3, <2>4 DEF ViewTypes
  <2>6. TailShown'
    BY <2>3 DEF TailShown
  <2>. QED
    BY <1>0, <2>2, <2>3, <2>5, <2>6, CommittedStays DEF ViewInv, ViewHolds
<1>3. CASE LastIndex
  <2>1. PICK l \in IF leader THEN {Len(log)} ELSE commitIndex .. Len(log) :
          view' = [view EXCEPT !.step = IF l = 0 THEN "shown" ELSE "last", !.last = l]
    BY <1>3 DEF LastIndex
  <2>2. l \in Nat /\ view.step = "status" /\ view.entries = <<>>
    BY <1>0, <1>3, <2>1 DEF LastIndex, ViewInv, ViewTypes
  <2>3. /\ view' \in [step : {"none", "status", "last", "shown"}, limit : Nat, commit : Nat,
                      applied : Nat, last : Nat, cut : BOOLEAN, entries : Seq(Entry)]
        /\ view'.limit = view.limit /\ view'.commit = view.commit
        /\ view'.applied = view.applied /\ view'.entries = <<>> /\ view'.last = l
        /\ view'.step = IF l = 0 THEN "shown" ELSE "last"
    BY <2>1, <2>2 DEF ViewInv, ViewTypes
  <2>4. ViewTypes'
    BY <1>1, <2>2, <2>3 DEF ViewInv, ViewTypes
  <2>5. TailShown'
    BY <2>2, <2>3 DEF TailShown
  <2>. QED
    BY <1>0, <2>2, <2>3, <2>4, <2>5, CommittedStays DEF ViewInv, ViewHolds
<1>4. CASE GetEntries
  <2>0. /\ view.step = "last" /\ view.last \in Nat \ {0} /\ view.limit \in Nat \ {0}
        /\ view.entries = <<>>
    BY <1>4 DEF GetEntries, ViewInv, ViewTypes
  <2>1. CASE view.cut /\ view' = [view EXCEPT !.step = "shown"]
    <3>1. /\ view' \in [step : {"none", "status", "last", "shown"}, limit : Nat,
                        commit : Nat, applied : Nat, last : Nat, cut : BOOLEAN,
                        entries : Seq(Entry)]
          /\ view'.limit = view.limit /\ view'.commit = view.commit /\ view'.cut
          /\ view'.applied = view.applied /\ view'.entries = <<>> /\ view'.step = "shown"
      BY <2>0, <2>1 DEF ViewInv, ViewTypes
    <3>2. ViewTypes'
      BY <1>1, <2>0, <3>1 DEF ViewInv, ViewTypes
    <3>3. TailShown'
      BY <3>1 DEF TailShown
    <3>. QED
      BY <1>0, <2>0, <3>1, <3>2, <3>3, CommittedStays DEF ViewInv, ViewHolds
  <2>2. CASE /\ view.last <= Len(log)
             /\ view' = [view EXCEPT !.step = "shown",
                                     !.entries = SubSeq(log, First(view), view.last)]
    <3>. DEFINE es == SubSeq(log, First(view), view.last)
    <3>1. /\ es \in Seq(Entry) /\ es # <<>>
          /\ Len(es) = Min({view.limit, view.last})
          /\ \A j \in 1 .. Len(es) : /\ es[j].index = view.last - Len(es) + j
                                     /\ es[j] = log[es[j].index]
      <4>1. view.last \in 1 .. Len(log)
        BY <1>0, <2>0, <2>2
      <4>. QED
        BY <1>b, <2>0, <4>1, TailOfLog DEF First
    <3>. HIDE DEF es
    <3>2. /\ view' \in [step : {"none", "status", "last", "shown"}, limit : Nat,
                        commit : Nat, applied : Nat, last : Nat, cut : BOOLEAN,
                        entries : Seq(Entry)]
          /\ view'.limit = view.limit /\ view'.commit = view.commit
          /\ view'.applied = view.applied /\ view'.entries = es /\ view'.step = "shown"
          /\ view'.last = view.last
      BY <2>0, <2>2, <3>1 DEF ViewInv, ViewTypes, es
    <3>3. ViewTypes'
      BY <1>1, <2>0, <3>2 DEF ViewInv, ViewTypes
    <3>4. DOMAIN es = 1 .. Len(es)
      BY <3>1
    <3>5. TailShown'
      BY <3>1, <3>2, <3>4 DEF TailShown
    <3>6. \A j \in 1 .. Len(es) : es[j].index \in Nat \ {0}
      BY <3>1, EntryFields, ApplyAssumption
    <3>7. /\ view.commit \in Nat /\ view.commit <= commitIndex /\ view.applied \in Nat
          /\ \A i \in 1 .. view.applied : Sent(i)
      BY DEF ViewInv, ViewTypes
    <3>8. ASSUME NEW e \in Shown(view.commit)'
          PROVE  e.index <= commitIndex' /\ log'[e.index] = e
      <4>1. PICK j \in 1 .. Len(es) : e = es[j] /\ es[j].index <= view.commit
        BY <3>2, <3>4, <3>8 DEF Shown
      <4>2. e.index \in Nat /\ e.index <= view.commit /\ log[e.index] = e
        BY <3>1, <3>6, <4>1
      <4>. QED
        BY <1>0, <1>1, <3>7, <4>2
    <3>9. ASSUME NEW e \in Shown(view.applied)'
          PROVE  \E h \in DOMAIN Arrived' : Arrived'[h] = e.index
      <4>1. e.index \in 1 .. view.applied
        BY <3>2, <3>4, <3>6, <3>7, <3>9 DEF Shown
      <4>. QED
        BY <1>1, <3>7, <4>1 DEF Sent
    <3>. QED
      BY <3>3, <3>5, <3>8, <3>9 DEF ViewInv, ViewHolds, CommittedShown
  <2>. QED
    BY <1>4, <2>1, <2>2 DEF GetEntries
<1>. QED
  BY <1>2, <1>3, <1>4 DEF Look

LEMMA ViewKept == PipeInv /\ ViewInv /\ [ViewNext]_viewVars => ViewInv'
<1>. SUFFICES ASSUME PipeInv, ViewInv, [ViewNext]_viewVars PROVE ViewInv'
  OBVIOUS
<1>1. CASE UNCHANGED viewVars
  <2>1. /\ view' = view /\ commitIndex' = commitIndex /\ Arrived' = Arrived
        /\ log' = log
    BY <1>1 DEF viewVars, vars, raftVars, storeVars, Arrived
  <2>2. ViewTypes'
    BY <2>1 DEF ViewInv, ViewTypes, Sent
  <2>3. TailShown'
    BY <2>1 DEF ViewInv, ViewHolds, TailShown
  <2>4. [Next]_vars
    BY <1>1 DEF viewVars
  <2>. QED
    BY <2>1, <2>2, <2>3, <2>4, CommittedStays DEF ViewInv, ViewHolds
<1>. QED
  BY <1>1, LookKept, WorkKept DEF ViewNext

(* What the dashboard shows as committed or applied is so and stays so,    *)
(* and it shows the last entries without a gap, though the status, the     *)
(* last index and the entries are read one after the other.                *)
THEOREM ViewsHold == ViewSpec => []ViewHolds
<1>1. ViewInit => PipeInv
  BY PipeInitially DEF ViewInit
<1>2. PipeInv /\ [ViewNext]_viewVars => PipeInv'
  BY LookStutters, PipeKept
<1>3. ViewInv => ViewHolds
  BY DEF ViewInv
<1>. QED
  BY <1>1, <1>2, <1>3, ViewInitially, ViewKept, PTL DEF ViewSpec
=============================================================================

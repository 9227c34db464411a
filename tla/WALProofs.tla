----------------------------- MODULE WALProofs -----------------------------
(***************************************************************************)
(* What the write-ahead log of RaftWAL keeps, for files and logs of any    *)
(* length, any number of crashes and every set of faults.                  *)
(***************************************************************************)
EXTENDS RaftWAL, RaftLogProofs

-----------------------------------------------------------------------------
(* InOrder(f, T) is what an enumeration of T reads in f. *)
ReadAt(f, p, n) == [i \in 1 .. n |-> f[p[i]].entry]

LEMMA ReadAtIs ==
  ASSUME NEW f, NEW p, NEW n \in Nat
  PROVE  /\ Len(ReadAt(f, p, n)) = n
         /\ \A i \in 1 .. n : ReadAt(f, p, n)[i] = f[p[i]].entry
BY DEF ReadAt

LEMMA InOrderIs ==
  ASSUME NEW f, NEW T, NEW n, NEW p, Enumerates(p, n, T), T \subseteq Nat
  PROVE  InOrder(f, T) = ReadAt(f, p, n)
<1>1. Cardinality(T) = n
  BY RankOf
<1>2. InOrder(f, T) = [i \in 1 .. n |-> f[NthOf(T, i)].entry]
  BY <1>1 DEF InOrder, NthOf
<1>3. Lists(p, n, T)
  BY NthIs
<1>. QED  BY <1>2, <1>3 DEF ReadAt, Lists

-----------------------------------------------------------------------------
(* The records of a file that ReadAll gets to, and among them the states. *)
Reached(f, k) == k \in 1 .. Len(f) /\ \A j \in 1 .. k : f[j].kind # "torn"

States(f) == {k \in 1 .. Len(f) : Reached(f, k) /\ f[k].kind = "state"}

LEMMA ReadableIs ==
  ASSUME NEW R, NEW f \in Seq(R)
  PROVE  DOMAIN Readable(f) = {k \in 1 .. Len(f) : Reached(f, k)}
<1>. DEFINE n == Len(f)
            S == {i \in 1 .. n : f[i].kind = "torn"} \cup {n + 1}
            m == Min(S)
<1>0. n \in Nat
  BY LenProperties
<1>. HIDE DEF n
<1>1. S \in SUBSET Nat /\ S # {} /\ \A y \in S : y \in 1 .. n + 1
  BY <1>0
<1>2. m \in S /\ \A y \in S : m <= y
  BY <1>1, MinOfNaturals
<1>3. m \in 1 .. n + 1
  BY <1>1, <1>2
<1>4. m <= n => f[m].kind = "torn"
  BY <1>0, <1>2, <1>3
<1>5. \A i \in 1 .. n : f[i].kind = "torn" => m <= i
  BY <1>2
<1>. HIDE DEF m, S
<1>6. m - 1 \in 0 .. n
  BY <1>0, <1>3
<1>7. Len(SubSeq(f, 1, m - 1)) = m - 1 /\ SubSeq(f, 1, m - 1) \in Seq(R)
  BY <1>6, Prefix DEF n
<1>8. DOMAIN SubSeq(f, 1, m - 1) = 1 .. m - 1
  BY <1>7, LenProperties
<1>9. Readable(f) = SubSeq(f, 1, m - 1)
  BY DEF Readable, m, S, n
<1>10. ASSUME NEW k \in 1 .. n PROVE k \in 1 .. m - 1 <=> Reached(f, k)
  <2>1. CASE k < m
    <3>1. \A j \in 1 .. k : j \in 1 .. n /\ ~(m <= j)
      BY <1>0, <1>3, <2>1
    <3>2. \A j \in 1 .. k : f[j].kind # "torn"
      BY <1>5, <3>1
    <3>3. k \in 1 .. m - 1
      BY <1>0, <1>3, <2>1
    <3>. QED  BY <3>2, <3>3 DEF Reached, n
  <2>2. CASE ~(k < m)
    <3>1. m \in 1 .. k /\ m <= n /\ k \notin 1 .. m - 1
      BY <1>0, <1>3, <2>2
    <3>. QED  BY <1>4, <3>1 DEF Reached
  <2>. QED  BY <2>1, <2>2
<1>11. \A k \in 1 .. m - 1 : k \in 1 .. n
  BY <1>0, <1>3
<1>. QED  BY <1>8, <1>9, <1>10, <1>11 DEF n

LEMMA ReadStateIs ==
  ASSUME NEW R, NEW f \in Seq(R)
  PROVE  \/ States(f) = {} /\ ReadState(f) = StateRecord(0, NoNode)
         \/ \E k \in States(f) : ReadState(f) = f[k] /\ \A j \in States(f) : j <= k
<1>1. {i \in DOMAIN Readable(f) : f[i].kind = "state"} = States(f)
  BY ReadableIs DEF States
<1>2. ReadState(f) = IF States(f) = {} THEN StateRecord(0, NoNode) ELSE f[Max(States(f))]
  BY <1>1 DEF ReadState
<1>3. Len(f) \in Nat
  BY LenProperties
<1>4. States(f) \in SUBSET (0 .. Len(f))
  BY <1>3 DEF States
<1>5. CASE States(f) # {}
  <2>1. Max(States(f)) \in States(f) /\ \A y \in States(f) : y <= Max(States(f))
    BY <1>3, <1>4, <1>5, MaxOfBounded
  <2>. QED  BY <1>2, <1>5, <2>1
<1>. QED  BY <1>2, <1>5

(* The states and the entries that two files share, when one agrees with   *)
(* the other up to the length of the other.                                *)
LEMMA SameStart ==
  ASSUME NEW R, NEW f \in Seq(R), NEW g \in Seq(R), NEW n \in 0 .. Len(f),
         n <= Len(g), \A i \in 1 .. n : g[i] = f[i]
  PROVE  \A k \in 1 .. n : Reached(g, k) <=> Reached(f, k)
<1>. SUFFICES ASSUME NEW k \in 1 .. n PROVE Reached(g, k) <=> Reached(f, k)
  OBVIOUS
<1>1. Len(f) \in Nat /\ Len(g) \in Nat
  BY LenProperties
<1>2. k \in 1 .. Len(f) /\ k \in 1 .. Len(g) /\ \A j \in 1 .. k : j \in 1 .. n
  BY <1>1
<1>. QED  BY <1>2 DEF Reached

-----------------------------------------------------------------------------
(* A term and vote that a node may pass through on the way to another: the *)
(* term grows, or the vote of the term is given once.                      *)
Earlier(t, v, t2, v2) == t < t2 \/ (t = t2 /\ v \in {NoNode, v2})

(* The states in a file, in the order in which the node had them, up to    *)
(* the one it has now.                                                     *)
Ordered(f, t, v) ==
  /\ \A j, k \in States(f) : j < k => Earlier(f[j].term, f[j].vote, f[k].term, f[k].vote)
  /\ \A k \in States(f) : Earlier(f[k].term, f[k].vote, t, v)

Voted == {NoNode, Self, Other}
WALEntry == [index : Nat, term : Nat]
StateRecords == [kind : {"state"}, term : Nat, vote : Voted]
Record == StateRecords \cup [kind : {"entry"}, entry : WALEntry] \cup {Torn}

LEMMA RecordFields ==
  ASSUME NEW r \in Record
  PROVE  /\ r.kind \in {"state", "entry", "torn"}
         /\ r.kind = "state" => r \in StateRecords /\ r.term \in Nat /\ r.vote \in Voted
         /\ r.kind = "entry" => r.entry \in WALEntry
BY DEF Record, StateRecords, Torn

LEMMA EarlierTransitive ==
  ASSUME NEW t \in Nat, NEW v, NEW t2 \in Nat, NEW v2, NEW t3 \in Nat, NEW v3,
         Earlier(t, v, t2, v2), Earlier(t2, v2, t3, v3)
  PROVE  Earlier(t, v, t3, v3)
BY DEF Earlier

LEMMA OrderedPart ==
  ASSUME NEW f, NEW g, NEW t, NEW v, Ordered(f, t, v),
         States(g) \subseteq States(f), \A k \in States(g) : g[k] = f[k]
  PROVE  Ordered(g, t, v)
BY DEF Ordered

LEMMA StateFields ==
  ASSUME NEW f \in Seq(Record), NEW k \in States(f)
  PROVE  f[k] \in StateRecords /\ f[k].term \in Nat /\ f[k].vote \in Voted
<1>1. k \in 1 .. Len(f) /\ f[k].kind = "state"
  BY DEF States
<1>2. f[k] \in Record
  BY <1>1, ElementOfSeq
<1>. QED  BY <1>1, <1>2, RecordFields

LEMMA OrderedLater ==
  ASSUME NEW f \in Seq(Record), NEW t \in Nat, NEW v, NEW t2 \in Nat, NEW v2,
         Ordered(f, t, v), Earlier(t, v, t2, v2)
  PROVE  Ordered(f, t2, v2)
<1>1. \A k \in States(f) : Earlier(f[k].term, f[k].vote, t2, v2)
  BY StateFields, EarlierTransitive DEF Ordered
<1>. QED  BY <1>1 DEF Ordered

LEMMA OrderedRead ==
  ASSUME NEW f \in Seq(Record), NEW t \in Nat, NEW v, Ordered(f, t, v)
  PROVE  /\ ReadState(f) \in StateRecords
         /\ ReadState(f).term \in Nat /\ ReadState(f).vote \in Voted
         /\ Earlier(ReadState(f).term, ReadState(f).vote, t, v)
         /\ Ordered(f, ReadState(f).term, ReadState(f).vote)
<1>1. CASE States(f) = {} /\ ReadState(f) = StateRecord(0, NoNode)
  <2>1. /\ ReadState(f) \in StateRecords
        /\ ReadState(f).term = 0 /\ ReadState(f).vote = NoNode
    BY <1>1 DEF StateRecord, StateRecords, Voted
  <2>. QED  BY <1>1, <2>1 DEF Earlier, Ordered, Voted
<1>2. CASE \E k \in States(f) : ReadState(f) = f[k] /\ \A j \in States(f) : j <= k
  <2>1. PICK k \in States(f) : ReadState(f) = f[k] /\ \A j \in States(f) : j <= k
    BY <1>2
  <2>2. f[k] \in StateRecords /\ f[k].term \in Nat /\ f[k].vote \in Voted
    BY StateFields
  <2>3. Earlier(f[k].term, f[k].vote, t, v)
    BY DEF Ordered
  <2>4. ASSUME NEW j \in States(f)
        PROVE  Earlier(f[j].term, f[j].vote, f[k].term, f[k].vote)
    <3>1. j \in Int /\ k \in Int
      BY DEF States
    <3>2. CASE j < k
      BY <3>2 DEF Ordered
    <3>3. CASE j = k
      BY <3>3 DEF Earlier
    <3>. QED  BY <2>1, <3>1, <3>2, <3>3
  <2>5. Ordered(f, f[k].term, f[k].vote)
    BY <2>4 DEF Ordered
  <2>. QED  BY <2>1, <2>2, <2>3, <2>5
<1>. QED  BY <1>1, <1>2, ReadStateIs

(* A file that agrees with another one up to n, with no states after n. *)
LEMMA OrderedStart ==
  ASSUME NEW f \in Seq(Record), NEW t, NEW v, Ordered(f, t, v),
         NEW g \in Seq(Record), NEW n \in 0 .. Len(f), n <= Len(g),
         \A i \in 1 .. n : g[i] = f[i],
         \A i \in n + 1 .. Len(g) : g[i].kind # "state"
  PROVE  Ordered(g, t, v)
<1>1. Len(f) \in Nat /\ Len(g) \in Nat
  BY LenProperties
<1>2. ASSUME NEW k \in States(g) PROVE k \in States(f) /\ g[k] = f[k]
  <2>1. k \in 1 .. Len(g) /\ g[k].kind = "state" /\ Reached(g, k)
    BY DEF States
  <2>2. k \notin n + 1 .. Len(g)
    BY <2>1
  <2>3. k \in 1 .. n
    BY <1>1, <2>1, <2>2
  <2>4. g[k] = f[k] /\ Reached(f, k)
    BY <2>1, <2>3, SameStart
  <2>5. k \in 1 .. Len(f)
    BY <1>1, <2>3
  <2>. QED  BY <2>1, <2>4, <2>5 DEF States
<1>3. States(g) \subseteq States(f) /\ \A k \in States(g) : g[k] = f[k]
  BY <1>2
<1>. QED  BY <1>3, OrderedPart

(* Saving the term and vote of now keeps the order. *)
LEMMA OrderedMore ==
  ASSUME NEW f \in Seq(Record), NEW t \in Nat, NEW v \in Voted, Ordered(f, t, v)
  PROVE  /\ Append(f, StateRecord(t, v)) \in Seq(Record)
         /\ Ordered(Append(f, StateRecord(t, v)), t, v)
<1>. DEFINE r == StateRecord(t, v)
            g == Append(f, r)
            n == Len(f)
<1>1. r \in Record /\ r.term = t /\ r.vote = v
  BY DEF StateRecord, Record, StateRecords
<1>. HIDE DEF r
<1>2. n \in Nat /\ g \in Seq(Record) /\ Len(g) = n + 1 /\ g[n + 1] = r
  BY <1>1, LenProperties, AppendProperties
<1>3. \A i \in 1 .. n : g[i] = f[i]
  BY <1>1, AppendProperties
<1>. HIDE DEF g, n
<1>4. n <= n + 1 /\ n \in 0 .. n
  BY <1>2
<1>5. \A k \in 1 .. n : Reached(g, k) <=> Reached(f, k)
  BY <1>2, <1>3, <1>4, SameStart DEF n
<1>6. ASSUME NEW k \in States(g)
      PROVE  \/ k = n + 1 /\ g[k] = r
             \/ k \in States(f) /\ g[k] = f[k] /\ k <= n
  <2>1. k \in 1 .. n + 1 /\ Reached(g, k) /\ g[k].kind = "state"
    BY <1>2 DEF States
  <2>2. CASE k \in 1 .. n
    BY <1>2, <1>3, <1>5, <2>1, <2>2 DEF States, n
  <2>3. CASE k = n + 1
    BY <1>2, <2>3
  <2>. QED  BY <1>2, <2>1, <2>2, <2>3
<1>7. ASSUME NEW k \in States(g) PROVE Earlier(g[k].term, g[k].vote, t, v)
  <2>1. CASE k = n + 1 /\ g[k] = r
    BY <1>1, <2>1 DEF Earlier
  <2>2. CASE k \in States(f) /\ g[k] = f[k]
    BY <2>2 DEF Ordered
  <2>. QED  BY <1>6, <2>1, <2>2
<1>8. ASSUME NEW j \in States(g), NEW k \in States(g), j < k
      PROVE  Earlier(g[j].term, g[j].vote, g[k].term, g[k].vote)
  <2>1. CASE k = n + 1 /\ g[k] = r
    BY <1>1, <1>7, <2>1
  <2>2. CASE k \in States(f) /\ g[k] = f[k] /\ k <= n
    <3>1. j # n + 1
      BY <1>2, <1>8, <2>2 DEF States
    <3>2. j \in States(f) /\ g[j] = f[j]
      BY <1>6, <3>1
    <3>. QED  BY <1>8, <2>2, <3>2 DEF Ordered
  <2>. QED  BY <1>6, <2>1, <2>2
<1>9. Ordered(g, t, v)
  BY <1>7, <1>8 DEF Ordered
<1>. QED  BY <1>2, <1>9 DEF g, r

(* A file with a single state, the first record. *)
LEMMA OrderedAlone ==
  ASSUME NEW g \in Seq(Record), NEW t, NEW v,
         Earlier(g[1].term, g[1].vote, t, v),
         \A i \in 2 .. Len(g) : g[i].kind # "state"
  PROVE  Ordered(g, t, v)
<1>0. Len(g) \in Nat
  BY LenProperties
<1>1. ASSUME NEW k \in States(g) PROVE k = 1
  <2>1. k \in 1 .. Len(g) /\ g[k].kind = "state"
    BY DEF States
  <2>2. k \notin 2 .. Len(g)
    BY <2>1
  <2>. QED  BY <1>0, <2>1, <2>2
<1>. QED  BY <1>1 DEF Ordered

LEMMA NothingOrdered ==
  ASSUME NEW g, g = <<>>, NEW t, NEW v
  PROVE  Ordered(g, t, v)
<1>1. Len(g) = 0
  OBVIOUS
<1>2. States(g) = {}
  BY <1>1 DEF States
<1>. QED  BY <1>2 DEF Ordered

-----------------------------------------------------------------------------
(* What SaveEntries buffers. *)
LEMMA EntryRecordFields ==
  ASSUME NEW e \in WALEntry
  PROVE  /\ EntryRecord(e) \in Record
         /\ EntryRecord(e).kind = "entry" /\ EntryRecord(e).entry = e
BY DEF EntryRecord, Record

LEMMA RecordsAre ==
  ASSUME NEW es \in Seq(WALEntry)
  PROVE  /\ Records(es) \in Seq(Record)
         /\ Len(Records(es)) = Len(es)
         /\ \A i \in 1 .. Len(es) : /\ Records(es)[i].kind = "entry"
                                    /\ Records(es)[i].entry = es[i]
<1>1. Len(es) \in Nat /\ DOMAIN es = 1 .. Len(es)
  BY LenProperties
<1>2. \A i \in 1 .. Len(es) : es[i] \in WALEntry
  BY ElementOfSeq
<1>3. Records(es) = [i \in 1 .. Len(es) |-> EntryRecord(es[i])]
  BY <1>1 DEF Records
<1>4. \A i \in 1 .. Len(es) : /\ EntryRecord(es[i]) \in Record
                              /\ EntryRecord(es[i]).kind = "entry"
                              /\ EntryRecord(es[i]).entry = es[i]
  BY <1>2, EntryRecordFields
<1>5. Records(es) \in Seq(Record) /\ Len(Records(es)) = Len(es)
  BY <1>1, <1>3, <1>4
<1>. QED  BY <1>3, <1>4, <1>5

LEMMA EntryRecordsAre ==
  ASSUME NEW R, NEW f \in Seq(R)
  PROVE  /\ EntryRecords(f) = {k \in 1 .. Len(f) : Reached(f, k) /\ f[k].kind = "entry"}
         /\ EntryRecords(f) \in SUBSET (1 .. Len(f))
<1>1. EntryRecords(f) = {k \in 1 .. Len(f) : Reached(f, k) /\ f[k].kind = "entry"}
  BY ReadableIs DEF EntryRecords
<1>. QED  BY <1>1

(* Whatever the file, what is read from it are entries. *)
LEMMA InOrderTyped ==
  ASSUME NEW f \in Seq(Record), NEW T \in SUBSET EntryRecords(f)
  PROVE  InOrder(f, T) \in Seq(WALEntry)
<1>1. Len(f) \in Nat
  BY LenProperties
<1>2. T \in SUBSET (1 .. Len(f)) /\ \A k \in T : f[k].kind = "entry"
  BY EntryRecordsAre
<1>3. PICK n \in Nat : \E p : Enumerates(p, n, T)
  BY <1>1, <1>2, AllListable DEF Listable
<1>4. PICK p : Enumerates(p, n, T)
  BY <1>3
<1>5. \A i \in 1 .. n : p[i] \in T
  BY <1>4 DEF Enumerates
<1>6. \A k \in T : f[k].entry \in WALEntry
  <2>. SUFFICES ASSUME NEW k \in T PROVE f[k].entry \in WALEntry
    OBVIOUS
  <2>1. f[k] \in Record /\ f[k].kind = "entry"
    BY <1>2, ElementOfSeq
  <2>. QED  BY <2>1, RecordFields
<1>7. T \subseteq Nat
  <2>1. \A k \in 1 .. Len(f) : k \in Nat
    BY <1>1
  <2>. QED  BY <1>2, <2>1
<1>8. InOrder(f, T) = ReadAt(f, p, n)
  BY <1>4, <1>7, InOrderIs
<1>9. \A i \in 1 .. n : f[p[i]].entry \in WALEntry
  BY <1>5, <1>6
<1>10. ReadAt(f, p, n) \in Seq(WALEntry)
  BY <1>3, <1>9 DEF ReadAt
<1>. QED  BY <1>8, <1>10

-----------------------------------------------------------------------------
(* What a write, cut short or not, leaves in the file. *)
LEMMA TornRecord ==
  Torn \in Record /\ Torn.kind = "torn"
BY DEF Torn, Record

Part(f, b, k) == f \o SubSeq(b, 1, k)

LEMMA OrderedPartly ==
  ASSUME NEW f \in Seq(Record), NEW b \in Seq(Record), NEW t, NEW v,
         Ordered(f \o b, t, v), NEW k \in 0 .. Len(b)
  PROVE  Part(f, b, k) \in Seq(Record) /\ Ordered(Part(f, b, k), t, v)
<1>. DEFINE c == SubSeq(b, 1, k)
            g == Part(f, b, k)
            h == f \o b
            m == Len(f)
<1>1. c \in Seq(Record) /\ Len(c) = k /\ \A i \in 1 .. k : c[i] = b[i]
  BY Prefix
<1>. HIDE DEF c
<1>2. m \in Nat /\ Len(b) \in Nat /\ k \in Nat
  BY LenProperties
<1>3. h \in Seq(Record) /\ Len(h) = m + Len(b)
  BY ConcatProperties
<1>4. g \in Seq(Record) /\ Len(g) = m + k
  BY <1>1, ConcatProperties DEF c, Part
<1>5. ASSUME NEW i \in 1 .. m + k PROVE g[i] = h[i]
  <2>1. i \in 1 .. m + Len(b)
    BY <1>2
  <2>2. h[i] = IF i <= m THEN f[i] ELSE b[i - m]
    BY <2>1, ConcatProperties
  <2>3. g[i] = IF i <= m THEN f[i] ELSE c[i - m]
    BY <1>1, ConcatProperties DEF c, Part
  <2>4. i <= m \/ i - m \in 1 .. k
    BY <1>2
  <2>. QED  BY <1>1, <2>2, <2>3, <2>4
<1>. HIDE DEF h, m, g
<1>. DEFINE n == m + k
<1>6. n \in 0 .. Len(h) /\ n <= n /\ n \in Nat
  BY <1>2, <1>3
<1>7. \A i \in 1 .. n : g[i] = h[i]
  BY <1>5
<1>8. Len(g) = n
  BY <1>4
<1>. HIDE DEF n
<1>9. n <= Len(g) /\ \A i \in n + 1 .. Len(g) : g[i].kind # "state"
  BY <1>6, <1>8
<1>10. Ordered(h, t, v)
  BY DEF h
<1>11. Ordered(g, t, v)
  BY <1>3, <1>4, <1>6, <1>7, <1>9, <1>10, OrderedStart
<1>. QED  BY <1>4, <1>11 DEF g

CutShort(g) == Append(g, Torn)

LEMMA OrderedCutShort ==
  ASSUME NEW g \in Seq(Record), NEW t, NEW v, Ordered(g, t, v)
  PROVE  CutShort(g) \in Seq(Record) /\ Ordered(CutShort(g), t, v)
<1>. DEFINE n == Len(g)
            a == CutShort(g)
<1>1. /\ n \in Nat /\ a \in Seq(Record) /\ Len(a) = n + 1
      /\ a[n + 1] = Torn /\ \A i \in 1 .. n : a[i] = g[i]
  BY TornRecord, LenProperties, AppendProperties DEF CutShort
<1>. HIDE DEF a
<1>2. n \in 0 .. Len(g) /\ n <= Len(a) /\ \A i \in n + 1 .. Len(a) : i = n + 1
  BY <1>1
<1>3. \A i \in n + 1 .. Len(a) : a[i].kind # "state"
  BY <1>1, <1>2, TornRecord
<1>. HIDE DEF n
<1>4. Ordered(a, t, v)
  BY <1>1, <1>2, <1>3, OrderedStart
<1>. QED  BY <1>1, <1>4 DEF a

LEMMA OrderedEntries ==
  ASSUME NEW f \in Seq(Record), NEW t, NEW v, Ordered(f, t, v),
         NEW es \in Seq(WALEntry)
  PROVE  f \o Records(es) \in Seq(Record) /\ Ordered(f \o Records(es), t, v)
<1>. DEFINE b == Records(es)
            n == Len(f)
            m == Len(es)
            g == f \o b
<1>1. /\ b \in Seq(Record) /\ Len(b) = m
      /\ \A i \in 1 .. m : b[i].kind = "entry"
  BY RecordsAre
<1>. HIDE DEF b
<1>2. n \in Nat /\ m \in Nat
  BY LenProperties
<1>3. g \in Seq(Record) /\ Len(g) = n + m
  <2>1. g \in Seq(Record) /\ Len(g) = n + Len(b)
    BY <1>1, ConcatProperties
  <2>. QED  BY <1>1, <2>1
<1>4. ASSUME NEW i \in 1 .. n + m PROVE g[i] = IF i <= n THEN f[i] ELSE b[i - n]
  BY <1>1, ConcatProperties
<1>. HIDE DEF n, m, g
<1>5. n \in 0 .. n /\ n <= n + m
  BY <1>2
<1>6. ASSUME NEW i \in 1 .. n PROVE g[i] = f[i]
  <2>1. i \in 1 .. n + m /\ i <= n
    BY <1>2
  <2>. QED  BY <1>4, <2>1
<1>7. ASSUME NEW i \in n + 1 .. n + m PROVE g[i].kind # "state"
  <2>1. i \in 1 .. n + m /\ ~(i <= n) /\ i - n \in 1 .. m
    BY <1>2
  <2>2. g[i] = b[i - n]
    BY <1>4, <2>1
  <2>. QED  BY <1>1, <2>1, <2>2
<1>8. Ordered(g, t, v)
  BY <1>3, <1>5, <1>6, <1>7, OrderedStart DEF n
<1>. QED  BY <1>3, <1>8 DEF g, b

LEMMA OrderedKept ==
  ASSUME NEW f \in Seq(Record), NEW t \in Nat, NEW v, Ordered(f, t, v), NEW i
  PROVE  Kept(f, i) \in Seq(Record) /\ Ordered(Kept(f, i), t, v)
<1>. DEFINE T == {k \in EntryRecords(f) : f[k].entry.index < i}
            es == InOrder(f, T)
            s == ReadState(f)
            a == <<s>>
<1>1. s \in StateRecords /\ Earlier(s.term, s.vote, t, v)
  BY OrderedRead
<1>2. T \in SUBSET EntryRecords(f)
  OBVIOUS
<1>. HIDE DEF T, s
<1>3. es \in Seq(WALEntry)
  BY <1>2, InOrderTyped
<1>. HIDE DEF es
<1>4. s \in Record
  BY <1>1 DEF Record
<1>5. a \in Seq(Record) /\ Len(a) = 1 /\ a[1] = s
  BY <1>4
<1>. HIDE DEF a
<1>6. Ordered(a, t, v)
  <2>1. \A j \in 2 .. Len(a) : a[j].kind # "state"
    BY <1>5
  <2>2. Earlier(a[1].term, a[1].vote, t, v)
    BY <1>1, <1>5
  <2>. QED  BY <1>5, <2>1, <2>2, OrderedAlone
<1>7. a \o Records(es) \in Seq(Record) /\ Ordered(a \o Records(es), t, v)
  BY <1>3, <1>5, <1>6, OrderedEntries
<1>8. Kept(f, i) = a \o Records(es)
  BY DEF Kept, a, es, s, T
<1>. QED  BY <1>7, <1>8

-----------------------------------------------------------------------------
(* The invariant behind RecoveryNotAhead. *)
OpTypes ==
  /\ op.kind \in {"idle", "state", "append", "rewrite"}
  /\ op.kind = "idle" => op = Idle
  /\ op.kind = "append" => op.es \in Seq(WALEntry) /\ op.mustSync \in BOOLEAN
  /\ op.kind = "rewrite" => op.at \in 1 .. Len(log) /\ op.es \in Seq(WALEntry)

WALTypes ==
  /\ up \in BOOLEAN
  /\ currentTerm \in Nat /\ votedFor \in Voted /\ log \in Seq(WALEntry)
  /\ file \in Seq(Record) /\ buffer \in Seq(Record)
  /\ OpTypes

(* Nothing waits in the buffer of a node that is between two operations,   *)
(* and while the file is rewritten all of it is in the buffer.             *)
Quiet ==
  /\ ~up => op = Idle
  /\ op = Idle => buffer = <<>>
  /\ op.kind = "rewrite" => file = <<>>

Chronicle == Ordered(file \o buffer, currentTerm, votedFor)

OrderInv == WALTypes /\ Quiet /\ Chronicle

LEMMA IdleOp ==
  ASSUME op = Idle
  PROVE  OpTypes /\ op.kind = "idle"
BY DEF OpTypes, Idle

LEMMA FileOrdered ==
  ASSUME OrderInv
  PROVE  /\ Ordered(file, currentTerm, votedFor)
         /\ file \o <<>> = file /\ <<>> \in Seq(Record)
<1>1. file \in Seq(Record) /\ buffer \in Seq(Record) /\ Len(buffer) \in Nat
  BY LenProperties DEF OrderInv, WALTypes
<1>2. 0 \in 0 .. Len(buffer) /\ SubSeq(buffer, 1, 0) = <<>>
  BY <1>1, SubSeqEmpty
<1>3. file \o <<>> = file /\ <<>> \in Seq(Record)
  BY <1>1, ConcatEmptySeq, EmptySeq
<1>4. file = Part(file, buffer, 0)
  BY <1>2, <1>3 DEF Part
<1>. QED  BY <1>1, <1>2, <1>3, <1>4, OrderedPartly DEF OrderInv, Chronicle

LEMMA OrderedSaveState ==
  ASSUME OrderInv, NEW t \in Nat, NEW v \in Voted,
         Earlier(currentTerm, votedFor, t, v), SaveState(t, v)
  PROVE  OrderInv'
<1>1. /\ up /\ op = Idle /\ buffer = <<>> /\ currentTerm \in Nat
      /\ file \in Seq(Record) /\ Ordered(file, currentTerm, votedFor)
      /\ file \o <<>> = file
  BY FileOrdered DEF OrderInv, Quiet, WALTypes, SaveState, Ready
<1>2. /\ currentTerm' = t /\ votedFor' = v /\ up' = up /\ log' = log /\ file' = file
  BY DEF SaveState
<1>3. Ordered(file, t, v)
  BY <1>1, OrderedLater
<1>4. CASE writer # "ok"
  <2>1. buffer' = buffer /\ op' = op
    BY <1>4 DEF SaveState
  <2>2. Chronicle'
    BY <1>1, <1>2, <1>3, <2>1 DEF Chronicle
  <2>. QED  BY <1>2, <2>1, <2>2 DEF OrderInv, WALTypes, OpTypes, Quiet
<1>5. CASE writer = "ok"
  <2>. DEFINE r == StateRecord(t, v)
  <2>1. buffer' = Append(buffer, r) /\ op' = Saving
    BY <1>5 DEF SaveState
  <2>2. Append(file, r) \in Seq(Record) /\ Ordered(Append(file, r), t, v)
    BY <1>1, <1>3, OrderedMore
  <2>3. r \in Record
    BY DEF StateRecord, Record, StateRecords
  <2>. HIDE DEF r
  <2>4. buffer' \in Seq(Record) /\ buffer' = <<r>>
    BY <1>1, <2>1, <2>3
  <2>5. file \o <<r>> = Append(file, r)
    BY <1>1, <2>3
  <2>6. Chronicle'
    BY <1>2, <2>2, <2>4, <2>5 DEF Chronicle
  <2>7. op'.kind = "state" /\ op' # Idle
    BY <2>1 DEF Saving, Idle
  <2>8. OpTypes'
    BY <2>7 DEF OpTypes
  <2>9. WALTypes'
    BY <1>2, <2>4, <2>8 DEF OrderInv, WALTypes
  <2>10. Quiet'
    BY <1>1, <1>2, <2>7 DEF Quiet
  <2>. QED  BY <2>6, <2>9, <2>10 DEF OrderInv
<1>. QED  BY <1>4, <1>5

LEMMA OrderedSaveEntries ==
  ASSUME OrderInv, NEW es \in Seq(WALEntry), NEW b \in BOOLEAN, SaveEntries(es, b)
  PROVE  OrderInv'
<1>1. /\ up /\ op = Idle /\ buffer = <<>> /\ log \in Seq(WALEntry)
      /\ file \in Seq(Record) /\ Ordered(file, currentTerm, votedFor)
      /\ file \o <<>> = file
  BY FileOrdered DEF OrderInv, Quiet, WALTypes, SaveEntries, Ready
<1>2. /\ currentTerm' = currentTerm /\ votedFor' = votedFor /\ up' = up /\ file' = file
  BY DEF SaveEntries
<1>3. log \o es \in Seq(WALEntry)
  BY <1>1, ConcatProperties
<1>4. CASE writer # "ok"
  <2>1. buffer' = buffer /\ op' = op /\ log' \in {log, log \o es}
    BY <1>4 DEF SaveEntries
  <2>2. log' \in Seq(WALEntry)
    BY <1>1, <1>3, <2>1
  <2>3. OpTypes' /\ op'.kind = "idle"
    BY <1>1, <2>1 DEF OpTypes, Idle
  <2>. QED  BY <1>2, <2>1, <2>2, <2>3 DEF OrderInv, WALTypes, Quiet, Chronicle
<1>5. CASE writer = "ok"
  <2>. DEFINE r == Records(es)
  <2>1. buffer' = buffer \o r /\ op' = Appending(es, b) /\ log' = log
    BY <1>5 DEF SaveEntries
  <2>2. r \in Seq(Record) /\ Ordered(file \o r, currentTerm, votedFor)
    BY <1>1, OrderedEntries, RecordsAre
  <2>. HIDE DEF r
  <2>3. buffer' = r
    BY <1>1, <2>1, <2>2, ConcatEmptySeq
  <2>4. Chronicle'
    BY <1>2, <2>2, <2>3 DEF Chronicle
  <2>5. op'.kind = "append" /\ op' # Idle /\ op'.es = es /\ op'.mustSync = b
    BY <2>1 DEF Appending, Idle
  <2>6. OpTypes'
    BY <2>5 DEF OpTypes
  <2>7. WALTypes'
    BY <1>2, <2>1, <2>2, <2>3, <2>6 DEF OrderInv, WALTypes
  <2>8. Quiet'
    BY <1>1, <1>2, <2>5 DEF Quiet
  <2>. QED  BY <2>4, <2>7, <2>8 DEF OrderInv
<1>. QED  BY <1>4, <1>5

LEMMA OrderedTruncate ==
  ASSUME OrderInv, NEW i \in 1 .. Len(log), NEW es \in Seq(WALEntry), Truncate(i, es)
  PROVE  OrderInv'
<1>1. /\ up /\ currentTerm \in Nat
      /\ file \in Seq(Record) /\ Ordered(file, currentTerm, votedFor)
  BY FileOrdered DEF OrderInv, WALTypes, Truncate, Ready
<1>2. /\ currentTerm' = currentTerm /\ votedFor' = votedFor /\ up' = up /\ log' = log
      /\ file' = <<>> /\ buffer' = Kept(file, i) /\ op' = Rewriting(i, es)
  BY DEF Truncate, memory
<1>3. Kept(file, i) \in Seq(Record) /\ Ordered(Kept(file, i), currentTerm, votedFor)
  BY <1>1, OrderedKept
<1>4. file' \o buffer' = buffer'
  BY <1>2, <1>3, ConcatEmptySeq
<1>5. Chronicle'
  BY <1>2, <1>3, <1>4 DEF Chronicle
<1>6. op'.kind = "rewrite" /\ op' # Idle /\ op'.at = i /\ op'.es = es
  BY <1>2 DEF Rewriting, Idle
<1>7. OpTypes'
  BY <1>2, <1>6 DEF OpTypes
<1>8. file' \in Seq(Record)
  BY <1>2, EmptySeq
<1>9. WALTypes'
  BY <1>2, <1>3, <1>7, <1>8 DEF OrderInv, WALTypes
<1>10. Quiet'
  BY <1>1, <1>2, <1>6 DEF Quiet
<1>. QED  BY <1>5, <1>9, <1>10 DEF OrderInv

LEMMA OrderedSyncRewrite ==
  ASSUME OrderInv, SyncRewrite
  PROVE  OrderInv'
<1>1. /\ op.kind = "rewrite" /\ up /\ up' = up /\ file' = buffer /\ file = <<>>
      /\ currentTerm' = currentTerm /\ votedFor' = votedFor
      /\ op.es \in Seq(WALEntry) /\ op.at \in 1 .. Len(log) /\ log \in Seq(WALEntry)
      /\ buffer \in Seq(Record)
  BY DEF SyncRewrite, OrderInv, WALTypes, OpTypes, Quiet
<1>2. Ordered(buffer, currentTerm, votedFor) /\ buffer \o <<>> = buffer
  BY <1>1, ConcatEmptySeq DEF OrderInv, Chronicle
<1>3. CASE MayTruncate(commitIndex, op.at)
  <2>1. /\ log' = TruncateFrom(log, op.at) /\ buffer' = Records(op.es)
        /\ op' = Appending(op.es, TRUE)
    BY <1>3 DEF SyncRewrite
  <2>2. buffer' \in Seq(Record) /\ Ordered(buffer \o Records(op.es), currentTerm, votedFor)
    BY <1>1, <1>2, <2>1, OrderedEntries, RecordsAre
  <2>3. Chronicle'
    BY <1>1, <2>1, <2>2 DEF Chronicle
  <2>4. log' \in Seq(WALEntry)
    <3>1. Len(log) \in Nat
      BY <1>1, LenProperties
    <3>2. op.at - 1 \in 0 .. Len(log)
      BY <1>1, <3>1
    <3>. QED  BY <1>1, <2>1, <3>2, Prefix DEF TruncateFrom
  <2>5. op'.kind = "append" /\ op' # Idle /\ op'.es \in Seq(WALEntry) /\ op'.mustSync = TRUE
    BY <1>1, <2>1 DEF Appending, Idle
  <2>6. OpTypes'
    BY <2>5 DEF OpTypes
  <2>7. WALTypes'
    BY <1>1, <2>2, <2>4, <2>6 DEF OrderInv, WALTypes
  <2>8. Quiet'
    BY <1>1, <2>5 DEF Quiet
  <2>. QED  BY <2>3, <2>7, <2>8 DEF OrderInv
<1>4. CASE ~MayTruncate(commitIndex, op.at)
  <2>1. log' = log /\ buffer' = <<>> /\ op' = Idle
    BY <1>4 DEF SyncRewrite
  <2>2. Chronicle'
    BY <1>1, <1>2, <2>1 DEF Chronicle
  <2>3. OpTypes' /\ op'.kind = "idle"
    BY <2>1 DEF OpTypes, Idle
  <2>4. WALTypes'
    BY <1>1, <2>1, <2>3, EmptySeq DEF OrderInv, WALTypes
  <2>5. Quiet'
    BY <2>1, <2>3 DEF Quiet
  <2>. QED  BY <2>2, <2>4, <2>5 DEF OrderInv
<1>. QED  BY <1>3, <1>4

(* What Sync, a failed Flush or a crash may leave in the file. *)
LEMMA OrderedWritten ==
  ASSUME OrderInv, NEW g \in {file \o buffer} \cup PartlyWritten \cup PartlyTorn
  PROVE  g \in Seq(Record) /\ Ordered(g, currentTerm, votedFor)
<1>1. /\ file \in Seq(Record) /\ buffer \in Seq(Record) /\ Len(buffer) \in Nat
      /\ Ordered(file \o buffer, currentTerm, votedFor)
  BY LenProperties DEF OrderInv, WALTypes, Chronicle
<1>2. ASSUME NEW h \in PartlyWritten
      PROVE  h \in Seq(Record) /\ Ordered(h, currentTerm, votedFor)
  <2>1. PICK k \in 0 .. Len(buffer) - 1 : h = Part(file, buffer, k)
    BY DEF PartlyWritten, Part
  <2>2. k \in 0 .. Len(buffer)
    BY <1>1
  <2>. QED  BY <1>1, <2>1, <2>2, OrderedPartly
<1>3. CASE g \in PartlyTorn
  <2>1. PICK h \in PartlyWritten : g = CutShort(h)
    BY <1>3 DEF PartlyTorn, CutShort
  <2>. QED  BY <1>2, <2>1, OrderedCutShort
<1>4. CASE g = file \o buffer
  BY <1>1, <1>4, ConcatProperties
<1>. QED  BY <1>2, <1>3, <1>4

(* An operation that ends, whatever came of it, with the records of file   *)
(* and buffer or a part of them in the file.                               *)
LEMMA OrderedEnds ==
  ASSUME OrderInv, op' = Idle, buffer' = <<>>, up' \in BOOLEAN,
         currentTerm' = currentTerm, votedFor' = votedFor, log' \in Seq(WALEntry),
         file' \in {file \o buffer} \cup PartlyWritten \cup PartlyTorn
  PROVE  OrderInv'
<1>1. file' \in Seq(Record) /\ Ordered(file', currentTerm, votedFor)
  BY OrderedWritten
<1>2. file' \o buffer' = file'
  BY <1>1, ConcatEmptySeq
<1>3. Chronicle'
  BY <1>1, <1>2 DEF Chronicle
<1>4. OpTypes' /\ op'.kind = "idle"
  BY DEF OpTypes, Idle
<1>5. WALTypes'
  BY <1>1, <1>4, EmptySeq DEF OrderInv, WALTypes
<1>6. Quiet'
  BY <1>4 DEF Quiet
<1>. QED  BY <1>3, <1>5, <1>6 DEF OrderInv

LEMMA FinishTyped ==
  ASSUME OrderInv, NEW ok \in BOOLEAN, Finish(ok)
  PROVE  /\ op' = Idle /\ up' = up /\ up' \in BOOLEAN /\ log' \in Seq(WALEntry)
         /\ currentTerm' = currentTerm /\ votedFor' = votedFor
<1>1. log \in Seq(WALEntry) /\ OpTypes /\ up \in BOOLEAN
  BY DEF OrderInv, WALTypes
<1>2. CASE op.kind = "append"
  <2>1. op.es \in Seq(WALEntry)
    BY <1>1, <1>2 DEF OpTypes
  <2>2. log \o op.es \in Seq(WALEntry)
    BY <1>1, <2>1, ConcatProperties
  <2>3. log' \in {log, log \o op.es}
    BY DEF Finish
  <2>. QED  BY <1>1, <2>2, <2>3 DEF Finish
<1>3. CASE op.kind # "append"
  BY <1>1, <1>3 DEF Finish
<1>. QED  BY <1>2, <1>3

LEMMA OrderedRestart ==
  ASSUME OrderInv, Restart
  PROVE  OrderInv'
<1>1. /\ op = Idle /\ op' = op /\ up' = TRUE /\ file' = file /\ buffer' = buffer
      /\ buffer = <<>> /\ file \in Seq(Record) /\ currentTerm \in Nat
      /\ Ordered(file, currentTerm, votedFor) /\ file \o <<>> = file
  BY FileOrdered DEF Restart, OrderInv, WALTypes, Quiet, disk
<1>2. /\ currentTerm' = ReadState(file).term /\ votedFor' = ReadState(file).vote
      /\ log' = ReadEntries(file)
  BY DEF Restart
<1>3. /\ currentTerm' \in Nat /\ votedFor' \in Voted
      /\ Ordered(file, currentTerm', votedFor')
  BY <1>1, <1>2, OrderedRead
<1>4. log' \in Seq(WALEntry)
  BY <1>1, <1>2, InOrderTyped DEF ReadEntries
<1>5. Chronicle'
  BY <1>1, <1>3 DEF Chronicle
<1>6. OpTypes' /\ op'.kind = "idle"
  BY <1>1 DEF OpTypes, Idle
<1>7. WALTypes'
  BY <1>1, <1>3, <1>4, <1>6 DEF OrderInv, WALTypes
<1>8. Quiet'
  BY <1>1, <1>6 DEF Quiet
<1>. QED  BY <1>5, <1>7, <1>8 DEF OrderInv

(* The entries that are saved. *)
LEMMA OwnEntryTyped ==
  ASSUME OrderInv
  PROVE  /\ OwnEntry \in Seq(WALEntry) /\ Len(OwnEntry) = 1
         /\ OwnEntry[1].index = LastIndex(log) + 1
<1>1. log \in Seq(WALEntry) /\ currentTerm \in Nat
  BY DEF OrderInv, WALTypes
<1>2. LastIndex(log) \in Nat
  <2>1. CASE log # <<>>
    <3>1. Len(log) \in Nat \ {0}
      BY <1>1, <2>1, EmptySeq
    <3>2. Len(log) \in 1 .. Len(log)
      BY <3>1
    <3>3. log[Len(log)] \in WALEntry
      BY <1>1, <3>2, ElementOfSeq
    <3>. QED  BY <2>1, <3>3 DEF LastIndex, WALEntry
  <2>2. CASE log = <<>>
    BY <2>2 DEF LastIndex
  <2>. QED  BY <2>1, <2>2
<1>. DEFINE e == [index |-> LastIndex(log) + 1, term |-> currentTerm]
<1>3. e \in WALEntry /\ e.index = LastIndex(log) + 1
  BY <1>1, <1>2 DEF WALEntry
<1>. HIDE DEF e
<1>4. <<e>> \in Seq(WALEntry) /\ Len(<<e>>) = 1 /\ <<e>>[1] = e
  BY <1>3
<1>5. OwnEntry = <<e>>
  BY DEF OwnEntry, e
<1>. QED  BY <1>3, <1>4, <1>5

LEMMA SuffixesTyped ==
  ASSUME currentTerm \in Nat, NEW i \in Nat \ {0}, NEW es \in Suffixes(i)
  PROVE  es \in Seq(WALEntry) /\ Len(es) \in {1, 2} /\ Indexed(es, i - 1)
<1>0. PICK ts \in UNION {[1 .. k -> 1 .. currentTerm] : k \in 1 .. 2} :
        es = [j \in DOMAIN ts |-> [index |-> i + j - 1, term |-> ts[j]]]
  BY DEF Suffixes
<1>1. PICK k \in 1 .. 2 : ts \in [1 .. k -> 1 .. currentTerm]
  OBVIOUS
<1>2. k \in {1, 2} /\ k \in Nat /\ DOMAIN ts = 1 .. k
  BY <1>1
<1>3. es = [j \in 1 .. k |-> [index |-> i + j - 1, term |-> ts[j]]]
  BY <1>0, <1>2
<1>4. ASSUME NEW j \in 1 .. k
      PROVE  /\ [index |-> i + j - 1, term |-> ts[j]] \in WALEntry
             /\ [index |-> i + j - 1, term |-> ts[j]].index = i + j - 1
  <2>1. ts[j] \in Nat /\ i + j - 1 \in Nat
    BY <1>1, <1>2
  <2>. QED  BY <2>1 DEF WALEntry
<1>5. es \in Seq(WALEntry) /\ Len(es) = k
  BY <1>2, <1>3, <1>4
<1>6. \A j \in 1 .. k : es[j].index = i + j - 1
  BY <1>3, <1>4
<1>7. \A j \in 1 .. k : i + j - 1 = i - 1 + j
  BY <1>2
<1>. QED  BY <1>2, <1>5, <1>6, <1>7 DEF Indexed

LEMMA OrderedNext ==
  ASSUME OrderInv, [Next]_vars
  PROVE  OrderInv'
<1>0. currentTerm \in Nat /\ votedFor \in Voted /\ log \in Seq(WALEntry) /\ up \in BOOLEAN
  BY DEF OrderInv, WALTypes
<1>1. CASE becomeFollower
  <2>1. PICK t \in currentTerm + 1 .. MaxTerm : SaveState(t, NoNode)
    BY <1>1 DEF becomeFollower
  <2>2. t \in Nat /\ currentTerm < t
    BY <1>0, WALBoundAssumption
  <2>. QED  BY <2>1, <2>2, OrderedSaveState DEF Voted, Earlier
<1>2. CASE becomeCandidate
  <2>1. currentTerm + 1 \in Nat /\ currentTerm < currentTerm + 1
    BY <1>0
  <2>. QED  BY <1>2, <2>1, OrderedSaveState DEF Voted, Earlier, becomeCandidate
<1>3. CASE GrantVote
  BY <1>0, <1>3, OrderedSaveState DEF Voted, Earlier, GrantVote
<1>4. CASE Propose \/ becomeLeader
  BY <1>4, OwnEntryTyped, OrderedSaveEntries DEF Propose, becomeLeader
<1>5. CASE AppendMissing
  <2>1. PICK es \in Suffixes(Len(log) + 1) : SaveEntries(es, TRUE)
    BY <1>5 DEF AppendMissing
  <2>2. Len(log) + 1 \in Nat \ {0}
    BY <1>0, LenProperties
  <2>. QED  BY <1>0, <2>1, <2>2, SuffixesTyped, OrderedSaveEntries
<1>6. CASE OverwriteConflict
  <2>1. PICK i \in 1 .. Len(log) : \E es \in Suffixes(i) : Truncate(i, es)
    BY <1>6 DEF OverwriteConflict
  <2>2. PICK es \in Suffixes(i) : Truncate(i, es)
    BY <2>1
  <2>3. i \in Nat \ {0}
    OBVIOUS
  <2>. QED  BY <1>0, <2>2, <2>3, SuffixesTyped, OrderedTruncate
<1>7. CASE SyncRewrite
  BY <1>7, OrderedSyncRewrite
<1>8. CASE Sync \/ SyncFails
  <2>1. Finish(TRUE) \/ Finish(FALSE)
    BY <1>8 DEF Sync, SyncFails
  <2>2. buffer' = <<>> /\ file' = file \o buffer
    BY <1>8 DEF Sync, SyncFails, Flushed
  <2>. QED  BY <2>1, <2>2, FinishTyped, OrderedEnds
<1>9. CASE FlushFails
  <2>1. Finish(FALSE) /\ buffer' = <<>> /\ file' \in PartlyWritten \cup PartlyTorn
    BY <1>9 DEF FlushFails
  <2>. QED  BY <2>1, FinishTyped, OrderedEnds
<1>10. CASE Commit \/ Stop
  BY <1>10 DEF Commit, Stop, memory, disk, OrderInv, WALTypes, OpTypes, Quiet, Chronicle
<1>11. CASE Crash
  <2>1. /\ file' \in {file \o buffer} \cup PartlyWritten \cup PartlyTorn
        /\ buffer' = <<>> /\ op' = Idle /\ up' = FALSE
        /\ currentTerm' = currentTerm /\ votedFor' = votedFor /\ log' = log
    BY <1>11 DEF Crash, memory
  <2>. QED  BY <1>0, <2>1, OrderedEnds
<1>12. CASE Restart
  BY <1>12, OrderedRestart
<1>13. CASE UNCHANGED vars
  BY <1>13 DEF vars, memory, disk, OrderInv, WALTypes, OpTypes, Quiet, Chronicle
<1>. QED
  BY <1>1, <1>2, <1>3, <1>4, <1>5, <1>6, <1>7, <1>8, <1>9, <1>10, <1>11, <1>12, <1>13
     DEF Next

LEMMA OrderedInit ==
  ASSUME Init
  PROVE  OrderInv
<1>1. /\ up = TRUE /\ currentTerm = 0 /\ votedFor = NoNode /\ log = <<>>
      /\ file = <<>> /\ buffer = <<>> /\ op = Idle
  BY DEF Init
<1>2. file \in Seq(Record) /\ log \in Seq(WALEntry) /\ buffer \in Seq(Record)
  BY <1>1, EmptySeq
<1>3. file \o buffer = <<>>
  BY <1>1, <1>2, ConcatEmptySeq
<1>4. Chronicle
  BY <1>3, NothingOrdered DEF Chronicle
<1>5. OpTypes /\ op.kind = "idle"
  BY <1>1, IdleOp
<1>. QED  BY <1>1, <1>2, <1>4, <1>5 DEF OrderInv, WALTypes, Quiet, Voted

(* The states in file and buffer are in the order in which the node had    *)
(* them, through every fault: the write order of SaveState, what a write   *)
(* that is cut short leaves, and the rewrite keep it.                      *)
THEOREM StatesInOrder == Spec => []OrderInv
BY OrderedInit, OrderedNext, PTL DEF Spec

(* A node never comes back ahead of itself or with another vote than the   *)
(* one it gave, through every fault of file and writer (NewRaftNode's      *)
(* ReadAll after any of them).                                             *)
THEOREM NeverAhead == Spec => []RecoveryNotAhead
<1>1. ASSUME OrderInv PROVE RecoveryNotAhead
  <2>1. file \in Seq(Record) /\ currentTerm \in Nat
    BY <1>1 DEF OrderInv, WALTypes
  <2>2. /\ ReadState(file).term \in Nat
        /\ Earlier(ReadState(file).term, ReadState(file).vote, currentTerm, votedFor)
    BY <1>1, <2>1, FileOrdered, OrderedRead
  <2>. QED  BY <2>1, <2>2 DEF RecoveryNotAhead, Earlier
<1>. QED  BY <1>1, StatesInOrder, PTL

-----------------------------------------------------------------------------
(* Files without a torn record: what ReadAll gets from them. *)
Whole(f) == \A k \in 1 .. Len(f) : f[k].kind # "torn"

LEMMA WholeReached ==
  ASSUME NEW f \in Seq(Record), Whole(f)
  PROVE  /\ \A k \in 1 .. Len(f) : Reached(f, k)
         /\ States(f) = {k \in 1 .. Len(f) : f[k].kind = "state"}
         /\ EntryRecords(f) = {k \in 1 .. Len(f) : f[k].kind = "entry"}
<1>1. ASSUME NEW k \in 1 .. Len(f) PROVE Reached(f, k)
  <2>1. Len(f) \in Nat
    BY LenProperties
  <2>2. \A j \in 1 .. k : j \in 1 .. Len(f)
    BY <2>1
  <2>. QED  BY <2>2 DEF Reached, Whole
<1>. QED  BY <1>1, EntryRecordsAre DEF States

LEMMA ListEntries ==
  ASSUME NEW f \in Seq(Record)
  PROVE  \E n \in Nat : \E p : /\ Enumerates(p, n, EntryRecords(f))
                               /\ ReadEntries(f) = ReadAt(f, p, n)
<1>. DEFINE T == EntryRecords(f)
<1>1. Len(f) \in Nat
  BY LenProperties
<1>2. T \in SUBSET (1 .. Len(f))
  BY EntryRecordsAre
<1>. HIDE DEF T
<1>3. PICK n \in Nat : \E p : Enumerates(p, n, T)
  BY <1>1, <1>2, AllListable DEF Listable
<1>4. PICK p : Enumerates(p, n, T)
  BY <1>3
<1>5. T \subseteq Nat
  <2>1. \A k \in 1 .. Len(f) : k \in Nat
    BY <1>1
  <2>. QED  BY <1>2, <2>1
<1>6. ReadEntries(f) = ReadAt(f, p, n)
  BY <1>4, <1>5, InOrderIs DEF ReadEntries, T
<1>. QED  BY <1>4, <1>6 DEF T

(* The entries and the state of nothing. *)
LEMMA ReadNothing ==
  ASSUME NEW f, f = <<>>
  PROVE  /\ f \in Seq(Record) /\ Whole(f) /\ ReadEntries(f) = <<>>
<1>1. f \in Seq(Record) /\ Len(f) = 0
  BY EmptySeq
<1>2. Whole(f)
  BY <1>1 DEF Whole
<1>3. EntryRecords(f) = {}
  <2>1. \A k \in 1 .. Len(f) : FALSE
    BY <1>1
  <2>2. EntryRecords(f) \in SUBSET (1 .. Len(f))
    BY <1>1, EntryRecordsAre
  <2>. QED  BY <2>1, <2>2
<1>4. PICK n \in Nat : \E p : Enumerates(p, n, {}) /\ ReadEntries(f) = ReadAt(f, p, n)
  BY <1>1, <1>3, ListEntries
<1>5. PICK p : Enumerates(p, n, {}) /\ ReadEntries(f) = ReadAt(f, p, n)
  BY <1>4
<1>6. n = 0
  <2>1. \A i \in 1 .. n : p[i] \in {}
    BY <1>5 DEF Enumerates
  <2>2. n = 0 \/ 1 \in 1 .. n
    OBVIOUS
  <2>. QED  BY <2>1, <2>2
<1>7. ReadAt(f, p, 0) = <<>>
  BY DEF ReadAt
<1>. QED  BY <1>1, <1>2, <1>5, <1>6, <1>7

LEMMA IsJoined ==
  ASSUME NEW E, NEW a \in Seq(E), NEW b \in Seq(E), NEW s \in Seq(E),
         Len(s) = Len(a) + Len(b), \A i \in 1 .. Len(a) : s[i] = a[i],
         \A i \in 1 .. Len(b) : s[Len(a) + i] = b[i]
  PROVE  s = a \o b
<1>. DEFINE t == a \o b
<1>1. Len(a) \in Nat /\ Len(b) \in Nat
  BY LenProperties
<1>2. /\ t \in Seq(E) /\ Len(t) = Len(a) + Len(b)
      /\ \A i \in 1 .. Len(a) + Len(b) : t[i] = IF i <= Len(a) THEN a[i] ELSE b[i - Len(a)]
  BY ConcatProperties
<1>. HIDE DEF t
<1>3. ASSUME NEW i \in 1 .. Len(s) PROVE s[i] = t[i]
  <2>0. i \in 1 .. Len(a) + Len(b)
    OBVIOUS
  <2>1. CASE i <= Len(a)
    <3>1. i \in 1 .. Len(a)
      BY <1>1, <2>0, <2>1
    <3>. QED  BY <1>2, <2>0, <2>1, <3>1
  <2>2. CASE ~(i <= Len(a))
    <3>1. i - Len(a) \in 1 .. Len(b) /\ Len(a) + (i - Len(a)) = i
      BY <1>1, <2>0, <2>2
    <3>2. s[i] = b[i - Len(a)]
      BY <3>1
    <3>. QED  BY <1>2, <2>0, <2>2, <3>2
  <2>. QED  BY <2>1, <2>2
<1>4. s = t
  BY <1>2, <1>3, SeqEqual
<1>. QED  BY <1>4 DEF t

LEMMA SameReadState ==
  ASSUME NEW f \in Seq(Record), NEW g \in Seq(Record), States(g) = States(f),
         \A k \in States(f) : g[k] = f[k]
  PROVE  ReadState(g) = ReadState(f)
<1>1. CASE States(f) = {}
  BY <1>1, ReadStateIs
<1>2. CASE States(f) # {}
  <2>1. PICK k \in States(f) : ReadState(f) = f[k] /\ \A j \in States(f) : j <= k
    BY <1>2, ReadStateIs
  <2>2. PICK h \in States(f) : ReadState(g) = g[h] /\ \A j \in States(f) : j <= h
    BY <1>2, ReadStateIs
  <2>3. h \in Int /\ k \in Int
    BY DEF States
  <2>4. h = k
    BY <2>1, <2>2, <2>3
  <2>. QED  BY <2>1, <2>2, <2>4
<1>. QED  BY <1>1, <1>2

(* An enumeration goes on with m positions behind all those it has. *)
Behind(n, m) == {n + i : i \in 1 .. m}

Longer(p, c, n, m) == [i \in 1 .. c + m |-> IF i <= c THEN p[i] ELSE n + (i - c)]

GoesOn(q, p, c, n, m) ==
  /\ \A i \in 1 .. c : q[i] = p[i]
  /\ \A i \in 1 .. m : q[c + i] = n + i

LEMMA ListLonger ==
  ASSUME NEW c \in Nat, NEW n \in Nat, NEW m \in Nat, NEW T \in SUBSET (1 .. n), NEW p,
         Enumerates(p, c, T), NEW U, U = T \cup Behind(n, m)
  PROVE  \E q : Enumerates(q, c + m, U) /\ GoesOn(q, p, c, n, m)
<1>0. PICK q : q = Longer(p, c, n, m)
  OBVIOUS
<1>1. \A i \in 1 .. c : p[i] \in T /\ p[i] \in 1 .. n
  BY DEF Enumerates
<1>2. DOMAIN q = 1 .. c + m
  BY <1>0 DEF Longer
<1>3. ASSUME NEW i \in 1 .. c PROVE q[i] = p[i] /\ i \in 1 .. c + m
  <2>1. i \in 1 .. c + m /\ i <= c
    OBVIOUS
  <2>. QED  BY <1>0, <2>1 DEF Longer
<1>4. ASSUME NEW i \in 1 .. m PROVE q[c + i] = n + i /\ c + i \in 1 .. c + m
  <2>1. c + i \in 1 .. c + m /\ ~(c + i <= c) /\ n + ((c + i) - c) = n + i
    OBVIOUS
  <2>. QED  BY <1>0, <2>1 DEF Longer
<1>5. ASSUME NEW k \in 1 .. c + m PROVE k \in 1 .. c \/ \E i \in 1 .. m : k = c + i
  <2>1. CASE k \in 1 .. c
    BY <2>1
  <2>2. CASE ~(k \in 1 .. c)
    <3>1. k - c \in 1 .. m /\ k = c + (k - c)
      BY <2>2
    <3>. QED  BY <3>1
  <2>. QED  BY <2>1, <2>2
<1>6. \A k \in 1 .. c + m : q[k] \in U
  <2>1. \A i \in 1 .. m : n + i \in U
    BY DEF Behind
  <2>. QED  BY <1>1, <1>3, <1>4, <1>5, <2>1
<1>7. q \in [1 .. c + m -> U]
  BY <1>0, <1>6 DEF Longer
<1>8. ASSUME NEW i \in 1 .. c + m, NEW j \in 1 .. c + m, i < j PROVE q[i] < q[j]
  <2>1. CASE j \in 1 .. c
    <3>1. i \in 1 .. c
      BY <1>8, <2>1
    <3>. QED  BY <1>3, <1>8, <2>1, <3>1 DEF Enumerates
  <2>2. CASE \E k \in 1 .. m : j = c + k
    <3>1. PICK k \in 1 .. m : j = c + k
      BY <2>2
    <3>2. q[j] = n + k /\ q[j] > n
      BY <1>4, <3>1
    <3>3. CASE i \in 1 .. c
      <4>1. q[i] \in 1 .. n
        BY <1>1, <1>3, <3>3
      <4>. QED  BY <3>2, <4>1
    <3>4. CASE \E h \in 1 .. m : i = c + h
      <4>1. PICK h \in 1 .. m : i = c + h
        BY <3>4
      <4>2. q[i] = n + h /\ h < k
        BY <1>4, <1>8, <3>1, <4>1
      <4>. QED  BY <3>2, <4>2
    <3>. QED  BY <1>5, <3>3, <3>4
  <2>. QED  BY <1>5, <2>1, <2>2
<1>9. ASSUME NEW u \in U PROVE \E i \in 1 .. c + m : q[i] = u
  <2>1. CASE u \in T
    <3>1. PICK i \in 1 .. c : p[i] = u
      BY <2>1 DEF Enumerates
    <3>. QED  BY <1>3, <3>1
  <2>2. CASE u \in Behind(n, m)
    <3>1. PICK i \in 1 .. m : u = n + i
      BY <2>2 DEF Behind
    <3>. QED  BY <1>4, <3>1
  <2>. QED  BY <2>1, <2>2
<1>10. Enumerates(q, c + m, U)
  <2>. DEFINE d == c + m
  <2>1. /\ d \in Nat /\ q \in [1 .. d -> U]
        /\ \A i, j \in 1 .. d : i < j => q[i] < q[j]
        /\ \A u \in U : \E i \in 1 .. d : q[i] = u
    BY <1>7, <1>8, <1>9
  <2>. HIDE DEF d
  <2>2. Enumerates(q, d, U)
    BY <2>1 DEF Enumerates
  <2>. QED  BY <2>2 DEF d
<1>11. GoesOn(q, p, c, n, m)
  BY <1>3, <1>4 DEF GoesOn
<1>. QED  BY <1>10, <1>11

(* Entries are read back behind those that were there, and leave the state. *)
LEMMA ReadJoined ==
  ASSUME NEW f \in Seq(Record), Whole(f), NEW es \in Seq(WALEntry),
         NEW g, g = f \o Records(es)
  PROVE  /\ g \in Seq(Record) /\ Whole(g)
         /\ ReadEntries(g) = ReadEntries(f) \o es
         /\ ReadState(g) = ReadState(f)
<1>. DEFINE b == Records(es)
            n == Len(f)
            m == Len(es)
            T == EntryRecords(f)
            U == EntryRecords(g)
<1>1. /\ b \in Seq(Record) /\ Len(b) = m
      /\ \A i \in 1 .. m : b[i].kind = "entry" /\ b[i].entry = es[i]
  BY RecordsAre
<1>2. g = f \o b
  OBVIOUS
<1>. HIDE DEF b
<1>3. n \in Nat /\ m \in Nat
  BY LenProperties
<1>4. g \in Seq(Record) /\ Len(g) = n + m
  <2>1. g \in Seq(Record) /\ Len(g) = n + Len(b)
    BY <1>1, <1>2, ConcatProperties
  <2>. QED  BY <1>1, <2>1
<1>5. ASSUME NEW i \in 1 .. n + m PROVE g[i] = IF i <= n THEN f[i] ELSE b[i - n]
  BY <1>1, <1>2, ConcatProperties
<1>6. ASSUME NEW i \in 1 .. n PROVE g[i] = f[i] /\ i \in 1 .. n + m
  <2>1. i \in 1 .. n + m /\ i <= n
    BY <1>3
  <2>. QED  BY <1>5, <2>1
<1>7. ASSUME NEW i \in 1 .. m
      PROVE  g[n + i].kind = "entry" /\ g[n + i].entry = es[i] /\ n + i \in 1 .. n + m
  <2>1. n + i \in 1 .. n + m /\ ~(n + i <= n) /\ (n + i) - n = i
    BY <1>3
  <2>2. g[n + i] = b[i]
    BY <1>5, <2>1
  <2>. QED  BY <1>1, <2>1, <2>2
<1>8. ASSUME NEW k \in 1 .. n + m PROVE k \in 1 .. n \/ \E i \in 1 .. m : k = n + i
  <2>1. CASE k \in 1 .. n
    BY <2>1
  <2>2. CASE ~(k \in 1 .. n)
    <3>1. k - n \in 1 .. m /\ k = n + (k - n)
      BY <1>3, <2>2
    <3>. QED  BY <3>1
  <2>. QED  BY <2>1, <2>2
<1>. HIDE DEF n, m
<1>9. Whole(g)
  <2>. SUFFICES ASSUME NEW k \in 1 .. n + m PROVE g[k].kind # "torn"
    BY <1>4 DEF Whole
  <2>1. CASE k \in 1 .. n
    BY <1>6, <2>1 DEF Whole, n
  <2>2. CASE \E i \in 1 .. m : k = n + i
    BY <1>7, <2>2
  <2>. QED  BY <1>8, <2>1, <2>2
<1>10. ReadState(g) = ReadState(f)
  <2>1. States(g) = States(f)
    <3>1. States(g) = {k \in 1 .. n + m : g[k].kind = "state"}
      BY <1>4, <1>9, WholeReached
    <3>2. States(f) = {k \in 1 .. n : f[k].kind = "state"}
      BY WholeReached DEF n
    <3>3. ASSUME NEW k \in States(g) PROVE k \in States(f)
      <4>1. k \in 1 .. n + m /\ g[k].kind = "state"
        BY <3>1
      <4>2. k \in 1 .. n
        BY <1>7, <1>8, <4>1
      <4>. QED  BY <1>6, <3>2, <4>1, <4>2
    <3>4. ASSUME NEW k \in States(f) PROVE k \in States(g)
      BY <1>6, <3>1, <3>2
    <3>. QED  BY <3>3, <3>4
  <2>2. \A k \in States(f) : g[k] = f[k]
    BY <1>6 DEF States, n
  <2>. QED  BY <1>4, <2>1, <2>2, SameReadState
<1>11. U = T \cup Behind(n, m)
  <2>1. U = {k \in 1 .. n + m : g[k].kind = "entry"}
    BY <1>4, <1>9, WholeReached
  <2>2. T = {k \in 1 .. n : f[k].kind = "entry"}
    BY WholeReached DEF n
  <2>. HIDE DEF U, T
  <2>3. ASSUME NEW k \in U PROVE k \in T \cup Behind(n, m)
    BY <1>6, <1>8, <2>1, <2>2 DEF Behind
  <2>4. ASSUME NEW k \in T PROVE k \in U
    BY <1>6, <2>1, <2>2
  <2>5. ASSUME NEW i \in 1 .. m PROVE n + i \in U
    BY <1>7, <2>1
  <2>. QED  BY <2>3, <2>4, <2>5 DEF Behind
<1>12. T \in SUBSET (1 .. n)
  BY EntryRecordsAre DEF n
<1>13. PICK c \in Nat : \E p : Enumerates(p, c, T) /\ ReadEntries(f) = ReadAt(f, p, c)
  BY ListEntries
<1>14. PICK p : Enumerates(p, c, T) /\ ReadEntries(f) = ReadAt(f, p, c)
  BY <1>13
<1>15. U \subseteq Nat
  <2>1. \A k \in 1 .. n : k \in Nat
    BY <1>3
  <2>2. \A i \in 1 .. m : n + i \in Nat
    BY <1>3
  <2>. QED  BY <1>11, <1>12, <2>1, <2>2 DEF Behind
<1>. HIDE DEF T, U
<1>. DEFINE d == c + m
<1>16. PICK q : Enumerates(q, d, U) /\ GoesOn(q, p, c, n, m)
  <2>1. Enumerates(p, c, T)
    BY <1>14
  <2>. QED  BY <1>3, <1>11, <1>12, <2>1, ListLonger
<1>17. /\ \A i \in 1 .. c : q[i] = p[i] /\ i \in 1 .. d
       /\ \A i \in 1 .. m : q[c + i] = n + i /\ c + i \in 1 .. d
  <2>1. /\ \A i \in 1 .. c : i \in 1 .. d
        /\ \A i \in 1 .. m : c + i \in 1 .. d
    BY <1>3
  <2>. QED  BY <1>16, <2>1 DEF GoesOn
<1>18. d \in Nat /\ d = c + m
  BY <1>3
<1>. HIDE DEF d
<1>180. ReadEntries(g) = ReadAt(g, q, d)
  BY <1>15, <1>16, InOrderIs DEF ReadEntries, U
<1>. DEFINE A == ReadEntries(f)
            B == ReadEntries(g)
<1>19. A \in Seq(WALEntry) /\ B \in Seq(WALEntry)
  BY <1>4, InOrderTyped DEF ReadEntries
<1>20. Len(A) = c /\ \A i \in 1 .. c : A[i] = f[p[i]].entry
  BY <1>14, ReadAtIs
<1>21. Len(B) = d /\ \A i \in 1 .. d : B[i] = g[q[i]].entry
  <2>1. d \in Nat
    BY <1>18
  <2>2. PICK h : h = g
    OBVIOUS
  <2>3. /\ Len(ReadAt(h, q, d)) = d
        /\ \A i \in 1 .. d : ReadAt(h, q, d)[i] = h[q[i]].entry
    BY <2>1, ReadAtIs
  <2>. QED  BY <1>180, <2>2, <2>3
<1>. HIDE DEF A, B
<1>22. ASSUME NEW i \in 1 .. c PROVE B[i] = A[i]
  <2>1. p[i] \in T
    BY <1>14 DEF Enumerates
  <2>2. p[i] \in 1 .. n
    BY <1>12, <2>1
  <2>3. i \in 1 .. d
    BY <1>17
  <2>4. B[i] = g[q[i]].entry /\ q[i] = p[i] /\ g[p[i]] = f[p[i]]
    BY <1>6, <1>17, <1>21, <2>2, <2>3
  <2>. QED  BY <1>20, <2>4
<1>23. ASSUME NEW i \in 1 .. m PROVE B[c + i] = es[i]
  <2>1. B[c + i] = g[q[c + i]].entry /\ q[c + i] = n + i
    BY <1>17, <1>21
  <2>. QED  BY <1>7, <2>1
<1>24. B = A \o es
  <2>1. Len(B) = Len(A) + Len(es)
    BY <1>18, <1>20, <1>21 DEF m
  <2>2. \A i \in 1 .. Len(A) : B[i] = A[i]
    BY <1>20, <1>22
  <2>3. \A i \in 1 .. Len(es) : B[Len(A) + i] = es[i]
    BY <1>20, <1>23 DEF m
  <2>. QED  BY <1>19, <2>1, <2>2, <2>3, IsJoined
<1>. QED  BY <1>4, <1>9, <1>10, <1>24 DEF A, B

(* g is the file f with a saved term and vote at its end. *)
Saves(g, f, t, v) == g = Append(f, StateRecord(t, v))

(* A saved term and vote is the state that is read back. *)
LEMMA ReadSaved ==
  ASSUME NEW f \in Seq(Record), Whole(f), NEW t \in Nat, NEW v \in Voted,
         NEW g, Saves(g, f, t, v)
  PROVE  /\ g \in Seq(Record) /\ Whole(g)
         /\ ReadEntries(g) = ReadEntries(f)
         /\ ReadState(g) = StateRecord(t, v)
<1>. DEFINE r == StateRecord(t, v)
            n == Len(f)
<1>1. r \in Record /\ r.kind = "state"
  BY DEF StateRecord, Record, StateRecords
<1>2. g = Append(f, r)
  BY DEF Saves
<1>. HIDE DEF r
<1>3. n \in Nat /\ g \in Seq(Record) /\ Len(g) = n + 1 /\ g[n + 1] = r
  BY <1>1, <1>2, LenProperties, AppendProperties
<1>4. \A i \in 1 .. n : g[i] = f[i]
  BY <1>1, <1>2, AppendProperties
<1>. HIDE DEF n
<1>5. \A k \in 1 .. n + 1 : k \in 1 .. n \/ k = n + 1
  BY <1>3
<1>50. \A k \in 1 .. n : k \in 1 .. n + 1 /\ k <= n + 1
  BY <1>3
<1>6. Whole(g)
  BY <1>1, <1>3, <1>4, <1>5 DEF Whole, n
<1>7. ReadState(g) = r
  <2>1. States(g) = {k \in 1 .. n + 1 : g[k].kind = "state"}
    BY <1>3, <1>6, WholeReached
  <2>2. n + 1 \in States(g) /\ \A k \in States(g) : k <= n + 1 /\ k \in Int
    BY <1>1, <1>3, <2>1
  <2>3. PICK k \in States(g) : ReadState(g) = g[k] /\ \A j \in States(g) : j <= k
    BY <1>3, <2>2, ReadStateIs
  <2>4. k = n + 1
    BY <1>3, <2>2, <2>3
  <2>. QED  BY <1>3, <2>3, <2>4
<1>8. EntryRecords(g) = EntryRecords(f)
  <2>1. EntryRecords(g) = {k \in 1 .. n + 1 : g[k].kind = "entry"}
    BY <1>3, <1>6, WholeReached
  <2>2. EntryRecords(f) = {k \in 1 .. n : f[k].kind = "entry"}
    BY WholeReached DEF n
  <2>. QED  BY <1>1, <1>3, <1>4, <1>5, <1>50, <2>1, <2>2
<1>9. PICK c \in Nat : \E p : /\ Enumerates(p, c, EntryRecords(f))
                              /\ ReadEntries(f) = ReadAt(f, p, c)
  BY ListEntries
<1>10. PICK p : Enumerates(p, c, EntryRecords(f)) /\ ReadEntries(f) = ReadAt(f, p, c)
  BY <1>9
<1>11. EntryRecords(f) \in SUBSET (1 .. n)
  BY EntryRecordsAre DEF n
<1>12. EntryRecords(f) \subseteq Nat
  <2>1. \A k \in 1 .. n : k \in Nat
    BY <1>3
  <2>. QED  BY <1>11, <2>1
<1>13. ReadEntries(g) = ReadAt(g, p, c)
  <2>1. Enumerates(p, c, EntryRecords(g)) /\ EntryRecords(g) \subseteq Nat
    BY <1>8, <1>10, <1>12
  <2>2. PICK h : h = g
    OBVIOUS
  <2>3. InOrder(h, EntryRecords(g)) = ReadAt(h, p, c)
    BY <2>1, InOrderIs
  <2>. QED  BY <2>2, <2>3 DEF ReadEntries
<1>14. \A i \in 1 .. c : g[p[i]] = f[p[i]]
  BY <1>4, <1>10, <1>11 DEF Enumerates
<1>15. ReadAt(g, p, c) = ReadAt(f, p, c)
  BY <1>14 DEF ReadAt
<1>. QED  BY <1>3, <1>6, <1>7, <1>10, <1>13, <1>15 DEF r

(* What a rewrite keeps of a file whose entries carry their positions. *)
LEMMA ReadCut ==
  ASSUME NEW f \in Seq(Record), Indexed(ReadEntries(f), 0),
         NEW i \in 1 .. Len(ReadEntries(f))
  PROVE  InOrder(f, {k \in EntryRecords(f) : f[k].entry.index < i})
           = SubSeq(ReadEntries(f), 1, i - 1)
<1>. DEFINE l == ReadEntries(f)
            T == EntryRecords(f)
            U == {k \in T : f[k].entry.index < i}
            m == i - 1
<1>0. PICK c \in Nat : \E p : Enumerates(p, c, T) /\ l = ReadAt(f, p, c)
  BY ListEntries
<1>1. PICK p : Enumerates(p, c, T) /\ l = ReadAt(f, p, c)
  BY <1>0
<1>2. l \in Seq(WALEntry)
  BY InOrderTyped DEF ReadEntries
<1>. HIDE DEF l
<1>3. Len(l) = c /\ \A j \in 1 .. c : l[j] = f[p[j]].entry
  BY <1>1, ReadAtIs
<1>4. \A j \in 1 .. c : f[p[j]].entry.index = j
  <2>1. \A j \in 1 .. c : l[j].index = 0 + j /\ 0 + j = j
    BY <1>3 DEF Indexed, l
  <2>. QED  BY <1>3, <2>1
<1>5. i \in 1 .. c
  BY <1>3 DEF l
<1>6. m \in Nat /\ \A j \in 1 .. m : j \in 1 .. c /\ j < i
  BY <1>5
<1>7. \A j \in 1 .. c : j < i => j \in 1 .. m
  BY <1>5
<1>. HIDE DEF m
<1>8. /\ \A j \in 1 .. c : p[j] \in T
      /\ \A j, k \in 1 .. c : j < k => p[j] < p[k]
      /\ \A k \in T : \E j \in 1 .. c : p[j] = k
  BY <1>1 DEF Enumerates
<1>. HIDE DEF T
<1>. DEFINE q == [j \in 1 .. m |-> p[j]]
<1>9. \A j \in 1 .. m : q[j] = p[j] /\ p[j] \in U
  BY <1>4, <1>6, <1>8
<1>10. q \in [1 .. m -> U]
  BY <1>9
<1>11. \A j, k \in 1 .. m : j < k => q[j] < q[k]
  BY <1>6, <1>8, <1>9
<1>12. ASSUME NEW u \in U PROVE \E j \in 1 .. m : q[j] = u
  <2>1. PICK j \in 1 .. c : p[j] = u
    BY <1>8
  <2>2. j < i
    BY <1>4, <2>1
  <2>. QED  BY <1>7, <1>9, <2>1, <2>2
<1>. HIDE DEF q, U
<1>13. Enumerates(q, m, U)
  BY <1>6, <1>10, <1>11, <1>12 DEF Enumerates
<1>14. U \subseteq Nat
  <2>1. T \in SUBSET (1 .. Len(f)) /\ Len(f) \in Nat
    BY EntryRecordsAre, LenProperties DEF T
  <2>2. \A k \in 1 .. Len(f) : k \in Nat
    BY <2>1
  <2>. QED  BY <2>1, <2>2 DEF U
<1>15. InOrder(f, U) = ReadAt(f, q, m)
  BY <1>13, <1>14, InOrderIs
<1>16. /\ Len(ReadAt(f, q, m)) = m
       /\ \A j \in 1 .. m : ReadAt(f, q, m)[j] = f[q[j]].entry
  BY <1>6, ReadAtIs
<1>17. U \in SUBSET EntryRecords(f)
  BY DEF U, T
<1>18. ReadAt(f, q, m) \in Seq(WALEntry)
  BY <1>15, <1>17, InOrderTyped
<1>19. m \in 0 .. Len(l)
  BY <1>3, <1>5 DEF m
<1>20. /\ SubSeq(l, 1, m) \in Seq(WALEntry) /\ Len(SubSeq(l, 1, m)) = m
       /\ \A j \in 1 .. m : SubSeq(l, 1, m)[j] = l[j]
  BY <1>2, <1>19, Prefix
<1>21. \A j \in 1 .. m : ReadAt(f, q, m)[j] = SubSeq(l, 1, m)[j]
  BY <1>3, <1>6, <1>9, <1>16, <1>20
<1>22. ReadAt(f, q, m) = SubSeq(l, 1, m)
  BY <1>16, <1>18, <1>20, <1>21, SeqEqual
<1>. QED  BY <1>15, <1>22 DEF U, T, l, m

-----------------------------------------------------------------------------
(* The invariant behind the other three properties.  Calm: nothing went    *)
(* wrong but crashes and a closed file.  Then the file is whole and its    *)
(* entries carry their positions, and while it is open it has what is in   *)
(* memory, up to what the operation under way is about to write.           *)
Calm == happened \subseteq {"rewrite", "stop"}

OnFile(t, v, l) == ReadState(file) = StateRecord(t, v) /\ ReadEntries(file) = l

Mirror ==
  /\ op.kind = "idle" => OnFile(currentTerm, votedFor, log)
  /\ op.kind = "state" => /\ buffer = <<StateRecord(currentTerm, votedFor)>>
                          /\ ReadEntries(file) = log
  /\ op.kind = "append" => /\ buffer = Records(op.es)
                           /\ OnFile(currentTerm, votedFor, log)
                           /\ Indexed(op.es, Len(log))
  /\ op.kind = "rewrite" => /\ buffer = <<StateRecord(currentTerm, votedFor)>>
                                        \o Records(SubSeq(log, 1, op.at - 1))
                            /\ Indexed(log, 0) /\ Indexed(op.es, op.at - 1)
                            /\ MayTruncate(commitIndex, op.at)

Store == Whole(file) /\ Indexed(ReadEntries(file), 0)

Writers ==
  /\ writer \in {"ok", "closed"}
  /\ writer = "closed" => up /\ op = Idle /\ "stop" \in happened

Sound == Calm => Store /\ Writers /\ (up /\ writer = "ok" => Mirror)

(* What callers were told is what was in memory when the operation under   *)
(* way began, less what a rewrite is about to drop.                        *)
Told ==
  /\ promised = [term |-> promised.term, vote |-> promised.vote, log |-> promised.log]
  /\ op.kind = "rewrite" => promised.log = SubSeq(log, 1, op.at - 1)
  /\ op.kind # "rewrite" => promised.log = log
  /\ op.kind # "state" => promised.term = currentTerm /\ promised.vote = votedFor
  /\ op.kind = "state" => /\ ReadState(file) = StateRecord(promised.term, promised.vote)
                          /\ Earlier(promised.term, promised.vote, currentTerm, votedFor)

Promises == happened = {} => (up => Told) /\ PromisesKept

WALInv == OrderInv /\ Sound /\ Promises

LEMMA ReadyToSave ==
  ASSUME WALInv, Ready
  PROVE  /\ op.kind = "idle" /\ buffer = <<>> /\ up
         /\ Calm /\ writer # "closed" =>
              /\ writer = "ok" /\ Store /\ OnFile(currentTerm, votedFor, log)
              /\ Indexed(log, 0)
         /\ happened = {} => /\ writer = "ok" /\ Calm
                             /\ promised.term = currentTerm /\ promised.vote = votedFor
                             /\ promised.log = log
                             /\ promised = [term |-> promised.term, vote |-> promised.vote,
                                            log |-> promised.log]
<1>1. op = Idle /\ up
  BY DEF Ready
<1>2. op.kind = "idle" /\ buffer = <<>>
  BY <1>1 DEF WALInv, OrderInv, Quiet, Idle
<1>3. ASSUME Calm, writer # "closed"
      PROVE  /\ writer = "ok" /\ Store /\ OnFile(currentTerm, votedFor, log)
             /\ Indexed(log, 0)
  <2>1. Store /\ writer = "ok" /\ Mirror
    BY <1>1, <1>3 DEF WALInv, Sound, Writers
  <2>2. OnFile(currentTerm, votedFor, log)
    BY <1>2, <2>1 DEF Mirror
  <2>. QED  BY <2>1, <2>2 DEF Store, OnFile
<1>4. ASSUME happened = {}
      PROVE  /\ writer = "ok" /\ Calm
             /\ promised.term = currentTerm /\ promised.vote = votedFor
             /\ promised.log = log
             /\ promised = [term |-> promised.term, vote |-> promised.vote,
                            log |-> promised.log]
  <2>1. Calm
    BY <1>4 DEF Calm
  <2>2. writer = "ok"
    BY <1>4, <2>1 DEF WALInv, Sound, Writers
  <2>3. Told
    BY <1>1, <1>4 DEF WALInv, Promises
  <2>. QED  BY <1>2, <2>1, <2>2, <2>3 DEF Told
<1>. QED  BY <1>1, <1>2, <1>3, <1>4

(* A call on a node whose file is closed or whose writer is broken. *)
LEMMA NothingSaved ==
  ASSUME WALInv, Ready, writer # "ok", up' = up, file' = file, op' = op,
         writer' = writer, happened' = happened
  PROVE  Sound' /\ Promises'
<1>1. happened # {}
  BY ReadyToSave
<1>2. Calm => writer = "closed" /\ Store /\ Writers
  BY DEF WALInv, Sound, Writers
<1>3. Calm' => Store' /\ Writers'
  BY <1>2 DEF Calm, Store, Writers
<1>. QED  BY <1>1, <1>3 DEF Sound, Promises

LEMMA SavesState ==
  ASSUME WALInv, NEW t \in Nat, NEW v \in Voted,
         Earlier(currentTerm, votedFor, t, v), SaveState(t, v)
  PROVE  Sound' /\ Promises'
<1>1. /\ Ready /\ up' = up /\ file' = file /\ writer' = writer /\ happened' = happened
      /\ currentTerm' = t /\ votedFor' = v /\ log' = log
  BY DEF SaveState
<1>2. CASE writer # "ok"
  BY <1>1, <1>2, NothingSaved DEF SaveState
<1>3. CASE writer = "ok"
  <2>1. buffer' = Append(buffer, StateRecord(t, v)) /\ op' = Saving /\ promised' = promised
    BY <1>3 DEF SaveState
  <2>2. op'.kind = "state" /\ up'
    BY <1>1, <2>1 DEF Saving, Ready
  <2>3. buffer' = <<StateRecord(t, v)>>
    BY <1>1, <2>1, ReadyToSave
  <2>4. ASSUME Calm' PROVE Store' /\ Writers' /\ Mirror'
    <3>1. Store /\ ReadEntries(file) = log
      BY <1>1, <1>3, <2>4, ReadyToSave DEF Calm, OnFile
    <3>2. Mirror'
      BY <1>1, <2>2, <2>3, <3>1 DEF Mirror
    <3>. QED  BY <1>1, <1>3, <3>1, <3>2 DEF Store, Writers
  <2>5. ASSUME happened' = {} PROVE Told' /\ PromisesKept'
    <3>1. /\ OnFile(currentTerm, votedFor, log)
          /\ promised.term = currentTerm /\ promised.vote = votedFor /\ promised.log = log
          /\ promised = [term |-> promised.term, vote |-> promised.vote,
                         log |-> promised.log]
      BY <1>1, <1>3, <2>5, ReadyToSave
    <3>2. Told'
      BY <1>1, <2>1, <2>2, <3>1 DEF Told, OnFile
    <3>. QED  BY <2>2, <3>2 DEF PromisesKept
  <2>. QED  BY <2>4, <2>5 DEF Sound, Promises
<1>. QED  BY <1>2, <1>3

LEMMA SavesEntries ==
  ASSUME WALInv, NEW es \in Seq(WALEntry), NEW b \in BOOLEAN, SaveEntries(es, b),
         Indexed(log, 0) => Indexed(es, Len(log))
  PROVE  Sound' /\ Promises'
<1>1. /\ Ready /\ up' = up /\ file' = file /\ writer' = writer /\ happened' = happened
      /\ currentTerm' = currentTerm /\ votedFor' = votedFor
  BY DEF SaveEntries
<1>2. CASE writer # "ok"
  BY <1>1, <1>2, NothingSaved DEF SaveEntries
<1>3. CASE writer = "ok"
  <2>1. /\ buffer' = buffer \o Records(es) /\ op' = Appending(es, b)
        /\ promised' = promised /\ log' = log
    BY <1>3 DEF SaveEntries
  <2>2. op'.kind = "append" /\ op'.es = es /\ up'
    BY <1>1, <2>1 DEF Appending, Ready
  <2>3. buffer' = Records(es)
    BY <1>1, <2>1, ReadyToSave, RecordsAre, ConcatEmptySeq
  <2>4. ASSUME Calm' PROVE Store' /\ Writers' /\ Mirror'
    <3>1. Store /\ OnFile(currentTerm, votedFor, log) /\ Indexed(es, Len(log))
      BY <1>1, <1>3, <2>4, ReadyToSave DEF Calm
    <3>2. Mirror'
      BY <1>1, <2>1, <2>2, <2>3, <3>1 DEF Mirror, OnFile
    <3>. QED  BY <1>1, <1>3, <3>1, <3>2 DEF Store, Writers
  <2>5. ASSUME happened' = {} PROVE Told' /\ PromisesKept'
    <3>1. /\ promised.term = currentTerm /\ promised.vote = votedFor /\ promised.log = log
          /\ promised = [term |-> promised.term, vote |-> promised.vote,
                         log |-> promised.log]
      BY <1>1, <1>3, <2>5, ReadyToSave
    <3>2. Told'
      BY <1>1, <2>1, <2>2, <3>1 DEF Told
    <3>. QED  BY <2>2, <3>2 DEF PromisesKept
  <2>. QED  BY <2>4, <2>5 DEF Sound, Promises
<1>. QED  BY <1>2, <1>3

(* A rewritten file. *)
LEMMA ReadRewritten ==
  ASSUME NEW t \in Nat, NEW v \in Voted, NEW es \in Seq(WALEntry),
         NEW g, g = <<StateRecord(t, v)>> \o Records(es)
  PROVE  /\ g \in Seq(Record) /\ Whole(g)
         /\ ReadEntries(g) = es /\ ReadState(g) = StateRecord(t, v)
<1>1. PICK n : n = <<>>
  OBVIOUS
<1>2. n \in Seq(Record) /\ Whole(n) /\ ReadEntries(n) = <<>>
  BY <1>1, ReadNothing
<1>3. PICK a : a = Append(n, StateRecord(t, v))
  OBVIOUS
<1>4. /\ a \in Seq(Record) /\ Whole(a)
      /\ ReadEntries(a) = <<>> /\ ReadState(a) = StateRecord(t, v)
  <2>1. /\ a \in Seq(Record) /\ Whole(a)
        /\ ReadEntries(a) = ReadEntries(n) /\ ReadState(a) = StateRecord(t, v)
    <3>1. Saves(a, n, t, v)
      BY <1>3 DEF Saves
    <3>. QED  BY <1>2, <3>1, ReadSaved
  <2>. QED  BY <1>2, <2>1
<1>5. a = <<StateRecord(t, v)>>
  BY <1>1, <1>3
<1>6. g = a \o Records(es)
  BY <1>5
<1>7. /\ g \in Seq(Record) /\ Whole(g)
      /\ ReadEntries(g) = ReadEntries(a) \o es /\ ReadState(g) = ReadState(a)
  BY <1>4, <1>6, ReadJoined
<1>8. <<>> \o es = es
  BY ConcatEmptySeq
<1>. QED  BY <1>4, <1>7, <1>8

LEMMA KeptRewritten ==
  ASSUME NEW f \in Seq(Record), NEW l, ReadEntries(f) = l, Indexed(l, 0),
         NEW i \in 1 .. Len(l)
  PROVE  Kept(f, i) = <<ReadState(f)>> \o Records(SubSeq(l, 1, i - 1))
<1>1. InOrder(f, {k \in EntryRecords(f) : f[k].entry.index < i}) = SubSeq(l, 1, i - 1)
  BY ReadCut
<1>. QED  BY <1>1 DEF Kept

LEMMA StartsRewrite ==
  ASSUME WALInv, NEW i \in 1 .. Len(log), NEW es \in Seq(WALEntry), Truncate(i, es),
         Indexed(es, i - 1)
  PROVE  Sound' /\ Promises'
<1>1. /\ Ready /\ up' = up /\ currentTerm' = currentTerm /\ votedFor' = votedFor
      /\ log' = log /\ commitIndex' = commitIndex /\ writer # "closed" /\ writer' = "ok"
      /\ file' = <<>> /\ buffer' = Kept(file, i) /\ op' = Rewriting(i, es)
  BY DEF Truncate, memory
<1>2. op'.kind = "rewrite" /\ op'.at = i /\ op'.es = es /\ up'
  BY <1>1 DEF Rewriting, Ready
<1>3. happened \subseteq happened'
  BY DEF Truncate, Happens
<1>4. file' \in Seq(Record) /\ Whole(file') /\ ReadEntries(file') = <<>>
  BY <1>1, ReadNothing
<1>5. ASSUME Calm' PROVE Store' /\ Writers' /\ Mirror' /\ MayTruncate(commitIndex, i)
  <2>1. MayTruncate(commitIndex, i)
    <3>1. "cut" \notin happened'
      BY <1>5 DEF Calm
    <3>. QED  BY <3>1 DEF Truncate, Happens
  <2>2. Calm
    BY <1>3, <1>5 DEF Calm
  <2>3. /\ ReadState(file) = StateRecord(currentTerm, votedFor)
        /\ ReadEntries(file) = log /\ Indexed(log, 0)
    BY <1>1, <2>2, ReadyToSave DEF OnFile
  <2>4. file \in Seq(Record)
    BY DEF WALInv, OrderInv, WALTypes
  <2>5. Kept(file, i) = <<ReadState(file)>> \o Records(SubSeq(log, 1, i - 1))
    BY <2>3, <2>4, KeptRewritten
  <2>6. buffer' = <<StateRecord(currentTerm, votedFor)>> \o Records(SubSeq(log, 1, i - 1))
    BY <1>1, <2>3, <2>5
  <2>7. Mirror'
    BY <1>1, <1>2, <2>1, <2>3, <2>6 DEF Mirror
  <2>8. Store'
    <3>1. \A k \in 1 .. Len(<<>>) : FALSE
      OBVIOUS
    <3>. QED  BY <1>4, <3>1 DEF Store, Indexed
  <2>. QED  BY <1>1, <2>1, <2>7, <2>8 DEF Writers
<1>6. ASSUME happened' = {} PROVE Told' /\ PromisesKept'
  <2>1. happened = {} /\ MayTruncate(commitIndex, i)
    BY <1>3, <1>5, <1>6 DEF Calm
  <2>2. promised' = [promised EXCEPT !.log = SubSeq(promised.log, 1, i - 1)]
    BY <2>1 DEF Truncate
  <2>3. /\ promised.term = currentTerm /\ promised.vote = votedFor /\ promised.log = log
        /\ promised = [term |-> promised.term, vote |-> promised.vote,
                       log |-> promised.log]
    BY <1>1, <2>1, ReadyToSave
  <2>4. /\ promised' = [term |-> currentTerm, vote |-> votedFor,
                        log |-> SubSeq(log, 1, i - 1)]
    BY <2>2, <2>3
  <2>5. Told'
    BY <1>1, <1>2, <2>4 DEF Told
  <2>. QED  BY <1>2, <2>5 DEF PromisesKept
<1>. QED  BY <1>5, <1>6 DEF Sound, Promises

LEMMA EndsRewrite ==
  ASSUME WALInv, SyncRewrite
  PROVE  Sound' /\ Promises'
<1>1. /\ op.kind = "rewrite" /\ up /\ up' = up /\ file' = buffer
      /\ currentTerm' = currentTerm /\ votedFor' = votedFor
      /\ commitIndex' = commitIndex /\ writer' = writer /\ happened' = happened
      /\ promised' = promised
  BY DEF SyncRewrite
<1>2. /\ log \in Seq(WALEntry) /\ currentTerm \in Nat /\ votedFor \in Voted
      /\ op.at \in 1 .. Len(log) /\ op.es \in Seq(WALEntry) /\ op # Idle
  BY <1>1 DEF WALInv, OrderInv, WALTypes, OpTypes, Idle
<1>. DEFINE l == SubSeq(log, 1, op.at - 1)
            es == op.es
<1>3. Len(log) \in Nat
  BY <1>2, LenProperties
<1>4. op.at - 1 \in 0 .. Len(log)
  BY <1>2, <1>3
<1>5. l \in Seq(WALEntry) /\ Len(l) = op.at - 1 /\ \A k \in 1 .. op.at - 1 : l[k] = log[k]
  BY <1>2, <1>4, Prefix
<1>6. ASSUME Calm'
      PROVE  /\ Store' /\ Writers' /\ Mirror'
             /\ log' = l /\ op'.kind = "append"
  <2>1. Calm /\ Writers /\ writer = "ok" /\ Mirror
    BY <1>1, <1>2, <1>6 DEF WALInv, Sound, Calm, Writers
  <2>2. /\ buffer = <<StateRecord(currentTerm, votedFor)>> \o Records(l)
        /\ Indexed(log, 0) /\ Indexed(es, op.at - 1) /\ MayTruncate(commitIndex, op.at)
    BY <1>1, <2>1 DEF Mirror
  <2>3. log' = l /\ buffer' = Records(es) /\ op' = Appending(es, TRUE)
    BY <2>2 DEF SyncRewrite, TruncateFrom
  <2>4. op'.kind = "append" /\ op'.es = es
    BY <2>3 DEF Appending
  <2>. HIDE DEF l, es
  <2>5. /\ Whole(buffer) /\ ReadEntries(buffer) = l
        /\ ReadState(buffer) = StateRecord(currentTerm, votedFor)
    BY <1>2, <1>5, <2>2, ReadRewritten
  <2>6. Indexed(l, 0)
    <3>1. \A k \in 1 .. op.at - 1 : k \in 1 .. Len(log)
      BY <1>2, <1>3
    <3>. QED  BY <1>5, <2>2, <3>1 DEF Indexed
  <2>7. Indexed(es, Len(l))
    BY <1>5, <2>2
  <2>8. Mirror'
    BY <1>1, <2>3, <2>4, <2>5, <2>7 DEF Mirror, OnFile
  <2>9. Store'
    BY <1>1, <2>5, <2>6 DEF Store
  <2>. QED  BY <1>1, <2>1, <2>3, <2>4, <2>8, <2>9 DEF Writers
<1>7. ASSUME happened' = {} PROVE Told' /\ PromisesKept'
  <2>1. happened = {} /\ log' = l /\ op'.kind = "append"
    BY <1>1, <1>6, <1>7 DEF Calm
  <2>2. Told
    BY <1>1, <2>1 DEF WALInv, Promises
  <2>3. Told'
    BY <1>1, <2>1, <2>2 DEF Told
  <2>. QED  BY <1>1, <2>3 DEF PromisesKept
<1>. QED  BY <1>6, <1>7 DEF Sound, Promises

LEMMA JoinedIndexed ==
  ASSUME NEW E, NEW l \in Seq(E), NEW es \in Seq(E), Indexed(l, 0), Indexed(es, Len(l))
  PROVE  Indexed(l \o es, 0)
<1>1. Len(l) \in Nat /\ Len(es) \in Nat
  BY LenProperties
<1>2. Len(l \o es) = Len(l) + Len(es)
  BY ConcatProperties
<1>3. ASSUME NEW k \in 1 .. Len(l) + Len(es) PROVE (l \o es)[k].index = 0 + k
  <2>1. (l \o es)[k] = IF k <= Len(l) THEN l[k] ELSE es[k - Len(l)]
    BY ConcatProperties
  <2>2. CASE k <= Len(l)
    <3>1. k \in 1 .. Len(l)
      BY <1>1, <2>2
    <3>. QED  BY <2>1, <2>2, <3>1 DEF Indexed
  <2>3. CASE ~(k <= Len(l))
    <3>1. k - Len(l) \in 1 .. Len(es) /\ Len(l) + (k - Len(l)) = 0 + k
      BY <1>1, <2>3
    <3>. QED  BY <2>1, <2>3, <3>1 DEF Indexed
  <2>. QED  BY <2>2, <2>3
<1>. QED  BY <1>2, <1>3 DEF Indexed

LEMMA Syncs ==
  ASSUME WALInv, Sync
  PROVE  Sound' /\ Promises'
<1>1. /\ op.kind \in {"state", "append"} /\ up /\ up' = up
      /\ file' = file \o buffer /\ buffer' = <<>>
      /\ currentTerm' = currentTerm /\ votedFor' = votedFor /\ op' = Idle
      /\ writer' = writer /\ happened' = happened
      /\ promised' = [term |-> currentTerm, vote |-> votedFor, log |-> log']
      /\ log' = IF op.kind = "append" THEN log \o op.es ELSE log
  BY DEF Sync, Flushed, Finish, Promise
<1>2. /\ log \in Seq(WALEntry) /\ currentTerm \in Nat /\ votedFor \in Voted
      /\ file \in Seq(Record) /\ op.kind # "idle" /\ op # Idle
      /\ op.kind = "append" => op.es \in Seq(WALEntry)
  BY <1>1 DEF WALInv, OrderInv, WALTypes, OpTypes, Idle
<1>3. op'.kind = "idle"
  BY <1>1 DEF Idle
<1>4. ASSUME Calm'
      PROVE  Store' /\ Writers' /\ Mirror'
  <2>1. Calm /\ Writers /\ writer = "ok" /\ Mirror /\ Store
    BY <1>1, <1>2, <1>4 DEF WALInv, Sound, Calm, Writers
  <2>2. Whole(file) /\ Indexed(ReadEntries(file), 0)
    BY <2>1 DEF Store
  <2>3. CASE op.kind = "state"
    <3>1. buffer = <<StateRecord(currentTerm, votedFor)>> /\ ReadEntries(file) = log
      BY <2>1, <2>3 DEF Mirror
    <3>2. StateRecord(currentTerm, votedFor) \in Record
      BY <1>2 DEF StateRecord, Record, StateRecords
    <3>3. file' = Append(file, StateRecord(currentTerm, votedFor))
      BY <1>1, <1>2, <3>1, <3>2
    <3>4. /\ Whole(file') /\ ReadEntries(file') = log
          /\ ReadState(file') = StateRecord(currentTerm, votedFor)
      <4>1. /\ Whole(file') /\ ReadEntries(file') = ReadEntries(file)
            /\ ReadState(file') = StateRecord(currentTerm, votedFor)
        <5>1. Saves(file', file, currentTerm, votedFor)
          BY <3>3 DEF Saves
        <5>. QED  BY <1>2, <2>2, <5>1, ReadSaved
      <4>. QED  BY <3>1, <4>1
    <3>5. log' = log
      BY <1>1, <2>3
    <3>6. Store'
      BY <2>2, <3>1, <3>4 DEF Store
    <3>7. Mirror'
      BY <1>1, <1>3, <3>4, <3>5 DEF Mirror, OnFile
    <3>. QED  BY <1>1, <2>1, <3>6, <3>7 DEF Writers
  <2>4. CASE op.kind = "append"
    <3>. DEFINE es == op.es
    <3>1. /\ buffer = Records(es) /\ Indexed(es, Len(log)) /\ ReadEntries(file) = log
          /\ ReadState(file) = StateRecord(currentTerm, votedFor)
      BY <2>1, <2>4 DEF Mirror, OnFile
    <3>2. file' = file \o Records(es) /\ log' = log \o es /\ es \in Seq(WALEntry)
      BY <1>1, <1>2, <2>4, <3>1
    <3>. HIDE DEF es
    <3>3. /\ Whole(file') /\ ReadEntries(file') = log \o es
          /\ ReadState(file') = StateRecord(currentTerm, votedFor)
      BY <1>2, <2>2, <3>1, <3>2, ReadJoined
    <3>4. Indexed(log \o es, 0)
      BY <1>2, <2>2, <3>1, <3>2, JoinedIndexed
    <3>5. Store'
      BY <3>3, <3>4 DEF Store
    <3>6. Mirror'
      BY <1>1, <1>3, <3>2, <3>3 DEF Mirror, OnFile
    <3>. QED  BY <1>1, <2>1, <3>5, <3>6 DEF Writers
  <2>. QED  BY <1>1, <2>3, <2>4
<1>5. Told' /\ PromisesKept'
  <2>1. Told'
    BY <1>1, <1>3 DEF Told
  <2>. QED  BY <1>1, <2>1 DEF PromisesKept
<1>. QED  BY <1>4, <1>5 DEF Sound, Promises

LEMMA Restarts ==
  ASSUME WALInv, Restart
  PROVE  Sound' /\ Promises'
<1>1. /\ ~up /\ up' = TRUE /\ op' = op /\ file' = file /\ buffer' = buffer
      /\ writer' = writer /\ happened' = happened
      /\ currentTerm' = ReadState(file).term /\ votedFor' = ReadState(file).vote
      /\ log' = ReadEntries(file)
      /\ promised' = [term |-> currentTerm', vote |-> votedFor', log |-> log']
  BY DEF Restart, disk, Promise
<1>2. op = Idle /\ file \in Seq(Record) /\ currentTerm \in Nat
  BY <1>1 DEF WALInv, OrderInv, WALTypes, Quiet
<1>3. op'.kind = "idle"
  BY <1>1, <1>2 DEF Idle
<1>4. ReadState(file) = StateRecord(currentTerm', votedFor')
  <2>1. ReadState(file) \in StateRecords
    BY <1>2, FileOrdered, OrderedRead DEF WALInv
  <2>. QED  BY <1>1, <2>1 DEF StateRecords, StateRecord
<1>5. ASSUME Calm' PROVE Store' /\ Writers' /\ Mirror'
  <2>1. Store /\ Writers
    BY <1>1, <1>5 DEF WALInv, Sound, Calm
  <2>2. writer = "ok"
    BY <1>1, <2>1 DEF Writers
  <2>3. Mirror'
    BY <1>1, <1>3, <1>4 DEF Mirror, OnFile
  <2>. QED  BY <1>1, <2>1, <2>2, <2>3 DEF Writers, Store
<1>6. Told' /\ PromisesKept'
  <2>1. Told'
    BY <1>1, <1>3 DEF Told
  <2>. QED  BY <1>1, <2>1 DEF PromisesKept
<1>. QED  BY <1>5, <1>6 DEF Sound, Promises

-----------------------------------------------------------------------------
(* What a crash leaves of the records of an operation. *)
LEMMA PartOfNothing ==
  ASSUME NEW f \in Seq(Record), NEW b, b = <<>>, NEW k \in 0 .. Len(b)
  PROVE  Part(f, b, k) = f
<1>1. Len(b) = 0
  OBVIOUS
<1>2. k = 0
  BY <1>1
<1>3. SubSeq(b, 1, 0) = <<>>
  BY SubSeqEmpty
<1>. QED  BY <1>2, <1>3, ConcatEmptySeq DEF Part

LEMMA PartOfState ==
  ASSUME NEW f \in Seq(Record), NEW r \in Record, NEW b, b = <<r>>, NEW k \in 0 .. Len(b)
  PROVE  Part(f, b, k) = f \/ Part(f, b, k) = Append(f, r)
<1>1. Len(b) = 1 /\ b \in Seq(Record)
  OBVIOUS
<1>2. k = 0 \/ k = 1
  BY <1>1
<1>3. CASE k = 0
  <2>1. SubSeq(b, 1, 0) = <<>>
    BY SubSeqEmpty
  <2>. QED  BY <1>3, <2>1, ConcatEmptySeq DEF Part
<1>4. CASE k = 1
  <2>1. SubSeq(b, 1, 1) = b
    BY <1>1, SubSeqFull
  <2>2. f \o <<r>> = Append(f, r)
    OBVIOUS
  <2>. QED  BY <1>4, <2>1, <2>2 DEF Part
<1>. QED  BY <1>2, <1>3, <1>4

LEMMA PartOfEntries ==
  ASSUME NEW f \in Seq(Record), NEW es \in Seq(WALEntry), NEW k \in 0 .. Len(Records(es))
  PROVE  \E s \in Seq(WALEntry) :
           /\ Part(f, Records(es), k) = f \o Records(s)
           /\ Len(s) <= Len(es) /\ \A i \in 1 .. Len(s) : s[i] = es[i]
<1>. DEFINE b == Records(es)
            s == SubSeq(es, 1, k)
            c == SubSeq(b, 1, k)
            d == Records(s)
<1>1. /\ b \in Seq(Record) /\ Len(b) = Len(es)
      /\ \A i \in 1 .. Len(es) : b[i] = EntryRecord(es[i])
  <2>1. DOMAIN es = 1 .. Len(es)
    BY LenProperties
  <2>. QED  BY <2>1, RecordsAre DEF Records
<1>2. k \in 0 .. Len(es) /\ Len(es) \in Nat
  BY <1>1, LenProperties
<1>3. s \in Seq(WALEntry) /\ Len(s) = k /\ \A i \in 1 .. k : s[i] = es[i]
  BY <1>2, Prefix
<1>. HIDE DEF s
<1>4. /\ d \in Seq(Record) /\ Len(d) = k
      /\ \A i \in 1 .. k : d[i] = EntryRecord(s[i])
  <2>1. DOMAIN s = 1 .. k
    BY <1>3, LenProperties
  <2>. QED  BY <1>3, <2>1, RecordsAre DEF Records
<1>. HIDE DEF b, d
<1>5. c \in Seq(Record) /\ Len(c) = k /\ \A i \in 1 .. k : c[i] = b[i]
  BY <1>1, <1>2, Prefix
<1>. HIDE DEF c
<1>6. ASSUME NEW i \in 1 .. k PROVE c[i] = d[i]
  <2>1. i \in 1 .. Len(es)
    BY <1>2
  <2>2. c[i] = b[i] /\ d[i] = EntryRecord(s[i]) /\ s[i] = es[i]
    BY <1>3, <1>4, <1>5
  <2>3. b[i] = EntryRecord(es[i])
    BY <1>1, <2>1
  <2>. QED  BY <2>2, <2>3
<1>7. c = d
  BY <1>4, <1>5, <1>6, SeqEqual
<1>8. Part(f, b, k) = f \o Records(s)
  BY <1>7 DEF Part, c, d
<1>9. Len(s) <= Len(es) /\ \A i \in 1 .. Len(s) : s[i] = es[i]
  BY <1>2, <1>3
<1>. QED  BY <1>3, <1>8, <1>9, SMTT(30) DEF b

Rewritten(r, l) == <<r>> \o Records(l)

CutRewrite(g, r, l) ==
  \/ g = <<>>
  \/ \E s \in Seq(WALEntry) : /\ g = Rewritten(r, s)
                              /\ Len(s) <= Len(l) /\ \A i \in 1 .. Len(s) : s[i] = l[i]

LEMMA PartOfRewrite ==
  ASSUME NEW r \in Record, NEW l \in Seq(WALEntry), NEW k \in 0 .. Len(Rewritten(r, l))
  PROVE  CutRewrite(Part(<<>>, Rewritten(r, l), k), r, l)
<1>0. PICK a : a = <<r>>
  OBVIOUS
<1>01. PICK b : b = Rewritten(r, l) /\ b = a \o Records(l)
  BY <1>0 DEF Rewritten
<1>. DEFINE n == <<>>
            d == Records(l)
            c == SubSeq(b, 1, k)
            e == SubSeq(d, 1, k - 1)
<1>1. a \in Seq(Record) /\ Len(a) = 1
  BY <1>0
<1>2. d \in Seq(Record) /\ Len(d) \in Nat
  BY RecordsAre, LenProperties
<1>. HIDE DEF d
<1>3. b \in Seq(Record) /\ Len(b) = 1 + Len(d)
  <2>1. b = a \o d
    BY <1>01 DEF d
  <2>2. a \o d \in Seq(Record) /\ Len(a \o d) = Len(a) + Len(d)
    BY <1>1, <1>2, ConcatProperties
  <2>. QED  BY <1>1, <2>1, <2>2
<1>4. \A i \in 1 .. 1 + Len(d) : b[i] = IF i <= 1 THEN a[i] ELSE d[i - 1]
  <2>1. b = a \o d
    BY <1>01 DEF d
  <2>2. \A i \in 1 .. Len(a) + Len(d) : (a \o d)[i] = IF i <= Len(a) THEN a[i] ELSE d[i - Len(a)]
    BY <1>1, <1>2, ConcatProperties
  <2>. QED  BY <1>1, <2>1, <2>2
<1>40. k \in 0 .. Len(b)
  BY <1>01
<1>5. c \in Seq(Record) /\ Len(c) = k /\ \A i \in 1 .. k : c[i] = b[i]
  BY <1>3, <1>40, Prefix
<1>. HIDE DEF c
<1>6. Part(n, b, k) = c
  BY <1>5, ConcatEmptySeq DEF Part, c
<1>7. CASE k = 0
  <2>1. c = <<>>
    BY <1>5, <1>7, EmptySeq
  <2>. QED  BY <1>01, <1>6, <2>1 DEF CutRewrite
<1>8. CASE k # 0
  <2>1. k - 1 \in 0 .. Len(d) /\ k \in Nat /\ k <= 1 + Len(d)
    BY <1>2, <1>3, <1>8, <1>40
  <2>2. e \in Seq(Record) /\ Len(e) = k - 1 /\ \A i \in 1 .. k - 1 : e[i] = d[i]
    BY <1>2, <2>1, Prefix
  <2>. HIDE DEF e
  <2>3. Len(c) = Len(a) + Len(e)
    BY <1>1, <1>5, <2>1, <2>2
  <2>4. ASSUME NEW i \in 1 .. Len(a) PROVE c[i] = a[i]
    <3>1. i = 1 /\ i \in 1 .. k /\ i \in 1 .. 1 + Len(d) /\ i <= 1
      BY <1>1, <1>2, <1>8, <2>1
    <3>. QED  BY <1>4, <1>5, <3>1
  <2>5. ASSUME NEW i \in 1 .. Len(e) PROVE c[Len(a) + i] = e[i]
    <3>1. i \in 1 .. k - 1
      BY <2>2
    <3>2. /\ Len(a) + i = 1 + i /\ 1 + i \in 1 .. k /\ 1 + i \in 1 .. 1 + Len(d)
          /\ ~(1 + i <= 1) /\ (1 + i) - 1 = i
      BY <1>1, <1>2, <2>1, <3>1
    <3>3. c[1 + i] = d[i]
      BY <1>4, <1>5, <3>2
    <3>. QED  BY <2>2, <3>1, <3>2, <3>3
  <2>6. c = a \o e
    BY <1>1, <1>5, <2>2, <2>3, <2>4, <2>5, IsJoined
  <2>7. c = Part(a, Records(l), k - 1)
    BY <2>6 DEF Part, e, d
  <2>8. k - 1 \in 0 .. Len(Records(l))
    BY <2>1 DEF d
  <2>9. \E s \in Seq(WALEntry) :
          /\ Part(a, Records(l), k - 1) = a \o Records(s)
          /\ Len(s) <= Len(l) /\ \A i \in 1 .. Len(s) : s[i] = l[i]
    BY <1>1, <2>8, PartOfEntries
  <2>10. \A s : a \o Records(s) = Rewritten(r, s)
    BY <1>0 DEF Rewritten
  <2>11. CutRewrite(c, r, l)
    BY <2>7, <2>9, <2>10 DEF CutRewrite
  <2>. QED  BY <1>01, <1>6, <2>11
<1>. QED  BY <1>7, <1>8

LEMMA StartIndexed ==
  ASSUME NEW E, NEW s \in Seq(E), NEW l \in Seq(E), NEW n, Indexed(l, n),
         Len(s) <= Len(l), \A i \in 1 .. Len(s) : s[i] = l[i]
  PROVE  Indexed(s, n)
<1>1. Len(s) \in Nat /\ Len(l) \in Nat
  BY LenProperties
<1>2. \A i \in 1 .. Len(s) : i \in 1 .. Len(l)
  BY <1>1
<1>. QED  BY <1>2 DEF Indexed

LEMMA StartOfJoined ==
  ASSUME NEW E, NEW l \in Seq(E), NEW s \in Seq(E)
  PROVE  Len(l \o s) >= Len(l) /\ SubSeq(l \o s, 1, Len(l)) = l
<1>. DEFINE t == l \o s
            n == Len(l)
            u == SubSeq(t, 1, n)
<1>1. n \in Nat /\ Len(s) \in Nat
  BY LenProperties
<1>2. /\ t \in Seq(E) /\ Len(t) = n + Len(s)
      /\ \A i \in 1 .. n + Len(s) : t[i] = IF i <= n THEN l[i] ELSE s[i - n]
  BY ConcatProperties
<1>. HIDE DEF t, n
<1>3. n \in 0 .. Len(t) /\ Len(t) >= n
  BY <1>1, <1>2
<1>4. u \in Seq(E) /\ Len(u) = n /\ \A i \in 1 .. n : u[i] = t[i]
  BY <1>2, <1>3, Prefix
<1>. HIDE DEF u
<1>5. ASSUME NEW i \in 1 .. n PROVE u[i] = l[i]
  <2>1. i \in 1 .. n + Len(s) /\ i <= n
    BY <1>1
  <2>. QED  BY <1>2, <1>4, <2>1
<1>6. u = l
  BY <1>4, <1>5, SeqEqual DEF n
<1>. QED  BY <1>3, <1>6 DEF t, n, u

(* What a node reads back against what callers were told. *)
Honours(s, l, p) ==
  /\ s.term >= p.term
  /\ s.term = p.term => s.vote = p.vote \/ p.vote = NoNode
  /\ Len(l) >= Len(p.log)
  /\ SubSeq(l, 1, Len(p.log)) = p.log

LEMMA CrashLeaves ==
  ASSUME WALInv, Calm, up, NEW k \in 0 .. Len(buffer), NEW g, g = Part(file, buffer, k)
  PROVE  /\ Whole(g) /\ Indexed(ReadEntries(g), 0)
         /\ happened = {} /\ op.kind # "rewrite" =>
              Honours(ReadState(g), ReadEntries(g), promised)
<1>1. /\ log \in Seq(WALEntry) /\ currentTerm \in Nat /\ votedFor \in Voted
      /\ file \in Seq(Record) /\ OpTypes
      /\ op.kind = "append" => op.es \in Seq(WALEntry)
  BY DEF WALInv, OrderInv, WALTypes, OpTypes
<1>2. Whole(file) /\ Indexed(ReadEntries(file), 0) /\ Writers
  BY DEF WALInv, Sound, Store
<1>3. happened = {} => Told
  BY DEF WALInv, Promises
<1>. DEFINE r == StateRecord(currentTerm, votedFor)
<1>4. r \in Record /\ r.term = currentTerm /\ r.vote = votedFor
  BY <1>1 DEF StateRecord, Record, StateRecords
<1>5. /\ ReadState(file) \in StateRecords /\ ReadState(file).term \in Nat
  BY <1>1, FileOrdered, OrderedRead DEF WALInv
<1>6. Len(log) \in Nat /\ Len(log) >= Len(log) /\ SubSeq(log, 1, Len(log)) = log
  BY <1>1, LenProperties, SubSeqFull
<1>7. CASE op.kind = "idle"
  <2>1. buffer = <<>>
    BY <1>1, <1>7 DEF WALInv, OrderInv, Quiet, OpTypes
  <2>2. g = file
    BY <1>1, <2>1, PartOfNothing
  <2>3. ASSUME happened = {} PROVE Honours(ReadState(g), ReadEntries(g), promised)
    <3>1. writer = "ok"
      BY <1>2, <2>3 DEF Writers
    <3>2. ReadState(file) = r /\ ReadEntries(file) = log
      BY <1>7, <3>1 DEF WALInv, Sound, Mirror, OnFile
    <3>3. promised.log = log /\ promised.term = currentTerm /\ promised.vote = votedFor
      BY <1>3, <1>7, <2>3 DEF Told
    <3>. QED  BY <1>1, <1>4, <1>6, <2>2, <3>2, <3>3 DEF Honours
  <2>. QED  BY <1>2, <2>2, <2>3
<1>8. CASE op.kind # "idle"
  <2>1. writer = "ok" /\ Mirror
    BY <1>2, <1>8 DEF Writers, WALInv, Sound, Idle
  <2>2. CASE op.kind = "state"
    <3>1. buffer = <<r>> /\ ReadEntries(file) = log
      BY <2>1, <2>2 DEF Mirror
    <3>2. g = file \/ g = Append(file, r)
      BY <1>1, <1>4, <3>1, PartOfState
    <3>3. ASSUME happened = {}
          PROVE  /\ promised.log = log
                 /\ ReadState(file) = StateRecord(promised.term, promised.vote)
                 /\ Earlier(promised.term, promised.vote, currentTerm, votedFor)
      BY <1>3, <2>2, <3>3 DEF Told
    <3>4. CASE g = file
      <4>1. ASSUME happened = {} PROVE Honours(ReadState(g), ReadEntries(g), promised)
        <5>1. /\ ReadState(file).term = promised.term /\ ReadState(file).vote = promised.vote
          BY <3>3, <4>1 DEF StateRecord
        <5>2. promised.log = log
          BY <3>3, <4>1
        <5>3. ReadState(file).term >= promised.term
          BY <1>5, <5>1
        <5>. QED  BY <1>6, <3>1, <3>4, <5>1, <5>2, <5>3 DEF Honours
      <4>. QED  BY <1>2, <3>4, <4>1
    <3>5. CASE g = Append(file, r)
      <4>1. /\ Whole(g) /\ ReadEntries(g) = log /\ ReadState(g) = r
        <5>1. Saves(g, file, currentTerm, votedFor)
          BY <1>4, <3>5 DEF Saves
        <5>. QED  BY <1>1, <1>2, <1>4, <3>1, <5>1, ReadSaved
      <4>2. ASSUME happened = {} PROVE Honours(ReadState(g), ReadEntries(g), promised)
        <5>1. promised.term \in Nat
          BY <1>5, <3>3, <4>2 DEF StateRecord
        <5>2. /\ currentTerm >= promised.term
              /\ currentTerm = promised.term => votedFor = promised.vote
                                                \/ promised.vote = NoNode
          BY <1>1, <3>3, <4>2, <5>1 DEF Earlier
        <5>. QED  BY <1>4, <1>6, <3>3, <4>1, <4>2, <5>2 DEF Honours
      <4>. QED  BY <1>2, <3>1, <4>1, <4>2
    <3>. QED  BY <3>2, <3>4, <3>5
  <2>3. CASE op.kind = "append"
    <3>. DEFINE es == op.es
    <3>1. /\ buffer = Records(es) /\ Indexed(es, Len(log)) /\ ReadEntries(file) = log
          /\ ReadState(file) = r /\ es \in Seq(WALEntry)
      BY <1>1, <2>1, <2>3 DEF Mirror, OnFile
    <3>. HIDE DEF es
    <3>2. k \in 0 .. Len(Records(es))
      BY <3>1
    <3>3. PICK s \in Seq(WALEntry) :
            /\ Part(file, Records(es), k) = file \o Records(s)
            /\ Len(s) <= Len(es) /\ \A i \in 1 .. Len(s) : s[i] = es[i]
      BY <1>1, <3>1, <3>2, PartOfEntries
    <3>4. g = file \o Records(s)
      BY <3>1, <3>3
    <3>5. Whole(g) /\ ReadEntries(g) = log \o s /\ ReadState(g) = r
      BY <1>1, <1>2, <3>1, <3>4, ReadJoined
    <3>6. Indexed(s, Len(log))
      BY <3>1, <3>3, StartIndexed
    <3>7. Indexed(log \o s, 0)
      BY <1>1, <1>2, <3>1, <3>6, JoinedIndexed
    <3>8. Len(log \o s) >= Len(log) /\ SubSeq(log \o s, 1, Len(log)) = log
      BY <1>1, StartOfJoined
    <3>9. ASSUME happened = {} PROVE Honours(ReadState(g), ReadEntries(g), promised)
      <4>1. promised.log = log /\ promised.term = currentTerm /\ promised.vote = votedFor
        BY <1>3, <2>3, <3>9 DEF Told
      <4>. QED  BY <1>1, <1>4, <3>5, <3>8, <4>1 DEF Honours
    <3>. QED  BY <3>5, <3>7, <3>9
  <2>4. CASE op.kind = "rewrite"
    <3>. DEFINE l == SubSeq(log, 1, op.at - 1)
    <3>0. op.at \in 1 .. Len(log)
      BY <1>1, <2>4 DEF OpTypes
    <3>1. /\ buffer = <<r>> \o Records(l) /\ Indexed(log, 0)
      BY <2>1, <2>4 DEF Mirror
    <3>2. file = <<>>
      BY <2>4 DEF WALInv, OrderInv, Quiet
    <3>3. op.at - 1 \in 0 .. Len(log)
      BY <1>6, <3>0
    <3>4. l \in Seq(WALEntry) /\ Len(l) = op.at - 1 /\ \A i \in 1 .. op.at - 1 : l[i] = log[i]
      BY <1>1, <3>3, Prefix
    <3>5. Len(l) <= Len(log) /\ \A i \in 1 .. Len(l) : l[i] = log[i]
      BY <1>6, <3>3, <3>4
    <3>. HIDE DEF l
    <3>6. Indexed(l, 0)
      BY <1>1, <3>1, <3>4, <3>5, StartIndexed
    <3>7. buffer = Rewritten(r, l) /\ g = Part(<<>>, Rewritten(r, l), k)
          /\ k \in 0 .. Len(Rewritten(r, l))
      BY <3>1, <3>2 DEF Rewritten
    <3>. HIDE DEF r
    <3>8. CutRewrite(g, r, l)
      BY <1>4, <3>4, <3>7, PartOfRewrite
    <3>9. CASE g = <<>>
      <4>1. Whole(g) /\ ReadEntries(g) = <<>>
        BY <3>9, ReadNothing
      <4>2. \A i \in 1 .. Len(<<>>) : FALSE
        OBVIOUS
      <4>. QED  BY <2>4, <4>1, <4>2 DEF Indexed
    <3>10. CASE g # <<>>
      <4>1. PICK s \in Seq(WALEntry) :
              /\ g = Rewritten(r, s)
              /\ Len(s) <= Len(l) /\ \A i \in 1 .. Len(s) : s[i] = l[i]
        BY <3>8, <3>10 DEF CutRewrite
      <4>2. Whole(g) /\ ReadEntries(g) = s
        BY <1>1, <4>1, ReadRewritten DEF r, Rewritten
      <4>3. Indexed(s, 0)
        BY <3>4, <3>6, <4>1, StartIndexed
      <4>. QED  BY <2>4, <4>2, <4>3
    <3>. QED  BY <3>9, <3>10
  <2>. QED  BY <1>1, <1>8, <2>2, <2>3, <2>4 DEF OpTypes
<1>. QED  BY <1>7, <1>8

LEMMA Crashes ==
  ASSUME WALInv, Crash
  PROVE  Sound' /\ Promises'
<1>1. /\ up /\ up' = FALSE /\ writer' = "ok" /\ promised' = promised
      /\ happened \subseteq happened'
  BY DEF Crash, Happens
<1>2. file \in Seq(Record) /\ buffer \in Seq(Record) /\ Len(buffer) \in Nat
  BY LenProperties DEF WALInv, OrderInv, WALTypes
<1>3. ASSUME Calm'
      PROVE  /\ Calm
             /\ \E k \in 0 .. Len(buffer) : file' = Part(file, buffer, k)
  <2>1. "torn" \notin happened' /\ Calm
    BY <1>1, <1>3 DEF Calm
  <2>2. file' \in {file \o buffer} \cup PartlyWritten
    BY <2>1 DEF Crash, Happens
  <2>3. CASE file' = file \o buffer
    <3>1. SubSeq(buffer, 1, Len(buffer)) = buffer /\ Len(buffer) \in 0 .. Len(buffer)
      BY <1>2, SubSeqFull
    <3>2. file' = Part(file, buffer, Len(buffer))
      BY <2>3, <3>1 DEF Part
    <3>. QED  BY <2>1, <3>1, <3>2
  <2>4. CASE file' \in PartlyWritten
    <3>1. PICK k \in 0 .. Len(buffer) - 1 : file' = Part(file, buffer, k)
      BY <2>4 DEF PartlyWritten, Part
    <3>2. k \in 0 .. Len(buffer)
      BY <1>2
    <3>. QED  BY <2>1, <3>1, <3>2
  <2>. QED  BY <2>2, <2>3, <2>4
<1>4. ASSUME Calm' PROVE Store' /\ Writers'
  <2>1. PICK k \in 0 .. Len(buffer) : file' = Part(file, buffer, k)
    BY <1>3, <1>4
  <2>2. Whole(file') /\ Indexed(ReadEntries(file'), 0)
    BY <1>1, <1>3, <1>4, <2>1, CrashLeaves
  <2>. QED  BY <1>1, <2>2 DEF Store, Writers
<1>5. ASSUME happened' = {} PROVE PromisesKept'
  <2>1. Calm' /\ happened = {} /\ op.kind # "rewrite"
    BY <1>1, <1>5 DEF Calm, Crash, Happens
  <2>2. PICK k \in 0 .. Len(buffer) : file' = Part(file, buffer, k)
    BY <1>3, <2>1
  <2>3. Honours(ReadState(file'), ReadEntries(file'), promised)
    BY <1>1, <1>3, <2>1, <2>2, CrashLeaves
  <2>. QED  BY <1>1, <2>3 DEF Honours, PromisesKept
<1>. QED  BY <1>1, <1>4, <1>5 DEF Sound, Promises

LEMMA Others ==
  ASSUME WALInv, Commit \/ Stop \/ SyncFails \/ FlushFails \/ UNCHANGED vars
  PROVE  Sound' /\ Promises'
<1>1. CASE UNCHANGED vars
  BY <1>1 DEF vars, memory, disk, WALInv, Sound, Promises, Calm, Store, Writers, Mirror,
              OnFile, Told, PromisesKept
<1>2. CASE Commit
  <2>1. Ready /\ op.kind = "idle" /\ op' = op /\ up' = up /\ file' = file
    BY <1>2, ReadyToSave DEF Commit, disk
  <2>2. /\ currentTerm' = currentTerm /\ votedFor' = votedFor /\ log' = log
        /\ buffer' = buffer /\ writer' = writer /\ happened' = happened
        /\ promised' = promised
    BY <1>2 DEF Commit, disk
  <2>3. Mirror => Mirror'
    BY <2>1, <2>2 DEF Mirror, OnFile
  <2>4. (Calm' <=> Calm) /\ (Store => Store') /\ (Writers => Writers')
    BY <2>1, <2>2 DEF Calm, Store, Writers
  <2>5. (Told => Told') /\ (PromisesKept => PromisesKept')
    BY <2>1, <2>2 DEF Told, PromisesKept
  <2>. QED  BY <2>1, <2>2, <2>3, <2>4, <2>5 DEF WALInv, Sound, Promises
<1>3. CASE Stop
  <2>1. /\ Ready /\ happened' = happened \cup {"stop"} /\ writer' = "closed"
        /\ file' = file /\ up' = up /\ op' = op
    BY <1>3 DEF Stop, Happens
  <2>2. Calm' => Store' /\ Writers'
    BY <2>1 DEF WALInv, Sound, Calm, Store, Writers, Ready
  <2>3. happened' # {}
    BY <2>1
  <2>. QED  BY <2>1, <2>2, <2>3 DEF Sound, Promises
<1>4. CASE SyncFails \/ FlushFails
  <2>1. "error" \in happened'
    BY <1>4 DEF SyncFails, FlushFails, Happens
  <2>. QED  BY <2>1 DEF Sound, Promises, Calm
<1>. QED  BY <1>1, <1>2, <1>3, <1>4

LEMMA WALNext ==
  ASSUME WALInv, [Next]_vars
  PROVE  WALInv'
<1>0. /\ OrderInv /\ currentTerm \in Nat /\ votedFor \in Voted /\ log \in Seq(WALEntry)
      /\ Len(log) \in Nat
  BY LenProperties DEF WALInv, OrderInv, WALTypes
<1>. SUFFICES Sound' /\ Promises'
  BY <1>0, OrderedNext DEF WALInv
<1>1. CASE becomeFollower \/ becomeCandidate \/ GrantVote
  <2>1. CASE becomeFollower
    <3>1. PICK t \in currentTerm + 1 .. MaxTerm : SaveState(t, NoNode)
      BY <2>1 DEF becomeFollower
    <3>2. t \in Nat /\ currentTerm < t
      BY <1>0, WALBoundAssumption
    <3>. QED  BY <3>1, <3>2, SavesState DEF Voted, Earlier
  <2>2. CASE becomeCandidate
    <3>1. currentTerm + 1 \in Nat /\ currentTerm < currentTerm + 1
      BY <1>0
    <3>. QED  BY <2>2, <3>1, SavesState DEF Voted, Earlier, becomeCandidate
  <2>3. CASE GrantVote
    BY <1>0, <2>3, SavesState DEF Voted, Earlier, GrantVote
  <2>. QED  BY <1>1, <2>1, <2>2, <2>3
<1>2. CASE Propose \/ becomeLeader
  <2>1. /\ OwnEntry \in Seq(WALEntry) /\ Len(OwnEntry) = 1
        /\ OwnEntry[1].index = LastIndex(log) + 1
    BY <1>0, OwnEntryTyped
  <2>2. ASSUME Indexed(log, 0) PROVE Indexed(OwnEntry, Len(log))
    <3>1. LastIndex(log) = Len(log)
      <4>1. CASE log = <<>>
        BY <4>1 DEF LastIndex
      <4>2. CASE log # <<>>
        <5>1. Len(log) \in Nat \ {0}
          BY <1>0, <4>2, EmptySeq
        <5>2. Len(log) \in 1 .. Len(log) /\ 0 + Len(log) = Len(log)
          BY <5>1
        <5>. QED  BY <2>2, <4>2, <5>2 DEF LastIndex, Indexed
      <4>. QED  BY <4>1, <4>2
    <3>2. \A k \in 1 .. Len(OwnEntry) : k = 1
      BY <2>1
    <3>. QED  BY <2>1, <3>1, <3>2 DEF Indexed
  <2>. QED  BY <1>2, <2>1, <2>2, SavesEntries DEF Propose, becomeLeader
<1>3. CASE AppendMissing
  <2>1. PICK es \in Suffixes(Len(log) + 1) : SaveEntries(es, TRUE)
    BY <1>3 DEF AppendMissing
  <2>2. Len(log) + 1 \in Nat \ {0} /\ (Len(log) + 1) - 1 = Len(log)
    BY <1>0
  <2>3. es \in Seq(WALEntry) /\ Indexed(es, (Len(log) + 1) - 1)
    BY <1>0, <2>2, SuffixesTyped
  <2>4. Indexed(es, Len(log))
    BY <2>2, <2>3
  <2>. QED  BY <2>1, <2>3, <2>4, SavesEntries
<1>4. CASE OverwriteConflict
  <2>1. PICK i \in 1 .. Len(log) : \E es \in Suffixes(i) : Truncate(i, es)
    BY <1>4 DEF OverwriteConflict
  <2>2. PICK es \in Suffixes(i) : Truncate(i, es)
    BY <2>1
  <2>3. i \in Nat \ {0}
    OBVIOUS
  <2>. QED  BY <1>0, <2>2, <2>3, SuffixesTyped, StartsRewrite
<1>5. CASE SyncRewrite
  BY <1>5, EndsRewrite
<1>6. CASE Sync
  BY <1>6, Syncs
<1>7. CASE Crash
  BY <1>7, Crashes
<1>8. CASE Restart
  BY <1>8, Restarts
<1>9. CASE Commit \/ Stop \/ SyncFails \/ FlushFails \/ UNCHANGED vars
  BY <1>9, Others
<1>. QED
  BY <1>1, <1>2, <1>3, <1>4, <1>5, <1>6, <1>7, <1>8, <1>9 DEF Next

LEMMA WALInit ==
  ASSUME Init
  PROVE  WALInv
<1>1. /\ up = TRUE /\ currentTerm = 0 /\ votedFor = NoNode /\ log = <<>>
      /\ file = <<>> /\ buffer = <<>> /\ op = Idle /\ writer = "ok"
      /\ promised = [term |-> 0, vote |-> NoNode, log |-> <<>>]
  BY DEF Init
<1>2. file \in Seq(Record) /\ Whole(file) /\ ReadEntries(file) = <<>> /\ Len(file) = 0
  BY <1>1, ReadNothing
<1>3. Indexed(ReadEntries(file), 0)
  <2>1. \A k \in 1 .. Len(<<>>) : FALSE
    OBVIOUS
  <2>. QED  BY <1>2, <2>1 DEF Indexed
<1>4. ReadState(file) = StateRecord(0, NoNode)
  <2>1. States(file) = {}
    BY <1>2 DEF States
  <2>. QED  BY <1>2, <2>1, ReadStateIs
<1>5. op.kind = "idle"
  BY <1>1 DEF Idle
<1>6. Mirror
  BY <1>1, <1>2, <1>4, <1>5 DEF Mirror, OnFile
<1>7. Sound
  BY <1>1, <1>2, <1>3, <1>6 DEF Sound, Store, Writers
<1>8. Told
  BY <1>1, <1>5 DEF Told
<1>9. Promises
  BY <1>1, <1>8 DEF Promises, PromisesKept
<1>. QED  BY <1>7, <1>9, OrderedInit DEF WALInv

(* The file is whole, in order and says what memory says, up to what the   *)
(* operation under way is about to write, and callers were told no more.   *)
THEOREM WALInvariant == Spec => []WALInv
BY WALInit, WALNext, PTL DEF Spec

(* Memory and file tell the same story whenever the node is ready for the  *)
(* next call, as long as nothing goes wrong but crashes, those in the      *)
(* middle of a rewrite included (the "file first" order of SaveState,      *)
(* SaveEntries and TruncateFrom).                                          *)
THEOREM FileHasMemory == Spec => []MemoryOnDisk
<1>1. ASSUME WALInv PROVE MemoryOnDisk
  <2>. SUFFICES ASSUME Ready, happened \subseteq {"rewrite"}
                PROVE  /\ ReadState(file) = StateRecord(currentTerm, votedFor)
                       /\ ReadEntries(file) = log
    BY DEF MemoryOnDisk
  <2>1. Calm
    BY DEF Calm
  <2>2. writer # "closed"
    BY <1>1, <2>1 DEF WALInv, Sound, Writers
  <2>. QED  BY <1>1, <2>1, <2>2, ReadyToSave DEF OnFile
<1>. QED  BY <1>1, WALInvariant, PTL

(* A vote, a term and entries that a caller was told of are read back      *)
(* after a crash at any point outside a rewrite that leaves no part of a   *)
(* record (Sync before the answer in every handler).                       *)
THEOREM PromisesSurvive == Spec => []PromisesKeptUnlessFaulty
<1>1. ASSUME WALInv PROVE PromisesKeptUnlessFaulty
  BY <1>1 DEF WALInv, Promises, PromisesKeptUnlessFaulty
<1>. QED  BY <1>1, WALInvariant, PTL

(* Entries are read back at their own indexes, through crashes in the      *)
(* middle of a rewrite and calls on a closed file (TruncateFrom, Close).   *)
THEOREM ReadInOrder == Spec => []RecoveredInOrder
<1>1. ASSUME WALInv PROVE RecoveredInOrder
  <2>. SUFFICES ASSUME happened \subseteq {"rewrite", "stop"},
                       NEW i \in DOMAIN ReadEntries(file)
                PROVE  ReadEntries(file)[i].index = i
    BY DEF RecoveredInOrder
  <2>1. Indexed(ReadEntries(file), 0)
    BY <1>1 DEF WALInv, Sound, Calm, Store
  <2>2. ReadEntries(file) \in Seq(WALEntry)
    BY <1>1, InOrderTyped DEF ReadEntries, WALInv, OrderInv, WALTypes
  <2>3. i \in 1 .. Len(ReadEntries(file))
    BY <2>2, LenProperties
  <2>4. i \in Int
    BY <2>2, <2>3, LenProperties
  <2>. QED  BY <2>1, <2>3, <2>4 DEF Indexed
<1>. QED  BY <1>1, WALInvariant, PTL
=============================================================================

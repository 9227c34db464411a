--------------------------- MODULE RaftLogProofs ---------------------------
(***************************************************************************)
(* Facts about the log operators of RaftLog, for logs of any length.       *)
(***************************************************************************)
EXTENDS RaftLog, SequenceTheorems, FiniteSetTheorems, WellFoundedInduction, TLAPS

(* A non-empty set of naturals has a least element, and Min finds it. *)
LEMMA MinOfNaturals ==
  ASSUME NEW S \in SUBSET Nat, S # {}
  PROVE  Min(S) \in S /\ \A y \in S : Min(S) <= y
<1>1. PICK x \in S : \A y \in S : ~(<<y, x>> \in OpToRel(<, Nat))
  BY NatLessThanWellFounded, WFMin
<1>2. \A y \in S : x <= y
  <2>. SUFFICES ASSUME NEW y \in S PROVE ~(y < x)
    OBVIOUS
  <2>1. <<y, x>> \in Nat \X Nat /\ <<y, x>>[1] = y /\ <<y, x>>[2] = x
    OBVIOUS
  <2>. QED  BY <1>1, <2>1 DEF OpToRel
<1>. QED  BY <1>2 DEF Min

(* A non-empty set of naturals with a bound has a largest one: Max. *)
LEMMA MaxOfBounded ==
  ASSUME NEW b \in Nat, NEW S \in SUBSET (0 .. b), S # {}
  PROVE  Max(S) \in S /\ \A y \in S : y <= Max(S)
<1>. DEFINE T == {b - x : x \in S}
<1>0. \A x \in S : b - x \in Nat
  OBVIOUS
<1>1. T \in SUBSET Nat /\ T # {}
  <2>1. T \in SUBSET Nat
    BY <1>0
  <2>2. T # {}
    <3>. PICK x \in S : TRUE
      OBVIOUS
    <3>1. b - x \in T
      OBVIOUS
    <3>. QED  BY <3>1
  <2>. QED  BY <2>1, <2>2
<1>2. Min(T) \in T /\ \A y \in T : Min(T) <= y
  BY <1>1, MinOfNaturals
<1>3. PICK x \in S : Min(T) = b - x
  BY <1>2
<1>4. \A y \in S : b - y \in T
  OBVIOUS
<1>5. \A y \in S : b - x <= b - y
  BY <1>2, <1>3, <1>4
<1>6. \A y \in S : y <= x
  BY <1>5
<1>. QED  BY <1>6 DEF Max

-----------------------------------------------------------------------------
(* Positions in increasing order: p lists the n elements of T. *)
Enumerates(p, n, T) ==
  /\ n \in Nat
  /\ p \in [1 .. n -> T]
  /\ \A i, j \in 1 .. n : i < j => p[i] < p[j]
  /\ \A k \in T : \E i \in 1 .. n : p[i] = k

(* Every set of positions can be listed: otherwise there would be a least  *)
(* bound for which that fails.                                             *)
Listable(b) == \A T \in SUBSET (1 .. b) : \E n \in Nat : \E p : Enumerates(p, n, T)

LEMMA ListMore ==
  ASSUME NEW b \in Nat \ {0}, Listable(b - 1)
  PROVE  Listable(b)
<1>. SUFFICES ASSUME NEW T \in SUBSET (1 .. b)
              PROVE  \E n \in Nat : \E p : Enumerates(p, n, T)
  BY DEF Listable
<1>. DEFINE U == T \cap (1 .. b - 1)
<1>1. PICK n \in Nat : \E p : Enumerates(p, n, U)
  BY DEF Listable
<1>2. PICK p : Enumerates(p, n, U)
  BY <1>1
<1>3. CASE b \notin T
  <2>0. ASSUME NEW k \in T PROVE k \in 1 .. b - 1
    <3>1. k \in 1 .. b /\ k # b
      BY <1>3
    <3>. QED  BY <3>1
  <2>1. U = T
    BY <2>0
  <2>. QED  BY <1>2, <2>1
<1>4. CASE b \in T
  <2>. DEFINE q == [i \in 1 .. n + 1 |-> IF i = n + 1 THEN b ELSE p[i]]
  <2>1. \A i \in 1 .. n : q[i] = p[i] /\ p[i] \in T /\ p[i] \in 1 .. b - 1
    BY <1>2 DEF Enumerates
  <2>2. q[n + 1] = b
    OBVIOUS
  <2>0. \A i \in 1 .. n + 1 : i \in 1 .. n \/ i = n + 1
    OBVIOUS
  <2>3. q \in [1 .. n + 1 -> T]
    <3>1. \A i \in 1 .. n + 1 : q[i] \in T
      BY <1>4, <2>0, <2>1, <2>2
    <3>. QED  BY <3>1
  <2>. HIDE DEF q, U
  <2>4. ASSUME NEW i \in 1 .. n + 1, NEW j \in 1 .. n + 1, i < j PROVE q[i] < q[j]
    <3>1. i \in 1 .. n
      BY <2>0, <2>4
    <3>2. CASE j = n + 1
      BY <2>1, <2>2, <3>1, <3>2
    <3>3. CASE j \in 1 .. n
      BY <1>2, <2>1, <2>4, <3>1, <3>3 DEF Enumerates
    <3>. QED  BY <2>0, <3>2, <3>3
  <2>5. ASSUME NEW k \in T PROVE \E i \in 1 .. n + 1 : q[i] = k
    <3>1. CASE k = b
      BY <2>2, <3>1
    <3>2. CASE k # b
      <4>1. k \in U
        <5>1. k \in 1 .. b
          OBVIOUS
        <5>. QED  BY <3>2, <5>1 DEF U
      <4>2. PICK i \in 1 .. n : p[i] = k
        BY <1>2, <4>1 DEF Enumerates
      <4>. QED  BY <2>1, <4>2
    <3>. QED  BY <3>1, <3>2
  <2>6. n + 1 \in Nat
    OBVIOUS
  <2>7. Enumerates(q, n + 1, T)
    BY <2>3, <2>4, <2>5, <2>6 DEF Enumerates
  <2>. QED  BY <2>6, <2>7
<1>. QED  BY <1>3, <1>4

LEMMA AllListable ==
  ASSUME NEW b \in Nat
  PROVE  Listable(b)
<1>. DEFINE S == {c \in Nat : ~Listable(c)}
<1>1. Listable(0)
  <2>. SUFFICES ASSUME NEW T \in SUBSET (1 .. 0)
                PROVE  \E n \in Nat : \E p : Enumerates(p, n, T)
    BY DEF Listable
  <2>1. T = {}
    OBVIOUS
  <2>. DEFINE p == [i \in 1 .. 0 |-> i]
  <2>2. p \in [1 .. 0 -> T]
    OBVIOUS
  <2>. HIDE DEF p
  <2>3. Enumerates(p, 0, T)
    BY <2>1, <2>2 DEF Enumerates
  <2>. QED  BY <2>3
<1>2. ASSUME S # {} PROVE FALSE
  <2>1. Min(S) \in S /\ \A y \in S : Min(S) <= y
    BY <1>2, MinOfNaturals
  <2>. DEFINE c == Min(S)
  <2>2. c \in Nat \ {0} /\ ~Listable(c)
    BY <1>1, <2>1
  <2>3. c - 1 \in Nat /\ c - 1 \notin S
    <3>. HIDE DEF c
    <3>1. c - 1 \in Nat /\ ~(c <= c - 1)
      BY <2>2
    <3>. QED  BY <2>1, <3>1 DEF c
  <2>4. Listable(c - 1)
    BY <2>3
  <2>. QED  BY <2>2, <2>4, ListMore
<1>. QED  BY <1>2

(* The i-th position is the one with i positions up to and with it. *)
LEMMA RankOf ==
  ASSUME NEW T, NEW n, NEW p, Enumerates(p, n, T), T \subseteq Nat
  PROVE  /\ Cardinality(T) = n
         /\ \A i \in 1 .. n : Cardinality({j \in T : j <= p[i]}) = i
<1>1. /\ n \in Nat /\ p \in [1 .. n -> T]
      /\ \A i, j \in 1 .. n : i < j => p[i] < p[j]
      /\ \A k \in T : \E i \in 1 .. n : p[i] = k
  BY DEF Enumerates
<1>2. \A i \in 1 .. n : p[i] \in T /\ p[i] \in Nat
  BY <1>1
<1>3. ASSUME NEW i \in 0 .. n, NEW U, U \subseteq T,
             \A j \in 1 .. n : p[j] \in U <=> j <= i
      PROVE  Cardinality(U) = i
  <2>. DEFINE q == [j \in 1 .. i |-> p[j]]
  <2>0. i \in Nat /\ \A j \in 1 .. i : j \in 1 .. n /\ j <= i
    BY <1>1
  <2>1. \A j \in 1 .. i : q[j] = p[j] /\ p[j] \in U
    BY <1>3, <2>0
  <2>2. q \in [1 .. i -> U]
    BY <2>1
  <2>3. \A j, k \in 1 .. i : q[j] = q[k] => j = k
    BY <1>1, <1>2, <2>0, <2>1
  <2>4. \A u \in U : \E j \in 1 .. i : q[j] = u
    <3>. SUFFICES ASSUME NEW u \in U PROVE \E j \in 1 .. i : q[j] = u
      OBVIOUS
    <3>1. PICK j \in 1 .. n : p[j] = u
      BY <1>1, <1>3
    <3>2. j \in 1 .. i
      BY <1>3, <3>1
    <3>. QED  BY <2>1, <3>1, <3>2
  <2>. HIDE DEF q
  <2>5. q \in Bijection(1 .. i, U)
    BY <2>2, <2>3, <2>4 DEF Bijection, Injection, Surjection, IsInjective
  <2>6. ExistsBijection(1 .. i, U)
    BY <2>5 DEF ExistsBijection
  <2>. QED  BY <2>0, <2>6, FS_CountingElements
<1>4. Cardinality(T) = n
  <2>1. \A j \in 1 .. n : p[j] \in T <=> j <= n
    <3>1. \A j \in 1 .. n : j <= n
      BY <1>1
    <3>. QED  BY <1>2, <3>1
  <2>2. n \in 0 .. n
    BY <1>1
  <2>. QED  BY <1>3, <2>1, <2>2
<1>5. ASSUME NEW i \in 1 .. n PROVE Cardinality({j \in T : j <= p[i]}) = i
  <2>. DEFINE U == {j \in T : j <= p[i]}
  <2>1. ASSUME NEW j \in 1 .. n PROVE p[j] <= p[i] <=> j <= i
    BY <1>1, <1>2
  <2>2. \A j \in 1 .. n : p[j] \in U <=> j <= i
    BY <1>2, <2>1
  <2>3. U \subseteq T
    OBVIOUS
  <2>. HIDE DEF U
  <2>4. i \in 0 .. n
    BY <1>1
  <2>5. Cardinality(U) = i
    BY <1>3, <2>2, <2>3, <2>4
  <2>. QED  BY <2>5 DEF U
<1>. QED  BY <1>4, <1>5

(* So the position with rank i is the i-th of the enumeration. *)
NthOf(T, i) == CHOOSE k \in T : Cardinality({j \in T : j <= k}) = i

Lists(p, n, T) == \A i \in 1 .. n : NthOf(T, i) = p[i]

LEMMA NthIs ==
  ASSUME NEW T \in SUBSET Nat, NEW n, NEW p, Enumerates(p, n, T)
  PROVE  Lists(p, n, T)
<1>. SUFFICES ASSUME NEW i \in 1 .. n PROVE NthOf(T, i) = p[i]
  BY DEF Lists
<1>1. \A m \in 1 .. n : Cardinality({j \in T : j <= p[m]}) = m
  BY RankOf
<1>. DEFINE R(k) == Cardinality({j \in T : j <= k})
<1>2. p[i] \in T /\ R(p[i]) = i
  BY <1>1 DEF Enumerates
<1>3. ASSUME NEW k \in T, R(k) = i PROVE k = p[i]
  <2>1. PICK m \in 1 .. n : p[m] = k
    BY DEF Enumerates
  <2>2. R(p[m]) = m
    BY <1>1
  <2>. QED  BY <1>3, <2>1, <2>2
<1>. HIDE DEF R
<1>4. (CHOOSE k \in T : R(k) = i) = p[i]
  BY <1>2, <1>3
<1>. QED  BY <1>4 DEF R, NthOf

-----------------------------------------------------------------------------
(* The entries of a request that follow position prev, of term prevTerm. *)
Indexed(es, prev) == \A k \in 1 .. Len(es) : es[k].index = prev + k

Continues(es, prev, prevTerm, maxTerm) ==
  /\ Indexed(es, prev)
  /\ \A k \in 1 .. Len(es) : /\ prevTerm <= es[k].term
                             /\ es[k].term <= maxTerm
  /\ \A j, k \in 1 .. Len(es) : j <= k => es[j].term <= es[k].term

(* FirstDiffering finds the first entry the loop of handleAppendEntries    *)
(* does not skip.                                                          *)
LEMMA FirstDifferingIsFirst ==
  ASSUME NEW l, NEW E, NEW es \in Seq(E), Differing(l, es) # {}
  PROVE  /\ FirstDiffering(l, es) \in 1 .. Len(es)
         /\ Differs(l, es[FirstDiffering(l, es)])
         /\ \A j \in 1 .. Len(es) :
              j < FirstDiffering(l, es) => ~Differs(l, es[j])
<1>1. DOMAIN es = 1 .. Len(es)
  OBVIOUS
<1>2. Differing(l, es) \in SUBSET Nat
  BY <1>1 DEF Differing
<1>3. /\ FirstDiffering(l, es) \in Differing(l, es)
      /\ \A j \in Differing(l, es) : FirstDiffering(l, es) <= j
  BY <1>2, MinOfNaturals DEF FirstDiffering
<1>4. \A j \in 1 .. Len(es) : Differs(l, es[j]) => j \in Differing(l, es)
  BY <1>1 DEF Differing
<1>5. /\ FirstDiffering(l, es) \in 1 .. Len(es)
      /\ Differs(l, es[FirstDiffering(l, es)])
  BY <1>1, <1>3 DEF Differing
<1>. QED  BY <1>3, <1>4, <1>5

(* The two ends of a sequence. *)
LEMMA Prefix ==
  ASSUME NEW E, NEW s \in Seq(E), NEW p \in 0 .. Len(s)
  PROVE  /\ SubSeq(s, 1, p) \in Seq(E)
         /\ Len(SubSeq(s, 1, p)) = p
         /\ \A i \in 1 .. p : SubSeq(s, 1, p)[i] = s[i]
<1>1. \A i \in 1 .. p : s[i] \in E
  OBVIOUS
<1>2. 1 \in Int /\ p \in Int
  OBVIOUS
<1>3. /\ SubSeq(s, 1, p) \in Seq(E)
      /\ Len(SubSeq(s, 1, p)) = IF 1 <= p THEN p - 1 + 1 ELSE 0
      /\ \A i \in 1 .. p - 1 + 1 : SubSeq(s, 1, p)[i] = s[1 + i - 1]
  BY <1>1, <1>2, SubSeqProperties, SMT
<1>. QED  BY <1>3

LEMMA Suffix ==
  ASSUME NEW E, NEW s \in Seq(E), NEW k \in 1 .. Len(s) + 1
  PROVE  /\ SubSeq(s, k, Len(s)) \in Seq(E)
         /\ Len(SubSeq(s, k, Len(s))) = Len(s) - k + 1
         /\ \A i \in 1 .. Len(s) - k + 1 :
              SubSeq(s, k, Len(s))[i] = s[k + i - 1]
<1>. DEFINE n == Len(s)
<1>1. \A i \in k .. n : s[i] \in E
  OBVIOUS
<1>2. k \in Int /\ n \in Int /\ k <= n + 1
  OBVIOUS
<1>. HIDE DEF n
<1>3. /\ SubSeq(s, k, n) \in Seq(E)
      /\ Len(SubSeq(s, k, n)) = IF k <= n THEN n - k + 1 ELSE 0
      /\ \A i \in 1 .. n - k + 1 : SubSeq(s, k, n)[i] = s[k + i - 1]
  BY <1>1, <1>2, SubSeqProperties
<1>. QED  BY <1>2, <1>3 DEF n

(* The first p elements of s, then t from its k-th element on. *)
Spliced(s, p, t, k) == SubSeq(s, 1, p) \o SubSeq(t, k, Len(t))

LEMMA Splice ==
  ASSUME NEW E, NEW s \in Seq(E), NEW t \in Seq(E),
         NEW p \in 0 .. Len(s), NEW k \in 1 .. Len(t)
  PROVE  /\ Spliced(s, p, t, k) \in Seq(E)
         /\ Len(Spliced(s, p, t, k)) = p + Len(t) - k + 1
         /\ \A i \in 1 .. p : Spliced(s, p, t, k)[i] = s[i]
         /\ \A i \in p + 1 .. p + Len(t) - k + 1 :
              Spliced(s, p, t, k)[i] = t[i - p + k - 1]
<1>. DEFINE a == SubSeq(s, 1, p)
            b == SubSeq(t, k, Len(t))
            q == a \o b
<1>1. a \in Seq(E) /\ Len(a) = p /\ \A i \in 1 .. p : a[i] = s[i]
  BY Prefix
<1>2. /\ b \in Seq(E) /\ Len(b) = Len(t) - k + 1
      /\ \A i \in 1 .. Len(t) - k + 1 : b[i] = t[k + i - 1]
  BY Suffix
<1>. HIDE DEF a, b
<1>3. /\ q \in Seq(E)
      /\ Len(q) = Len(a) + Len(b)
      /\ \A i \in 1 .. Len(a) + Len(b) :
           q[i] = IF i <= Len(a) THEN a[i] ELSE b[i - Len(a)]
  BY <1>1, <1>2, ConcatProperties
<1>. HIDE DEF q
<1>4. Len(q) = p + Len(t) - k + 1
  BY <1>1, <1>2, <1>3
<1>5. ASSUME NEW i \in 1 .. p PROVE q[i] = s[i]
  <2>1. i \in 1 .. Len(a) + Len(b) /\ i <= Len(a)
    BY <1>1, <1>2
  <2>. QED  BY <1>1, <1>3, <2>1
<1>6. ASSUME NEW i \in p + 1 .. p + Len(t) - k + 1
      PROVE  q[i] = t[i - p + k - 1]
  <2>1. i - p \in 1 .. Len(t) - k + 1 /\ k + (i - p) - 1 = i - p + k - 1
    OBVIOUS
  <2>2. q[i] = b[i - p]
    BY <1>1, <1>2, <1>3
  <2>. QED  BY <1>2, <2>1, <2>2
<1>7. Spliced(s, p, t, k) = q
  BY Zenon DEF Spliced, q, a, b
<1>. QED  BY <1>3, <1>4, <1>5, <1>6, <1>7

(* What Merge leaves behind, when the request continues the log: either    *)
(* the log was untouched and already covers the request, or it ends with   *)
(* the request, our own entries before the first difference and the        *)
(* leader's from there on.                                                 *)
LEMMA MergeResult ==
  ASSUME NEW E, NEW l \in Seq(E), NEW es \in Seq(E),
         NEW prev \in Nat, prev <= Len(l),
         Indexed(es, prev)
  PROVE  \/ /\ Differing(l, es) = {}
            /\ Merge(l, es) = l
            /\ prev + Len(es) <= Len(l)
         \/ /\ Differing(l, es) # {}
            /\ Merge(l, es) \in Seq(E)
            /\ Len(Merge(l, es)) = prev + Len(es)
            /\ prev + FirstDiffering(l, es) - 1 <= Len(l)
            /\ \A i \in 1 .. prev + Len(es) :
                 Merge(l, es)[i] =
                   IF i < prev + FirstDiffering(l, es) THEN l[i]
                                                       ELSE es[i - prev]
<1>. DEFINE k == FirstDiffering(l, es)
<1>1. CASE Differing(l, es) = {}
  <2>1. Merge(l, es) = l
    BY <1>1 DEF Merge
  <2>2. \A j \in 1 .. Len(es) : HasEntry(l, es[j].index)
    <3>. SUFFICES ASSUME NEW j \in 1 .. Len(es), ~HasEntry(l, es[j].index)
                  PROVE  j \in Differing(l, es)
      BY <1>1
    <3>. QED  BY DEF Differing, Differs
  <2>3. prev + Len(es) <= Len(l)
    <3>1. CASE Len(es) = 0
      BY <3>1
    <3>2. CASE Len(es) # 0
      <4>1. Len(es) \in 1 .. Len(es)
        BY <3>2
      <4>2. HasEntry(l, prev + Len(es))
        BY <4>1, <2>2 DEF Indexed
      <4>. QED  BY <4>2 DEF HasEntry
    <3>. QED  BY <3>1, <3>2
  <2>. QED  BY <1>1, <2>1, <2>3
<1>2. CASE Differing(l, es) # {}
  <2>1. /\ k \in 1 .. Len(es)
        /\ Differs(l, es[k])
        /\ \A j \in 1 .. Len(es) : j < k => ~Differs(l, es[j])
    BY <1>2, FirstDifferingIsFirst
  <2>2. es[k].index = prev + k
    BY <2>1 DEF Indexed
  <2>3. prev + k - 1 <= Len(l)
    <3>1. CASE k = 1
      BY <3>1
    <3>2. CASE k # 1
      <4>1. k - 1 \in 1 .. Len(es) /\ k - 1 < k
        BY <3>2, <2>1
      <4>2. HasEntry(l, prev + (k - 1))
        BY <4>1, <2>1 DEF Differs, Indexed
      <4>. QED  BY <4>2, <2>1 DEF HasEntry
    <3>. QED  BY <3>1, <3>2
  <2>. DEFINE p == prev + k - 1
  <2>4. p \in 0 .. Len(l) /\ prev + k = p + 1
    BY <2>1, <2>3
  <2>5. Merge(l, es) = Spliced(l, p, es, k)
    <3>1. CASE Conflicts(l, es)
      <4>1. es[k].index - 1 = p
        BY <2>2, <2>4
      <4>. QED  BY <3>1, <1>2, <4>1 DEF Merge, TruncateFrom, Spliced
    <3>2. CASE ~Conflicts(l, es)
      <4>1. ~HasEntry(l, prev + k)
        BY <1>2, <3>2, <2>2 DEF Conflicts
      <4>2. Len(l) = p
        BY <4>1, <2>4 DEF HasEntry
      <4>3. SubSeq(l, 1, p) = l
        BY <4>2, SubSeqFull
      <4>. QED  BY <3>2, <1>2, <4>3 DEF Merge, Spliced
    <3>. QED  BY <3>1, <3>2
  <2>. HIDE DEF k, p
  <2>6. /\ Merge(l, es) \in Seq(E)
        /\ Len(Merge(l, es)) = p + Len(es) - k + 1
        /\ \A i \in 1 .. p : Merge(l, es)[i] = l[i]
        /\ \A i \in p + 1 .. p + Len(es) - k + 1 :
             Merge(l, es)[i] = es[i - p + k - 1]
    <3>1. k \in 1 .. Len(es) /\ p \in 0 .. Len(l)
      BY <2>1, <2>4
    <3>2. /\ Spliced(l, p, es, k) \in Seq(E)
          /\ Len(Spliced(l, p, es, k)) = p + Len(es) - k + 1
          /\ \A i \in 1 .. p : Spliced(l, p, es, k)[i] = l[i]
          /\ \A i \in p + 1 .. p + Len(es) - k + 1 :
               Spliced(l, p, es, k)[i] = es[i - p + k - 1]
      BY <3>1, Splice
    <3>. QED  BY <2>5, <3>2
  <2>7. Len(Merge(l, es)) = prev + Len(es)
    BY <2>1, <2>4, <2>6 DEF p
  <2>8. ASSUME NEW i \in 1 .. prev + Len(es)
        PROVE  Merge(l, es)[i] = IF i < prev + k THEN l[i] ELSE es[i - prev]
    <3>1. CASE i < prev + k
      <4>1. i \in 1 .. p
        BY <3>1, <2>1, <2>4
      <4>. QED  BY <3>1, <4>1, <2>6
    <3>2. CASE ~(i < prev + k)
      <4>1. i \in p + 1 .. p + Len(es) - k + 1 /\ i - p + k - 1 = i - prev
        BY <3>2, <2>1 DEF p
      <4>. QED  BY <3>2, <4>1, <2>6
    <3>. QED  BY <3>1, <3>2
  <2>9. prev + k - 1 <= Len(l)
    BY <2>3
  <2>. QED  BY <1>2, <2>6, <2>7, <2>8, <2>9 DEF k
<1>. QED  BY <1>1, <1>2

(* A merged log covers everything the request vouches for. *)
LEMMA MergeCovers ==
  ASSUME NEW E, NEW l \in Seq(E), NEW es \in Seq(E),
         NEW prev \in Nat, prev <= Len(l), Indexed(es, prev)
  PROVE  /\ Merge(l, es) \in Seq(E)
         /\ prev + Len(es) <= Len(Merge(l, es))
BY MergeResult

(* Entries carry a term that is a natural number. *)
Termed(E) == \A e \in E : e.term \in Nat

(* Merging keeps a log well formed, whatever the two logs have in common:  *)
(* the check at prev is enough.                                            *)
LEMMA MergeWellFormed ==
  ASSUME NEW E, NEW l \in Seq(E), NEW es \in Seq(E), Termed(E),
         NEW prev \in Nat, NEW prevTerm \in Nat, NEW maxTerm \in Nat,
         prev <= Len(l), EntryTerm(l, prev) = prevTerm,
         WellFormed(l, maxTerm), Continues(es, prev, prevTerm, maxTerm)
  PROVE  WellFormed(Merge(l, es), maxTerm)
<1>. DEFINE r == Merge(l, es)
            k == FirstDiffering(l, es)
            n == prev + Len(es)
<1>0. Indexed(es, prev)
  BY DEF Continues
<1>1. CASE Differing(l, es) = {}
  BY <1>1 DEF Merge
<1>2. CASE Differing(l, es) # {}
  <2>1. k \in 1 .. Len(es)
    BY <1>2, FirstDifferingIsFirst
  <2>2. /\ Len(r) = n
        /\ prev + k - 1 <= Len(l)
        /\ \A i \in 1 .. n : r[i] = IF i < prev + k THEN l[i] ELSE es[i - prev]
    BY <1>0, <1>2, MergeResult
  <2>0. n = prev + Len(es) /\ n \in Nat /\ Len(es) \in Nat /\ Len(l) \in Nat
    OBVIOUS
  <2>. HIDE DEF r, k, n
  <2>3. \A j \in 1 .. Len(l) : /\ l[j].index = j
                               /\ l[j].term \in Nat /\ l[j].term <= maxTerm
    BY DEF WellFormed, Termed
  <2>4. \A j \in 1 .. Len(es) : /\ es[j].index = prev + j /\ es[j].term \in Nat
                                /\ es[j].term <= maxTerm
                                /\ prevTerm <= es[j].term
    BY DEF Continues, Indexed, Termed
  <2>5. ASSUME NEW i \in 1 .. n PROVE r[i].index = i /\ r[i].term <= maxTerm
    <3>1. CASE i < prev + k
      <4>1. i \in 1 .. Len(l)
        BY <3>1, <2>0, <2>1, <2>2
      <4>. QED  BY <3>1, <4>1, <2>2, <2>3
    <3>2. CASE ~(i < prev + k)
      <4>1. i - prev \in 1 .. Len(es) /\ prev + (i - prev) = i
        BY <3>2, <2>0, <2>1
      <4>. QED  BY <3>2, <4>1, <2>2, <2>4
    <3>. QED  BY <3>1, <3>2
  <2>6. ASSUME NEW i \in 1 .. n, NEW j \in 1 .. n, i <= j
        PROVE  r[i].term <= r[j].term
    <3>1. CASE j < prev + k
      <4>1. i \in 1 .. Len(l) /\ j \in 1 .. Len(l) /\ i < prev + k
        BY <3>1, <2>0, <2>1, <2>2, <2>6
      <4>2. l[i].term <= l[j].term
        BY <4>1, <2>6 DEF WellFormed
      <4>. QED  BY <3>1, <4>1, <4>2, <2>2
    <3>2. CASE ~(i < prev + k)
      <4>1. /\ i - prev \in 1 .. Len(es) /\ j - prev \in 1 .. Len(es)
            /\ i - prev <= j - prev /\ ~(j < prev + k)
        BY <3>2, <2>1, <2>0, <2>6
      <4>2. es[i - prev].term <= es[j - prev].term
        BY <4>1 DEF Continues
      <4>. QED  BY <3>2, <4>1, <4>2, <2>2
    <3>3. CASE i < prev + k /\ ~(j < prev + k)
      <4>1. /\ i \in 1 .. Len(l)
            /\ j - prev \in 1 .. Len(es) /\ k <= j - prev
        BY <3>3, <2>1, <2>0, <2>2
      <4>2. r[i] = l[i] /\ r[j] = es[j - prev]
        BY <3>3, <2>2
      <4>3. CASE i <= prev
        <5>1. prev \in 1 .. Len(l)
          BY <4>3
        <5>2. l[i].term <= l[prev].term
          BY <4>1, <4>3, <5>1 DEF WellFormed
        <5>3. l[prev].term = prevTerm
          BY <5>1 DEF EntryTerm
        <5>4. l[i].term \in Nat /\ l[i].term <= prevTerm
          BY <4>1, <5>2, <5>3, <2>3
        <5>5. es[j - prev].term \in Nat /\ prevTerm <= es[j - prev].term
          BY <4>1, <2>4
        <5>6. l[i].term <= es[j - prev].term
          BY <5>4, <5>5
        <5>. QED  BY <4>2, <5>6
      <4>4. CASE ~(i <= prev)
        <5>1. i - prev \in 1 .. Len(es) /\ i - prev < k
          BY <4>4, <3>3, <2>0, <2>1
        <5>2. ~Differs(l, es[i - prev])
          BY <5>1, <1>2, FirstDifferingIsFirst DEF k
        <5>3. es[i - prev].index = i
          BY <5>1, <2>4
        <5>4. l[i].term = es[i - prev].term
          BY <5>2, <5>3, <4>1 DEF Differs, EntryTerm
        <5>5. es[i - prev].term <= es[j - prev].term
          <6>1. i - prev <= j - prev
            BY <5>1, <4>1, <2>1
          <6>. QED  BY <5>1, <4>1, <6>1 DEF Continues
        <5>. QED  BY <4>2, <5>4, <5>5
      <4>. QED  BY <4>3, <4>4
    <3>. QED  BY <3>1, <3>2, <3>3
  <2>. QED  BY <2>2, <2>5, <2>6 DEF WellFormed, r
<1>. QED  BY <1>1, <1>2

(* Merging a request whose truncation is not refused leaves the first c    *)
(* entries alone, for a commit index c.                                    *)
LEMMA MergeKeepsCommitted ==
  ASSUME NEW E, NEW l \in Seq(E), NEW es \in Seq(E),
         NEW prev \in Nat, prev <= Len(l), Indexed(es, prev),
         NEW c \in Nat, c <= Len(l),
         Conflicts(l, es) => MayTruncate(c, es[FirstDiffering(l, es)].index)
  PROVE  /\ c <= Len(Merge(l, es))
         /\ \A i \in 1 .. c : Merge(l, es)[i] = l[i]
<1>1. CASE Differing(l, es) = {}
  BY <1>1 DEF Merge
<1>2. CASE Differing(l, es) # {}
  <2>. DEFINE k == FirstDiffering(l, es)
  <2>1. k \in 1 .. Len(es) /\ es[k].index = prev + k
    BY <1>2, FirstDifferingIsFirst DEF Indexed
  <2>2. c < prev + k
    <3>1. CASE Conflicts(l, es)
      BY <3>1, <2>1 DEF MayTruncate
    <3>2. CASE ~Conflicts(l, es)
      BY <3>2, <1>2, <2>1 DEF Conflicts, HasEntry
    <3>. QED  BY <3>1, <3>2
  <2>3. /\ Len(Merge(l, es)) = prev + Len(es)
        /\ \A i \in 1 .. prev + Len(es) :
             Merge(l, es)[i] = IF i < prev + k THEN l[i] ELSE es[i - prev]
    BY <1>2, MergeResult
  <2>. QED  BY <2>1, <2>2, <2>3
<1>. QED  BY <1>1, <1>2
=============================================================================

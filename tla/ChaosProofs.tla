---------------------------- MODULE ChaosProofs ----------------------------
(***************************************************************************)
(* The rules that chaos leaves in the proxies, for any number of nodes,    *)
(* injections, orders, heals and calls under way: of the injector of the   *)
(* in-process clusters (ChaosInjector) and of the endpoints of the servers *)
(* (ChaosAPI).                                                             *)
(***************************************************************************)
EXTENDS ChaosInjector, ChaosAPI, RaftLogProofs

(* A rule in a proxy, and the rule under its id. *)
Numbered == [id : Nat, from : Node \cup {Any}, to : Node \cup {Any},
             action : Actions, param : ParamTypes]

Pair(r) == [id |-> r.id, rule |-> Rule(r.from, r.to, r.action, r.param)]

Pairs(rs) == {Pair(rs[k]) : k \in DOMAIN rs}

Increasing(rs) == \A k, m \in DOMAIN rs : k < m => rs[k].id < rs[m].id

LEMMA PairOf ==
  ASSUME NEW r \in Numbered
  PROVE  /\ Pair(r).id = r.id
         /\ Pair(r).rule = Rule(r.from, r.to, r.action, r.param)
         /\ Pair(r).rule \in ProxyRule
         /\ Pair(r).rule.action = r.action
         /\ \A a, b : matches(Pair(r).rule, a, b) <=> matches(r, a, b)
BY DEF Pair, Rule, Numbered, ProxyRule, matches

(* RemoveRule takes the rules with the id and leaves the others in order. *)
LEMMA RemoveRuleIs ==
  ASSUME NEW rs \in Seq(Numbered), NEW x, Increasing(rs)
  PROVE  /\ RemoveRule(rs, x) \in Seq(Numbered)
         /\ Increasing(RemoveRule(rs, x))
         /\ Pairs(RemoveRule(rs, x)) = {s \in Pairs(rs) : s.id # x}
<1>. DEFINE T == {k \in DOMAIN rs : rs[k].id # x}
            out == RemoveRule(rs, x)
<1>1. Len(rs) \in Nat /\ DOMAIN rs = 1 .. Len(rs) /\ \A k \in DOMAIN rs : rs[k] \in Numbered
  BY LenProperties, ElementOfSeq
<1>2. T \in SUBSET (1 .. Len(rs)) /\ T \in SUBSET Nat
  BY <1>1
<1>3. Listable(Len(rs))
  BY <1>1, AllListable
<1>4. PICK n \in Nat : \E p : Enumerates(p, n, T)
  BY <1>2, <1>3 DEF Listable
<1>5. PICK p : Enumerates(p, n, T)
  BY <1>4
<1>6. Cardinality(T) = n
  BY <1>2, <1>5, RankOf
<1>7. Lists(p, n, T)
  BY <1>2, <1>5, NthIs
<1>8. out = [i \in 1 .. n |-> rs[NthOf(T, i)]]
  BY <1>6 DEF RemoveRule, NthOf
<1>9. /\ \A i \in 1 .. n : p[i] \in T
      /\ \A i, j \in 1 .. n : i < j => p[i] < p[j]
      /\ \A k \in T : \E i \in 1 .. n : p[i] = k
  BY <1>5 DEF Enumerates
<1>10. \A k \in T : k \in DOMAIN rs /\ rs[k].id # x
  OBVIOUS
<1>11. \A k \in DOMAIN rs : rs[k].id # x => k \in T
  OBVIOUS
<1>. HIDE DEF T, out
<1>12. \A i \in 1 .. n : out[i] = rs[p[i]]
  BY <1>7, <1>8 DEF Lists
<1>13. out \in Seq(Numbered) /\ DOMAIN out = 1 .. n
  <2>1. \A i \in 1 .. n : rs[p[i]] \in Numbered
    BY <1>1, <1>9, <1>10
  <2>2. \A i \in 1 .. n : out[i] \in Numbered
    BY <1>12, <2>1
  <2>3. DOMAIN out = 1 .. n
    BY <1>8
  <2>4. out = [i \in 1 .. n |-> out[i]]
    BY <1>8, <2>3
  <2>5. out \in [1 .. n -> Numbered]
    BY <2>2, <2>4
  <2>. QED  BY <2>3, <2>5
<1>14. Increasing(out)
  <2>. SUFFICES ASSUME NEW k \in 1 .. n, NEW m \in 1 .. n, k < m
                PROVE  out[k].id < out[m].id
    BY <1>13 DEF Increasing
  <2>1. p[k] \in DOMAIN rs /\ p[m] \in DOMAIN rs /\ p[k] < p[m]
    BY <1>9, <1>10
  <2>. QED  BY <1>12, <2>1 DEF Increasing
<1>15. Pairs(out) = {s \in Pairs(rs) : s.id # x}
  <2>1. ASSUME NEW k \in 1 .. n
        PROVE  Pair(out[k]) \in Pairs(rs) /\ Pair(out[k]).id # x
    <3>1. p[k] \in DOMAIN rs /\ rs[p[k]].id # x /\ rs[p[k]] \in Numbered
      BY <1>1, <1>9, <1>10
    <3>2. Pair(rs[p[k]]).id # x
      BY <3>1, PairOf
    <3>. QED  BY <1>12, <3>1, <3>2 DEF Pairs
  <2>2. ASSUME NEW k \in DOMAIN rs, Pair(rs[k]).id # x
        PROVE  Pair(rs[k]) \in Pairs(out)
    <3>1. rs[k].id # x
      BY <1>1, <2>2, PairOf
    <3>2. PICK i \in 1 .. n : p[i] = k
      BY <1>9, <1>11, <3>1
    <3>3. Pair(out[i]) = Pair(rs[k])
      BY <1>12, <3>2
    <3>. QED  BY <1>13, <3>3 DEF Pairs
  <2>. QED  BY <1>13, <2>1, <2>2 DEF Pairs
<1>. QED  BY <1>13, <1>14, <1>15 DEF out

-----------------------------------------------------------------------------
(* The books of the injector. An injection has its own ids, below those of *)
(* all later ones; its timer removes ids of its own; its rules all do the  *)
(* same.                                                                   *)
HasId(q, x) == \E j \in DOMAIN q.ids : q.ids[j] = x

OwnLeft(q) == \A j \in DOMAIN q.left : HasId(q, q.left[j])

SameAction(rs) == \A j, k \in DOMAIN rs : rs[j].action = rs[k].action

Sound(q, c) ==
  /\ Len(q.ids) = Len(q.rules)
  /\ \A x \in Nat : HasId(q, x) => x <= c
  /\ OwnLeft(q)
  /\ SameAction(q.rules)

Before(q, r) == \A x, y \in Nat : HasId(q, x) /\ HasId(r, y) => x < y

Stands(q) == {[id |-> q.ids[j], rule |-> q.rules[j]] :
                j \in {k \in DOMAIN q.ids : q.ids[k] \notin q.gone}}

(* The rules are those that still stand, in the order of their ids. *)
Accounted(rs, js) ==
  /\ Increasing(rs)
  /\ Pairs(rs) = UNION {Stands(js[i]) : i \in DOMAIN js}

Booked(js, c) ==
  /\ \A i \in DOMAIN js : Sound(js[i], c)
  /\ \A i, m \in DOMAIN js : i < m => Before(js[i], js[m])

Book(rs, c, js) ==
  /\ rs \in Seq(Numbered) /\ c \in Nat /\ js \in Seq(InjectionResult)
  /\ Booked(js, c)
  /\ Accounted(rs, js)

LEMMA InjectionFields ==
  ASSUME NEW q \in InjectionResult
  PROVE  /\ q.rules \in Seq(ProxyRule) /\ q.ids \in Seq(Nat) /\ q.left \in Seq(Nat)
         /\ q.gone \in SUBSET Nat
         /\ \A j \in DOMAIN q.ids : q.ids[j] \in Nat
<1>1. q.rules \in Seq(ProxyRule) /\ q.ids \in Seq(Nat) /\ q.left \in Seq(Nat)
      /\ q.gone \in SUBSET Nat
  BY DEF InjectionResult
<1>. QED  BY <1>1, ElementOfSeq, LenProperties

LEMMA StandsHas ==
  ASSUME NEW q, NEW s \in Stands(q)
  PROVE  HasId(q, s.id) /\ s.id \notin q.gone
BY DEF Stands, HasId

(* Two injections with the same ids and rules, one of which has more gone. *)
WithoutIds(q, X) == {s \in Stands(q) : s.id \notin X}

LEMMA StandsLess ==
  ASSUME NEW q, NEW r, NEW X, r.ids = q.ids, r.rules = q.rules, r.gone = q.gone \cup X
  PROVE  Stands(r) = WithoutIds(q, X)
<1>1. ASSUME NEW s \in Stands(r) PROVE s \in Stands(q) /\ s.id \notin X
  <2>1. PICK j \in DOMAIN r.ids : s = [id |-> r.ids[j], rule |-> r.rules[j]]
                                 /\ r.ids[j] \notin r.gone
    BY DEF Stands
  <2>2. s.id = r.ids[j]
    BY <2>1
  <2>3. j \in DOMAIN q.ids /\ q.ids[j] \notin q.gone
    BY <2>1
  <2>. QED  BY <2>1, <2>2, <2>3 DEF Stands
<1>2. ASSUME NEW s \in Stands(q), s.id \notin X PROVE s \in Stands(r)
  <2>1. PICK j \in DOMAIN q.ids : s = [id |-> q.ids[j], rule |-> q.rules[j]]
                                 /\ q.ids[j] \notin q.gone
    BY DEF Stands
  <2>2. s.id = q.ids[j]
    BY <2>1
  <2>3. j \in DOMAIN r.ids /\ r.ids[j] \notin r.gone
    BY <1>2, <2>1, <2>2
  <2>. QED  BY <2>1, <2>3 DEF Stands
<1>. QED  BY <1>1, <1>2 DEF WithoutIds

(* Nothing but the ids that are gone and left has changed. *)
SameBut(q, r) == /\ r \in InjectionResult
                 /\ r.ids = q.ids /\ r.rules = q.rules /\ OwnLeft(r)

LEMMA BookedStill ==
  ASSUME NEW c, NEW js, NEW ks, Booked(js, c), DOMAIN ks = DOMAIN js,
         \A i \in DOMAIN js : SameBut(js[i], ks[i])
  PROVE  Booked(ks, c)
<1>1. \A i \in DOMAIN js : \A x : HasId(ks[i], x) <=> HasId(js[i], x)
  BY DEF SameBut, HasId
<1>2. \A i \in DOMAIN js : Sound(ks[i], c)
  BY <1>1 DEF Booked, Sound, SameBut
<1>3. \A i, m \in DOMAIN js : i < m => Before(ks[i], ks[m])
  BY <1>1 DEF Booked, Before
<1>. QED  BY <1>2, <1>3 DEF Booked

(* A heal or a timer removes a rule by an id of its injection. *)
LEMMA BookRemoved ==
  ASSUME NEW rs, NEW c, NEW js, NEW ks, NEW i, NEW x,
         Book(rs, c, js), ks \in Seq(InjectionResult), DOMAIN ks = DOMAIN js,
         i \in DOMAIN js, HasId(js[i], x), x \in Nat,
         \A m \in DOMAIN js : m # i => ks[m] = js[m],
         SameBut(js[i], ks[i]), ks[i].gone = js[i].gone \cup {x}
  PROVE  Book(RemoveRule(rs, x), c, ks)
<1>1. /\ RemoveRule(rs, x) \in Seq(Numbered)
      /\ Increasing(RemoveRule(rs, x))
      /\ Pairs(RemoveRule(rs, x)) = {s \in Pairs(rs) : s.id # x}
  BY RemoveRuleIs DEF Book, Accounted
<1>2. \A m \in DOMAIN js : js[m] \in InjectionResult
  BY ElementOfSeq, LenProperties DEF Book
<1>3. ASSUME NEW m \in DOMAIN js PROVE SameBut(js[m], ks[m])
  BY <1>2 DEF SameBut, Book, Booked, Sound
<1>4. Booked(ks, c)
  BY <1>3, BookedStill DEF Book
<1>5. ASSUME NEW m \in DOMAIN js
      PROVE  Stands(ks[m]) = {s \in Stands(js[m]) : s.id # x}
  <2>1. CASE m = i
    <3>1. ks[m].ids = js[m].ids /\ ks[m].rules = js[m].rules
          /\ ks[m].gone = js[m].gone \cup {x}
      BY <2>1 DEF SameBut
    <3>2. Stands(ks[m]) = WithoutIds(js[m], {x})
      BY <3>1, StandsLess
    <3>. QED  BY <3>2 DEF WithoutIds
  <2>2. CASE m # i
    <3>1. ~HasId(js[m], x)
      <4>1. i \in Int /\ m \in Int
        BY LenProperties DEF Book
      <4>2. i < m \/ m < i
        BY <2>2, <4>1
      <4>. QED  BY <4>2 DEF Book, Booked, Before
    <3>2. \A s \in Stands(js[m]) : s.id # x
      BY <3>1, StandsHas
    <3>. QED  BY <2>2, <3>2
  <2>. QED  BY <2>1, <2>2
<1>6. Pairs(RemoveRule(rs, x)) = UNION {Stands(ks[m]) : m \in DOMAIN ks}
  BY <1>1, <1>5 DEF Book, Accounted
<1>. QED  BY <1>1, <1>4, <1>6 DEF Book, Accounted

(* Heal and RestartNode clear the proxy: all ids are gone. *)
LEMMA BookCleared ==
  ASSUME NEW rs, NEW c, NEW js, NEW ks,
         Book(rs, c, js), ks \in Seq(InjectionResult), DOMAIN ks = DOMAIN js,
         \A i \in DOMAIN js : /\ SameBut(js[i], ks[i])
                              /\ \A x : HasId(js[i], x) => x \in ks[i].gone
  PROVE  Book(<<>>, c, ks)
<1>1. Booked(ks, c)
  BY BookedStill DEF Book
<1>2. ASSUME NEW i \in DOMAIN js PROVE Stands(ks[i]) = {}
  <2>1. ASSUME NEW s \in Stands(ks[i]) PROVE FALSE
    <3>1. HasId(ks[i], s.id) /\ s.id \notin ks[i].gone
      BY StandsHas
    <3>2. HasId(js[i], s.id)
      BY <3>1 DEF SameBut, HasId
    <3>. QED  BY <3>1, <3>2
  <2>. QED  BY <2>1
<1>3. DOMAIN <<>> = {}
  OBVIOUS
<1>4. Pairs(<<>>) = {} /\ Increasing(<<>>)
  BY <1>3 DEF Pairs, Increasing
<1>5. UNION {Stands(ks[i]) : i \in DOMAIN ks} = {}
  BY <1>2
<1>6. <<>> \in Seq(Numbered)
  OBVIOUS
<1>. QED  BY <1>1, <1>4, <1>5, <1>6 DEF Book, Accounted

(* An injection: its rules follow under the next ids. *)
WithIds(new, c) == [j \in DOMAIN new |->
                      [id |-> c + j, from |-> new[j].from, to |-> new[j].to,
                       action |-> new[j].action, param |-> new[j].param]]

LEMMA NumberedIs ==
  ASSUME NEW new \in Seq(ProxyRule), NEW c \in Nat
  PROVE  /\ WithIds(new, c) \in Seq(Numbered)
         /\ Len(WithIds(new, c)) = Len(new)
         /\ \A j \in 1 .. Len(new) :
              /\ WithIds(new, c)[j].id = c + j
              /\ Pair(WithIds(new, c)[j]) = [id |-> c + j, rule |-> new[j]]
<1>. DEFINE n == Len(new)
            w == WithIds(new, c)
<1>1. n \in Nat /\ DOMAIN new = 1 .. n /\ \A j \in 1 .. n : new[j] \in ProxyRule
  BY LenProperties, ElementOfSeq
<1>. HIDE DEF n
<1>2. w = [j \in 1 .. n |-> [id |-> c + j, from |-> new[j].from, to |-> new[j].to,
                             action |-> new[j].action, param |-> new[j].param]]
  BY <1>1 DEF WithIds
<1>. HIDE DEF w
<1>3. ASSUME NEW j \in 1 .. n
      PROVE  /\ w[j] \in Numbered /\ w[j].id = c + j
             /\ Pair(w[j]) = [id |-> c + j, rule |-> new[j]]
  <2>1. /\ new[j] \in ProxyRule /\ c + j \in Nat
        /\ w[j] = [id |-> c + j, from |-> new[j].from, to |-> new[j].to,
                   action |-> new[j].action, param |-> new[j].param]
    BY <1>1, <1>2
  <2>2. Rule(new[j].from, new[j].to, new[j].action, new[j].param) = new[j]
    BY <2>1 DEF ProxyRule, Rule
  <2>3. new[j].from \in Node \cup {Any} /\ new[j].to \in Node \cup {Any}
        /\ new[j].action \in Actions /\ new[j].param \in ParamTypes
    BY <2>1 DEF ProxyRule
  <2>4. w[j] \in Numbered
    BY <2>1, <2>3 DEF Numbered
  <2>5. w[j].id = c + j /\ w[j].from = new[j].from /\ w[j].to = new[j].to
        /\ w[j].action = new[j].action /\ w[j].param = new[j].param
    BY <2>1
  <2>6. Pair(w[j]) = [id |-> c + j, rule |-> new[j]]
    BY <2>2, <2>5 DEF Pair
  <2>. QED  BY <2>4, <2>5, <2>6
<1>4. w \in [1 .. n -> Numbered]
  BY <1>2, <1>3
<1>5. w \in Seq(Numbered) /\ Len(w) = n
  BY <1>1, <1>4
<1>. QED  BY <1>3, <1>5 DEF w, n

NewIds(n, c) == [j \in 1 .. n |-> c + j]

LEMMA NewInjection ==
  ASSUME NEW c \in Nat, NEW q, q \in InjectionResult, q.ids = NewIds(Len(q.rules), c),
         q.gone = {}, q.left = q.ids \/ q.left = <<>>, SameAction(q.rules)
  PROVE  /\ Sound(q, c + Len(q.rules))
         /\ \A x \in Nat : HasId(q, x) => c < x
         /\ Stands(q) = Pairs(WithIds(q.rules, c))
<1>. DEFINE n == Len(q.rules)
<1>1. q.rules \in Seq(ProxyRule)
  BY InjectionFields
<1>2. n \in Nat
  BY <1>1, LenProperties
<1>3. /\ WithIds(q.rules, c) \in Seq(Numbered)
      /\ Len(WithIds(q.rules, c)) = n
      /\ \A j \in 1 .. n : Pair(WithIds(q.rules, c)[j]) = [id |-> c + j, rule |-> q.rules[j]]
  BY <1>1, NumberedIs
<1>4. DOMAIN WithIds(q.rules, c) = 1 .. n
  BY <1>3, LenProperties
<1>. HIDE DEF n
<1>5. q.ids = [j \in 1 .. n |-> c + j]
  BY DEF NewIds, n
<1>6. DOMAIN q.ids = 1 .. n /\ Len(q.ids) = n /\ \A j \in 1 .. n : q.ids[j] = c + j
  BY <1>2, <1>5
<1>7. ASSUME NEW x \in Nat, HasId(q, x) PROVE c < x /\ x <= c + n
  <2>1. PICK j \in 1 .. n : x = c + j
    BY <1>6, <1>7 DEF HasId
  <2>. QED  BY <1>2, <2>1
<1>8. OwnLeft(q)
  <2>1. CASE q.left = q.ids
    BY <2>1 DEF OwnLeft, HasId
  <2>2. CASE q.left = <<>>
    BY <2>2 DEF OwnLeft
  <2>. QED  BY <2>1, <2>2
<1>9. Sound(q, c + n)
  BY <1>6, <1>7, <1>8 DEF Sound, n
<1>10. Stands(q) = Pairs(WithIds(q.rules, c))
  <2>1. Stands(q) = {[id |-> c + j, rule |-> q.rules[j]] : j \in 1 .. n}
    BY <1>6 DEF Stands
  <2>2. Pairs(WithIds(q.rules, c)) = {[id |-> c + j, rule |-> q.rules[j]] : j \in 1 .. n}
    BY <1>3, <1>4 DEF Pairs
  <2>. QED  BY <2>1, <2>2
<1>. QED  BY <1>7, <1>9, <1>10 DEF n

(* Rules with higher ids come after the others. *)
LEMMA PairsJoined ==
  ASSUME NEW rs \in Seq(Numbered), NEW ts \in Seq(Numbered),
         Increasing(rs), Increasing(ts),
         \A j \in DOMAIN rs : \A k \in DOMAIN ts : rs[j].id < ts[k].id
  PROVE  /\ rs \o ts \in Seq(Numbered)
         /\ Increasing(rs \o ts)
         /\ Pairs(rs \o ts) = Pairs(rs) \cup Pairs(ts)
<1>. DEFINE n == Len(rs)
            m == Len(ts)
            z == rs \o ts
<1>1. n \in Nat /\ m \in Nat /\ DOMAIN rs = 1 .. n /\ DOMAIN ts = 1 .. m
  BY LenProperties
<1>2. z \in Seq(Numbered) /\ Len(z) = n + m
      /\ \A i \in 1 .. n + m : z[i] = IF i <= n THEN rs[i] ELSE ts[i - n]
  BY ConcatProperties
<1>3. DOMAIN z = 1 .. n + m
  BY <1>2, LenProperties
<1>. HIDE DEF n, m, z
<1>4. \A i \in 1 .. n : i \in 1 .. n + m /\ z[i] = rs[i]
  BY <1>1, <1>2
<1>5. \A i \in 1 .. m : n + i \in 1 .. n + m /\ z[n + i] = ts[i]
  <2>. SUFFICES ASSUME NEW i \in 1 .. m PROVE n + i \in 1 .. n + m /\ z[n + i] = ts[i]
    OBVIOUS
  <2>1. n + i \in 1 .. n + m /\ ~(n + i <= n) /\ (n + i) - n = i
    BY <1>1
  <2>. QED  BY <1>2, <2>1
<1>6. \A i \in 1 .. n + m : i \in 1 .. n \/ \E k \in 1 .. m : i = n + k
  <2>. SUFFICES ASSUME NEW i \in 1 .. n + m, i \notin 1 .. n PROVE \E k \in 1 .. m : i = n + k
    OBVIOUS
  <2>1. i - n \in 1 .. m /\ i = n + (i - n)
    BY <1>1
  <2>. QED  BY <2>1
<1>7. Increasing(z)
  <2>. SUFFICES ASSUME NEW i \in 1 .. n + m, NEW j \in 1 .. n + m, i < j
                PROVE  z[i].id < z[j].id
    BY <1>3 DEF Increasing
  <2>1. CASE i \in 1 .. n /\ j \in 1 .. n
    BY <1>1, <1>4, <2>1 DEF Increasing
  <2>2. CASE i \in 1 .. n /\ j \notin 1 .. n
    <3>1. PICK k \in 1 .. m : j = n + k
      BY <1>6, <2>2
    <3>2. rs[i].id < ts[k].id
      BY <1>1, <2>2
    <3>. QED  BY <1>4, <1>5, <2>2, <3>1, <3>2
  <2>3. CASE i \notin 1 .. n
    <3>1. PICK k \in 1 .. m : i = n + k
      BY <1>6, <2>3
    <3>2. j \notin 1 .. n
      BY <1>1, <3>1
    <3>3. PICK l \in 1 .. m : j = n + l
      BY <1>6, <3>2
    <3>4. k < l
      BY <1>1, <3>1, <3>3
    <3>5. ts[k].id < ts[l].id
      BY <1>1, <3>4 DEF Increasing
    <3>. QED  BY <1>5, <3>1, <3>3, <3>5
  <2>. QED  BY <2>1, <2>2, <2>3
<1>8. Pairs(z) = Pairs(rs) \cup Pairs(ts)
  <2>1. ASSUME NEW i \in 1 .. n + m PROVE Pair(z[i]) \in Pairs(rs) \cup Pairs(ts)
    <3>1. CASE i \in 1 .. n
      BY <1>1, <1>4, <3>1 DEF Pairs
    <3>2. CASE i \notin 1 .. n
      BY <1>1, <1>5, <1>6, <3>2 DEF Pairs
    <3>. QED  BY <3>1, <3>2
  <2>2. ASSUME NEW i \in 1 .. n PROVE Pair(rs[i]) \in Pairs(z)
    BY <1>3, <1>4 DEF Pairs
  <2>3. ASSUME NEW i \in 1 .. m PROVE Pair(ts[i]) \in Pairs(z)
    BY <1>3, <1>5 DEF Pairs
  <2>4. Pairs(z) \subseteq Pairs(rs) \cup Pairs(ts)
    BY <1>3, <2>1 DEF Pairs
  <2>5. Pairs(rs) \subseteq Pairs(z)
    BY <1>1, <2>2 DEF Pairs
  <2>6. Pairs(ts) \subseteq Pairs(z)
    BY <1>1, <2>3 DEF Pairs
  <2>. QED  BY <2>4, <2>5, <2>6
<1>. QED  BY <1>2, <1>7, <1>8 DEF z

LEMMA AppendIs ==
  ASSUME NEW S, NEW s \in Seq(S), NEW e \in S
  PROVE  /\ Append(s, e) \in Seq(S) /\ Len(Append(s, e)) = Len(s) + 1
         /\ DOMAIN Append(s, e) = DOMAIN s \cup {Len(s) + 1}
         /\ \A i \in DOMAIN s : Append(s, e)[i] = s[i] /\ i < Len(s) + 1
         /\ Append(s, e)[Len(s) + 1] = e
<1>1. Len(s) \in Nat /\ DOMAIN s = 1 .. Len(s)
  BY LenProperties
<1>2. /\ Append(s, e) \in Seq(S) /\ Len(Append(s, e)) = Len(s) + 1
      /\ \A i \in 1 .. Len(s) : Append(s, e)[i] = s[i]
      /\ Append(s, e)[Len(s) + 1] = e
  BY AppendProperties
<1>3. DOMAIN Append(s, e) = 1 .. Len(s) + 1
  BY <1>2, LenProperties
<1>4. 1 .. Len(s) + 1 = (1 .. Len(s)) \cup {Len(s) + 1}
  BY <1>1
<1>5. \A i \in 1 .. Len(s) : i < Len(s) + 1
  BY <1>1
<1>. QED  BY <1>1, <1>2, <1>3, <1>4, <1>5

LEMMA BookInjected ==
  ASSUME NEW rs, NEW c, NEW js, NEW q,
         Book(rs, c, js), q \in InjectionResult, q.ids = NewIds(Len(q.rules), c),
         q.gone = {}, q.left = q.ids \/ q.left = <<>>, SameAction(q.rules)
  PROVE  Book(rs \o WithIds(q.rules, c), c + Len(q.rules), Append(js, q))
<1>. DEFINE n  == Len(q.rules)
            ts == WithIds(q.rules, c)
            ks == Append(js, q)
            l  == Len(js)
<1>1. /\ rs \in Seq(Numbered) /\ c \in Nat /\ js \in Seq(InjectionResult)
      /\ Booked(js, c) /\ Increasing(rs)
      /\ Pairs(rs) = UNION {Stands(js[i]) : i \in DOMAIN js}
  BY DEF Book, Accounted
<1>2. /\ Sound(q, c + n)
      /\ \A x \in Nat : HasId(q, x) => c < x
      /\ Stands(q) = Pairs(ts)
  BY <1>1, NewInjection
<1>3. q.rules \in Seq(ProxyRule) /\ n \in Nat /\ l \in Nat
  BY <1>1, InjectionFields, LenProperties
<1>4. /\ ts \in Seq(Numbered) /\ Len(ts) = n
      /\ \A j \in 1 .. n : ts[j].id = c + j
  BY <1>1, <1>3, NumberedIs
<1>5. DOMAIN ts = 1 .. n
  BY <1>4, LenProperties
<1>6. /\ ks \in Seq(InjectionResult)
      /\ DOMAIN ks = DOMAIN js \cup {l + 1}
      /\ \A i \in DOMAIN js : ks[i] = js[i] /\ i < l + 1
      /\ ks[l + 1] = q
  BY <1>1, AppendIs
<1>. HIDE DEF n, ts, ks, l
<1>7. c + n \in Nat /\ \A x \in Nat : x <= c => x <= c + n
  BY <1>1, <1>3
<1>8. Booked(ks, c + n)
  <2>1. ASSUME NEW i \in DOMAIN js PROVE Sound(js[i], c + n)
    BY <1>1, <1>7 DEF Booked, Sound
  <2>2. ASSUME NEW i \in DOMAIN js PROVE Before(js[i], q)
    <3>. SUFFICES ASSUME NEW x \in Nat, NEW y \in Nat, HasId(js[i], x), HasId(q, y)
                  PROVE  x < y
      BY DEF Before
    <3>1. x <= c
      BY <1>1 DEF Booked, Sound
    <3>2. c < y
      BY <1>2
    <3>. QED  BY <1>1, <3>1, <3>2
  <2>3. \A i \in DOMAIN ks : Sound(ks[i], c + n)
    BY <1>2, <1>6, <2>1
  <2>4. ASSUME NEW i \in DOMAIN ks, NEW m \in DOMAIN ks, i < m PROVE Before(ks[i], ks[m])
    <3>1. i \in DOMAIN js
      <4>1. CASE i = l + 1
        <5>1. m \in DOMAIN js => m < l + 1
          BY <1>6
        <5>2. m \in Int
          BY <1>1, <1>3, <1>6, LenProperties
        <5>. QED  BY <1>3, <1>6, <2>4, <4>1, <5>1, <5>2
      <4>. QED  BY <1>6, <4>1
    <3>2. CASE m \in DOMAIN js
      BY <1>1, <1>6, <2>4, <3>1, <3>2 DEF Booked
    <3>3. CASE m = l + 1
      BY <1>6, <2>2, <3>1, <3>3
    <3>. QED  BY <1>6, <3>2, <3>3
  <2>. QED  BY <2>3, <2>4 DEF Booked
<1>9. ASSUME NEW j \in DOMAIN rs PROVE rs[j].id \in Nat /\ rs[j].id <= c
  <2>1. rs[j] \in Numbered
    BY <1>1, ElementOfSeq, LenProperties
  <2>2. Pair(rs[j]) \in Pairs(rs) /\ Pair(rs[j]).id = rs[j].id
    BY <2>1, PairOf DEF Pairs
  <2>3. PICK i \in DOMAIN js : Pair(rs[j]) \in Stands(js[i])
    BY <1>1, <2>2
  <2>4. HasId(js[i], rs[j].id)
    BY <2>2, <2>3, StandsHas
  <2>5. rs[j].id \in Nat
    BY <2>1 DEF Numbered
  <2>. QED  BY <1>1, <2>4, <2>5 DEF Booked, Sound
<1>10. \A j \in DOMAIN rs : \A k \in DOMAIN ts : rs[j].id < ts[k].id
  <2>. SUFFICES ASSUME NEW j \in DOMAIN rs, NEW k \in 1 .. n PROVE rs[j].id < ts[k].id
    BY <1>5
  <2>1. ts[k].id = c + k
    BY <1>4
  <2>2. rs[j].id \in Nat /\ rs[j].id <= c
    BY <1>9
  <2>. QED  BY <1>1, <1>3, <2>1, <2>2
<1>11. Increasing(ts)
  <2>. SUFFICES ASSUME NEW j \in 1 .. n, NEW k \in 1 .. n, j < k PROVE ts[j].id < ts[k].id
    BY <1>5 DEF Increasing
  <2>1. ts[j].id = c + j /\ ts[k].id = c + k
    BY <1>4
  <2>. QED  BY <1>1, <1>3, <2>1
<1>12. /\ rs \o ts \in Seq(Numbered)
       /\ Increasing(rs \o ts)
       /\ Pairs(rs \o ts) = Pairs(rs) \cup Pairs(ts)
  BY <1>1, <1>4, <1>10, <1>11, PairsJoined
<1>13. UNION {Stands(ks[i]) : i \in DOMAIN ks}
         = Pairs(rs) \cup Stands(q)
  <2>1. ASSUME NEW i \in DOMAIN ks PROVE Stands(ks[i]) \subseteq Pairs(rs) \cup Stands(q)
    <3>1. CASE i \in DOMAIN js
      BY <1>1, <1>6, <3>1
    <3>2. CASE i = l + 1
      BY <1>6, <3>2
    <3>. QED  BY <1>6, <3>1, <3>2
  <2>2. ASSUME NEW s \in Pairs(rs) PROVE \E i \in DOMAIN ks : s \in Stands(ks[i])
    BY <1>1, <1>6
  <2>3. Stands(q) = Stands(ks[l + 1]) /\ l + 1 \in DOMAIN ks
    BY <1>6
  <2>4. UNION {Stands(ks[i]) : i \in DOMAIN ks} \subseteq Pairs(rs) \cup Stands(q)
    BY <2>1
  <2>5. Pairs(rs) \cup Stands(q) \subseteq UNION {Stands(ks[i]) : i \in DOMAIN ks}
    BY <2>2, <2>3
  <2>. QED  BY <2>4, <2>5
<1>14. Accounted(rs \o ts, ks)
  <2>1. Pairs(rs \o ts) = Pairs(rs) \cup Stands(q)
    BY <1>2, <1>12
  <2>. QED  BY <1>12, <1>13, <2>1 DEF Accounted
<1>. QED  BY <1>6, <1>7, <1>8, <1>12, <1>14 DEF Book, n, ts, ks

-----------------------------------------------------------------------------
(* The instances of the nodes: the injector knows the last one made, peers *)
(* call it unless it is about to start, and no other runs.                 *)
Driver == [op : {"idle", "stop", "heal", "create", "start"}, node : Node \cup {Any},
           inj : Nat, step : Nat]

InstanceInv ==
  /\ driver \in Driver
  /\ nodes \in [Node -> Nat] /\ registry \in [Node -> Nat] /\ made \in [Node -> Nat]
  /\ running \in [Node -> SUBSET Nat]
  /\ \A n \in Node : made[n] = nodes[n] /\ running[n] \subseteq {nodes[n]}
  /\ \A n \in Node : nodes[n] = registry[n] \/ (driver.op = "start" /\ driver.node = n)
  /\ driver.op \in {"stop", "create", "start"} => driver.node \in Node
  /\ driver.op \in {"create", "start"} => running[driver.node] = {}

BookInv ==
  /\ Book(rules, ruleCounter, injections)
  /\ driver.op = "heal" => driver.inj \in DOMAIN injections

InjectorInv == InstanceInv /\ BookInv

Kinds == {"partition", "apart", "delay", "loss", "crash"}

LEMMA InjectKeeps ==
  ASSUME NEW kind \in Kinds, NEW new \in Seq(ProxyRule), NEW timed \in BOOLEAN,
         SameAction(new), Book(rules, ruleCounter, injections), Inject(kind, new, timed)
  PROVE  /\ Book(rules, ruleCounter, injections)'
         /\ driver = Idle /\ UNCHANGED <<nodes, registry, running, made, calls>>
<1>. DEFINE c == ruleCounter
            n == Len(new)
            ids == nextID(n)
            q == [kind |-> kind, rules |-> new, ids |-> ids, timed |-> timed,
                  left |-> IF timed THEN ids ELSE <<>>, gone |-> {}]
<1>1. c \in Nat /\ n \in Nat /\ DOMAIN new = 1 .. n
  BY LenProperties DEF Book
<1>2. ids = NewIds(n, c)
  BY DEF nextID, NewIds
<1>3. ids \in Seq(Nat) /\ \A j \in 1 .. n : ids[j] = c + j
  <2>1. ids = [j \in 1 .. n |-> c + j]
    BY DEF nextID
  <2>. HIDE DEF ids, c, n
  <2>2. \A j \in 1 .. n : c + j \in Nat
    BY <1>1
  <2>3. ids \in [1 .. n -> Nat]
    BY <2>1, <2>2
  <2>. QED  BY <1>1, <2>1, <2>3
<1>4. rules' = rules \o WithIds(new, c)
  <2>1. rules' = rules \o [j \in DOMAIN new |->
                    [id |-> ids[j], from |-> new[j].from, to |-> new[j].to,
                     action |-> new[j].action, param |-> new[j].param]]
    BY DEF Inject, AddRules
  <2>2. [j \in DOMAIN new |->
           [id |-> ids[j], from |-> new[j].from, to |-> new[j].to,
            action |-> new[j].action, param |-> new[j].param]] = WithIds(new, c)
    <3>. HIDE DEF ids, c, n
    <3>. QED  BY <1>1, <1>3 DEF WithIds
  <2>. QED  BY <2>1, <2>2
<1>5. ruleCounter' = c + n /\ injections' = Append(injections, q)
  BY DEF Inject
<1>6. q \in InjectionResult
  <2>. HIDE DEF ids
  <2>1. (IF timed THEN ids ELSE <<>>) \in Seq(Nat)
    BY <1>3
  <2>. QED  BY <1>3, <2>1 DEF InjectionResult, Kinds
<1>7. q.rules = new /\ q.ids = ids /\ q.gone = {} /\ (q.left = q.ids \/ q.left = <<>>)
  BY <1>6 DEF InjectionResult
<1>. HIDE DEF q, ids, n, c
<1>8. Book(rules \o WithIds(q.rules, c), c + Len(q.rules), Append(injections, q))
  BY <1>2, <1>6, <1>7, BookInjected DEF n, c
<1>9. Book(rules', ruleCounter', injections')
  BY <1>4, <1>5, <1>7, <1>8 DEF n
<1>10. driver = Idle /\ UNCHANGED <<nodes, registry, running, made, calls>>
  BY DEF Inject
<1>. QED  BY <1>9, <1>10

LEMMA RuleIn ==
  ASSUME NEW from \in Node \cup {Any}, NEW to \in Node \cup {Any},
         NEW action \in Actions, NEW param \in ParamTypes
  PROVE  Rule(from, to, action, param) \in ProxyRule
         /\ Rule(from, to, action, param).action = action
BY DEF Rule, ProxyRule

LEMMA AroundIn ==
  ASSUME NEW n \in Node, NEW action \in Actions, NEW param \in ParamTypes
  PROVE  Around(n, action, param) \in Seq(ProxyRule) /\ SameAction(Around(n, action, param))
<1>. DEFINE r == Rule(n, Any, action, param)
            s == Rule(Any, n, action, param)
<1>1. r \in ProxyRule /\ s \in ProxyRule /\ r.action = action /\ s.action = action
  BY RuleIn
<1>. HIDE DEF r, s
<1>2. <<r, s>> \in Seq(ProxyRule) /\ SameAction(<<r, s>>)
  BY <1>1 DEF SameAction
<1>. QED  BY <1>2 DEF Around, r, s

LEMMA ApartIn ==
  ASSUME NEW a \in Node, NEW b \in Node
  PROVE  LET there == Rule(a, b, "drop", "none")
             back  == Rule(b, a, "drop", "none")
         IN  \A new \in {<<there, back>>, <<there>>, <<back>>, <<>>} :
               new \in Seq(ProxyRule) /\ SameAction(new)
<1>. DEFINE r == Rule(a, b, "drop", "none")
            s == Rule(b, a, "drop", "none")
<1>1. r \in ProxyRule /\ s \in ProxyRule /\ r.action = "drop" /\ s.action = "drop"
  BY RuleIn DEF Actions, ParamTypes
<1>. HIDE DEF r, s
<1>2. <<r, s>> \in Seq(ProxyRule) /\ SameAction(<<r, s>>)
  BY <1>1 DEF SameAction
<1>3. <<r>> \in Seq(ProxyRule) /\ SameAction(<<r>>)
  BY <1>1 DEF SameAction
<1>4. <<s>> \in Seq(ProxyRule) /\ SameAction(<<s>>)
  BY <1>1 DEF SameAction
<1>5. <<>> \in Seq(ProxyRule) /\ SameAction(<<>>)
  BY DEF SameAction
<1>. QED  BY <1>2, <1>3, <1>4, <1>5 DEF r, s

LEMMA IdleFields ==
  /\ Idle \in Driver /\ Idle.op = "idle"
  /\ \A op \in {"stop", "create"}, n \in Node :
       LET d == [Idle EXCEPT !.op = op, !.node = n]
       IN  d \in Driver /\ d.op = op /\ d.node = n
  /\ \A i \in Nat :
       LET d == [Idle EXCEPT !.op = "heal", !.inj = i, !.step = 1]
       IN  d \in Driver /\ d.op = "heal" /\ d.inj = i
BY DEF Idle, Driver

-----------------------------------------------------------------------------
(* Every step keeps the books and the instances. *)
LEMMA InjectionsKept ==
  ASSUME NEW kind \in Kinds, NEW new \in Seq(ProxyRule), NEW timed \in BOOLEAN,
         SameAction(new), InjectorInv, Inject(kind, new, timed),
         \/ UNCHANGED driver
         \/ \E n \in Node : driver' = [Idle EXCEPT !.op = "stop", !.node = n]
  PROVE  InjectorInv'
<1>1. /\ Book(rules', ruleCounter', injections')
      /\ driver = Idle /\ UNCHANGED <<nodes, registry, running, made>>
  BY InjectKeeps DEF InjectorInv, BookInv
<1>2. driver' \in Driver /\ (driver'.op = "idle" \/ (driver'.op = "stop" /\ driver'.node \in Node))
  <2>1. CASE UNCHANGED driver
    BY <1>1, <2>1, IdleFields
  <2>2. CASE \E n \in Node : driver' = [Idle EXCEPT !.op = "stop", !.node = n]
    <3>1. PICK n \in Node : driver' = [Idle EXCEPT !.op = "stop", !.node = n]
      BY <2>2
    <3>. QED  BY <3>1 DEF Idle, Driver
  <2>. QED  BY <2>1, <2>2
<1>3. \A n \in Node : nodes[n] = registry[n]
  BY <1>1, IdleFields DEF InjectorInv, InstanceInv
<1>4. InstanceInv'
  BY <1>1, <1>2, <1>3 DEF InjectorInv, InstanceInv
<1>5. BookInv'
  BY <1>1, <1>2 DEF BookInv
<1>. QED  BY <1>4, <1>5 DEF InjectorInv

LEMMA ClearedKept ==
  ASSUME Book(rules, ruleCounter, injections),
         rules' = ClearRules, injections' = AllGone, UNCHANGED ruleCounter
  PROVE  Book(rules, ruleCounter, injections)'
<1>. DEFINE js == injections
            ks == AllGone
<1>1. js \in Seq(InjectionResult) /\ \A i \in DOMAIN js : js[i] \in InjectionResult
  BY ElementOfSeq, LenProperties DEF Book
<1>2. ks = [i \in DOMAIN js |-> [js[i] EXCEPT !.gone = {js[i].ids[j] : j \in DOMAIN js[i].ids}]]
  BY DEF AllGone
<1>3. ASSUME NEW i \in DOMAIN js
      PROVE  /\ SameBut(js[i], ks[i]) /\ ks[i] \in InjectionResult
             /\ \A x : HasId(js[i], x) => x \in ks[i].gone
  <2>. DEFINE q == js[i]
              G == {q.ids[j] : j \in DOMAIN q.ids}
  <2>1. q \in InjectionResult /\ ks[i] = [q EXCEPT !.gone = G]
    BY <1>1, <1>2
  <2>2. G \in SUBSET Nat
    BY <2>1, InjectionFields
  <2>3. \A x : HasId(q, x) => x \in G
    BY DEF HasId
  <2>4. OwnLeft(q)
    BY DEF Book, Booked, Sound
  <2>. HIDE DEF q, G
  <2>5. /\ ks[i] \in InjectionResult /\ ks[i].ids = q.ids /\ ks[i].rules = q.rules
        /\ ks[i].left = q.left /\ ks[i].gone = G
    BY <2>1, <2>2 DEF InjectionResult
  <2>6. OwnLeft(ks[i])
    BY <2>4, <2>5 DEF OwnLeft, HasId
  <2>. QED  BY <2>3, <2>5, <2>6 DEF SameBut, q
<1>. HIDE DEF js, ks
<1>4. DOMAIN ks = DOMAIN js
  BY <1>2
<1>5. ks \in Seq(InjectionResult)
  <2>1. Len(js) \in Nat /\ DOMAIN js = 1 .. Len(js)
    BY <1>1, LenProperties
  <2>2. ks \in [1 .. Len(js) -> InjectionResult]
    BY <1>2, <1>3, <2>1
  <2>. QED  BY <2>1, <2>2
<1>6. Book(rules, ruleCounter, js)
  BY DEF js
<1>7. Book(<<>>, ruleCounter, ks)
  BY <1>3, <1>4, <1>5, <1>6, BookCleared
<1>. QED  BY <1>7 DEF ClearRules, ks

LEMMA RemovedKept ==
  ASSUME NEW i \in DOMAIN injections, NEW x \in Nat, NEW q,
         Book(rules, ruleCounter, injections), HasId(injections[i], x),
         SameBut(injections[i], q), q.gone = injections[i].gone \cup {x},
         injections' = [injections EXCEPT ![i] = q],
         rules' = RemoveRule(rules, x), UNCHANGED ruleCounter
  PROVE  Book(rules, ruleCounter, injections)' /\ DOMAIN injections' = DOMAIN injections
<1>. DEFINE js == injections
            ks == [injections EXCEPT ![i] = q]
<1>1. js \in Seq(InjectionResult) /\ q \in InjectionResult
  BY DEF Book, SameBut
<1>2. DOMAIN ks = DOMAIN js /\ ks[i] = q /\ \A m \in DOMAIN js : m # i => ks[m] = js[m]
  OBVIOUS
<1>3. ks \in Seq(InjectionResult)
  BY <1>1
<1>. HIDE DEF ks, js
<1>4. Book(rules, ruleCounter, js) /\ i \in DOMAIN js /\ HasId(js[i], x)
      /\ SameBut(js[i], ks[i]) /\ ks[i].gone = js[i].gone \cup {x}
  BY <1>2 DEF js
<1>5. Book(RemoveRule(rules, x), ruleCounter, ks)
  BY <1>2, <1>3, <1>4, BookRemoved
<1>. QED  BY <1>2, <1>5 DEF ks, js

LEMMA HealStepKept ==
  ASSUME InjectorInv, HealStep
  PROVE  InjectorInv'
<1>. DEFINE i == driver.inj
            k == driver.step
            q == injections[i]
            x == q.ids[k]
            r == [q EXCEPT !.gone = @ \cup {x}]
<1>1. driver \in Driver /\ driver.op = "heal" /\ i \in DOMAIN injections
      /\ Book(rules, ruleCounter, injections)
      /\ UNCHANGED <<ruleCounter, nodes, registry, running, made, calls, heals>>
  BY DEF HealStep, InjectorInv, InstanceInv, BookInv
<1>2. q \in InjectionResult /\ OwnLeft(q)
  BY <1>1, ElementOfSeq, LenProperties DEF Book, Booked, Sound
<1>3. CASE k \in DOMAIN q.ids
  <2>1. /\ rules' = RemoveRule(rules, x)
        /\ injections' = [injections EXCEPT ![i].gone = @ \cup {x}]
        /\ driver' = [driver EXCEPT !.step = k + 1]
    BY <1>3 DEF HealStep
  <2>2. x \in Nat /\ HasId(q, x)
    BY <1>2, <1>3, InjectionFields DEF HasId
  <2>3. injections' = [injections EXCEPT ![i] = r]
    BY <2>1
  <2>. HIDE DEF x, q
  <2>4. /\ r \in InjectionResult /\ r.ids = q.ids /\ r.rules = q.rules /\ r.left = q.left
        /\ r.gone = q.gone \cup {x}
    BY <1>2, <2>2 DEF InjectionResult
  <2>. HIDE DEF r
  <2>5. SameBut(q, r)
    BY <1>2, <2>4 DEF SameBut, OwnLeft, HasId
  <2>6. Book(rules, ruleCounter, injections)' /\ DOMAIN injections' = DOMAIN injections
    <3>. HIDE DEF i
    <3>. QED  BY <1>1, <2>1, <2>2, <2>3, <2>4, <2>5, RemovedKept DEF q
  <2>7. driver' \in Driver /\ driver'.op = "heal" /\ driver'.inj = i
    BY <1>1, <2>1 DEF Driver
  <2>8. BookInv'
    BY <1>1, <2>6, <2>7 DEF BookInv
  <2>9. InstanceInv'
    BY <1>1, <2>7 DEF InjectorInv, InstanceInv
  <2>. QED  BY <2>8, <2>9 DEF InjectorInv
<1>4. CASE k \notin DOMAIN q.ids
  <2>1. driver' = Idle /\ UNCHANGED <<rules, injections>>
    BY <1>4 DEF HealStep
  <2>2. driver' \in Driver /\ driver'.op = "idle"
    BY <2>1, IdleFields
  <2>3. BookInv'
    BY <1>1, <2>1, <2>2 DEF BookInv
  <2>4. InstanceInv'
    BY <1>1, <2>2 DEF InjectorInv, InstanceInv
  <2>. QED  BY <2>3, <2>4 DEF InjectorInv
<1>. QED  BY <1>3, <1>4

LEMMA TimedHealKept ==
  ASSUME InjectorInv, NEW i \in DOMAIN injections, TimedHeal(i)
  PROVE  InjectorInv'
<1>. DEFINE q == injections[i]
            x == Head(q.left)
            r == [q EXCEPT !.left = Tail(@), !.gone = @ \cup {x}]
<1>1. /\ q.left # <<>>
      /\ rules' = RemoveRule(rules, x)
      /\ injections' = [injections EXCEPT ![i] = r]
      /\ UNCHANGED <<ruleCounter, driver, nodes, registry, running, made, calls, heals>>
  BY DEF TimedHeal
<1>2. Book(rules, ruleCounter, injections)
  BY DEF InjectorInv, BookInv
<1>3. q \in InjectionResult /\ OwnLeft(q) /\ q.left \in Seq(Nat)
  BY <1>2, ElementOfSeq, LenProperties, InjectionFields DEF Book, Booked, Sound
<1>4. PICK t : t = q.left
  OBVIOUS
<1>5. t \in Seq(Nat) /\ t # <<>>
  BY <1>1, <1>3, <1>4
<1>6. /\ Head(t) = t[1] /\ 1 \in DOMAIN t /\ Head(t) \in Nat /\ Tail(t) \in Seq(Nat)
      /\ \A j \in DOMAIN Tail(t) : j + 1 \in DOMAIN t /\ Tail(t)[j] = t[j + 1]
  <2>1. Len(t) \in Nat /\ Len(t) # 0 /\ DOMAIN t = 1 .. Len(t)
    BY <1>5, LenProperties, EmptySeq
  <2>2. Tail(t) \in Seq(Nat) /\ Len(Tail(t)) = Len(t) - 1
        /\ \A j \in 1 .. Len(Tail(t)) : Tail(t)[j] = t[j + 1]
    BY <1>5, HeadTailProperties
  <2>3. DOMAIN Tail(t) = 1 .. Len(t) - 1
    BY <2>2, LenProperties
  <2>4. \A j \in 1 .. Len(t) - 1 : j + 1 \in 1 .. Len(t)
    BY <2>1
  <2>5. Head(t) = t[1] /\ Head(t) \in Nat
    BY <1>5, HeadTailProperties
  <2>. QED  BY <2>1, <2>2, <2>3, <2>4, <2>5
<1>7. x \in Nat /\ HasId(q, x)
  BY <1>3, <1>4, <1>6 DEF OwnLeft
<1>8. r = [q EXCEPT !.left = Tail(t), !.gone = q.gone \cup {x}]
  BY <1>3, <1>4 DEF InjectionResult
<1>. HIDE DEF x, q, r
<1>9. /\ r \in InjectionResult /\ r.ids = q.ids /\ r.rules = q.rules /\ r.left = Tail(t)
      /\ r.gone = q.gone \cup {x}
  BY <1>3, <1>6, <1>7, <1>8 DEF InjectionResult
<1>10. \A y : HasId(r, y) <=> HasId(q, y)
  BY <1>9 DEF HasId
<1>11. OwnLeft(r)
  BY <1>3, <1>4, <1>6, <1>9, <1>10 DEF OwnLeft
<1>12. SameBut(q, r)
  BY <1>9, <1>11 DEF SameBut
<1>13. Book(rules, ruleCounter, injections)' /\ DOMAIN injections' = DOMAIN injections
  BY <1>1, <1>2, <1>7, <1>9, <1>12, RemovedKept DEF q
<1>14. BookInv'
  BY <1>1, <1>13 DEF InjectorInv, BookInv
<1>15. InstanceInv'
  BY <1>1 DEF InjectorInv, InstanceInv
<1>. QED  BY <1>14, <1>15 DEF InjectorInv

LEMMA HealsKept ==
  ASSUME InjectorInv, Heal \/ (\E n \in Node : Crashed(n) /\ RestartNode(n))
                           \/ (\E i \in DOMAIN injections : HealPartition(i))
  PROVE  InjectorInv'
<1>0. Book(rules, ruleCounter, injections) /\ Len(injections) \in Nat
      /\ DOMAIN injections = 1 .. Len(injections)
  BY LenProperties DEF InjectorInv, BookInv, Book
<1>1. CASE Heal
  <2>1. driver = Idle /\ rules' = ClearRules /\ injections' = AllGone
        /\ UNCHANGED <<ruleCounter, driver, nodes, registry, running, made>>
    BY <1>1 DEF Heal
  <2>2. Book(rules, ruleCounter, injections)'
    BY <1>0, <2>1, ClearedKept
  <2>3. BookInv'
    BY <2>1, <2>2, IdleFields DEF BookInv
  <2>. QED  BY <2>1, <2>3 DEF InjectorInv, InstanceInv
<1>2. CASE \E n \in Node : Crashed(n) /\ RestartNode(n)
  <2>0. PICK n \in Node : Crashed(n) /\ RestartNode(n)
    BY <1>2
  <2>1. driver = Idle /\ rules' = ClearRules /\ injections' = AllGone /\ running[n] = {}
        /\ driver' = [Idle EXCEPT !.op = "create", !.node = n]
        /\ UNCHANGED <<ruleCounter, nodes, registry, running, made>>
    BY <2>0 DEF Crashed, RestartNode
  <2>2. Book(rules, ruleCounter, injections)'
    BY <1>0, <2>1, ClearedKept
  <2>3. driver' \in Driver /\ driver'.op = "create" /\ driver'.node = n
    BY <2>1 DEF Idle, Driver
  <2>4. BookInv'
    BY <2>2, <2>3 DEF BookInv
  <2>5. \A m \in Node : nodes[m] = registry[m]
    BY <2>1, IdleFields DEF InjectorInv, InstanceInv
  <2>6. InstanceInv'
    BY <2>1, <2>3, <2>5 DEF InjectorInv, InstanceInv
  <2>. QED  BY <2>4, <2>6 DEF InjectorInv
<1>3. CASE \E i \in DOMAIN injections : HealPartition(i)
  <2>0. PICK i \in DOMAIN injections : HealPartition(i)
    BY <1>3
  <2>1. driver = Idle /\ driver' = [Idle EXCEPT !.op = "heal", !.inj = i, !.step = 1]
        /\ UNCHANGED <<rules, injections, ruleCounter, nodes, registry, running, made>>
    BY <2>0 DEF HealPartition
  <2>2. i \in Nat
    BY <1>0
  <2>3. driver' \in Driver /\ driver'.op = "heal" /\ driver'.inj = i
    BY <2>1, <2>2 DEF Idle, Driver
  <2>4. BookInv'
    BY <1>0, <2>1, <2>3 DEF BookInv
  <2>5. \A m \in Node : nodes[m] = registry[m]
    BY <2>1, IdleFields DEF InjectorInv, InstanceInv
  <2>6. InstanceInv'
    BY <2>1, <2>3, <2>5 DEF InjectorInv, InstanceInv
  <2>. QED  BY <2>4, <2>6 DEF InjectorInv
<1>. QED  BY <1>1, <1>2, <1>3

LEMMA InstancesKept ==
  ASSUME InjectorInv, StopNode \/ MakeNode \/ MakeNodeFails \/ StartNode
  PROVE  InjectorInv'
<1>. DEFINE n == driver.node
<1>0. InstanceInv /\ BookInv
  BY DEF InjectorInv
<1>1. CASE StopNode
  <2>1. /\ driver.op = "stop" /\ driver' = Idle
        /\ running' = [running EXCEPT ![n] = @ \ {nodes[n]}]
        /\ UNCHANGED <<rules, ruleCounter, injections, nodes, registry, made>>
    BY <1>1 DEF StopNode
  <2>2. driver' \in Driver /\ driver'.op = "idle"
    BY <2>1, IdleFields
  <2>3. BookInv'
    BY <1>0, <2>1, <2>2 DEF BookInv
  <2>4. running' \in [Node -> SUBSET Nat] /\ \A m \in Node : running'[m] \subseteq running[m]
    BY <1>0, <2>1 DEF InstanceInv
  <2>5. \A m \in Node : nodes[m] = registry[m] /\ made[m] = nodes[m]
                        /\ running'[m] \subseteq {nodes[m]}
    BY <1>0, <2>1, <2>4 DEF InstanceInv
  <2>6. InstanceInv'
    BY <1>0, <2>1, <2>2, <2>4, <2>5 DEF InstanceInv
  <2>. QED  BY <2>3, <2>6 DEF InjectorInv
<1>2. CASE MakeNode
  <2>1. /\ driver.op = "create" /\ driver' = [driver EXCEPT !.op = "start"]
        /\ made' = [made EXCEPT ![n] = @ + 1]
        /\ nodes' = [nodes EXCEPT ![n] = made'[n]]
        /\ UNCHANGED <<rules, ruleCounter, injections, registry, running>>
    BY <1>2 DEF MakeNode
  <2>2. n \in Node /\ running[n] = {}
    BY <1>0, <2>1 DEF InstanceInv
  <2>3. driver' \in Driver /\ driver'.op = "start" /\ driver'.node = n
    BY <1>0, <2>1 DEF InstanceInv, Driver
  <2>4. BookInv'
    BY <1>0, <2>1, <2>3 DEF BookInv
  <2>5. made[n] + 1 \in Nat
    BY <1>0, <2>2 DEF InstanceInv
  <2>6. made' \in [Node -> Nat] /\ nodes' \in [Node -> Nat] /\ made'[n] = nodes'[n]
    BY <1>0, <2>1, <2>2, <2>5 DEF InstanceInv
  <2>7. \A m \in Node : m # n => made'[m] = made[m] /\ nodes'[m] = nodes[m]
    BY <1>0, <2>1 DEF InstanceInv
  <2>8. \A m \in Node : made'[m] = nodes'[m] /\ running[m] \subseteq {nodes'[m]}
    BY <1>0, <2>2, <2>6, <2>7 DEF InstanceInv
  <2>9. \A m \in Node : m # n => nodes'[m] = registry[m]
    BY <1>0, <2>1, <2>7 DEF InstanceInv
  <2>10. InstanceInv'
    BY <1>0, <2>1, <2>2, <2>3, <2>6, <2>8, <2>9 DEF InstanceInv
  <2>. QED  BY <2>4, <2>10 DEF InjectorInv
<1>3. CASE MakeNodeFails
  <2>1. driver.op = "create" /\ driver' = Idle
        /\ UNCHANGED <<rules, ruleCounter, injections, nodes, registry, running, made>>
    BY <1>3 DEF MakeNodeFails
  <2>2. driver' \in Driver /\ driver'.op = "idle"
    BY <2>1, IdleFields
  <2>3. BookInv'
    BY <1>0, <2>1, <2>2 DEF BookInv
  <2>4. InstanceInv'
    BY <1>0, <2>1, <2>2 DEF InstanceInv
  <2>. QED  BY <2>3, <2>4 DEF InjectorInv
<1>4. CASE StartNode
  <2>1. /\ driver.op = "start" /\ driver' = Idle
        /\ registry' = [registry EXCEPT ![n] = made[n]]
        /\ running' = [running EXCEPT ![n] = @ \cup {made[n]}]
        /\ UNCHANGED <<rules, ruleCounter, injections, nodes, made>>
    BY <1>4 DEF StartNode
  <2>2. n \in Node /\ running[n] = {} /\ made[n] = nodes[n]
    BY <1>0, <2>1 DEF InstanceInv
  <2>3. driver' \in Driver /\ driver'.op = "idle"
    BY <2>1, IdleFields
  <2>4. BookInv'
    BY <1>0, <2>1, <2>3 DEF BookInv
  <2>5. registry' \in [Node -> Nat] /\ running' \in [Node -> SUBSET Nat]
    BY <1>0, <2>1, <2>2 DEF InstanceInv
  <2>6. \A m \in Node : m # n => registry'[m] = registry[m] /\ running'[m] = running[m]
    BY <1>0, <2>1 DEF InstanceInv
  <2>7. registry'[n] = nodes[n] /\ running'[n] = {nodes[n]}
    BY <1>0, <2>1, <2>2 DEF InstanceInv
  <2>8. \A m \in Node : nodes[m] = registry'[m] /\ running'[m] \subseteq {nodes[m]}
    BY <1>0, <2>1, <2>6, <2>7 DEF InstanceInv
  <2>9. InstanceInv'
    BY <1>0, <2>1, <2>3, <2>5, <2>8 DEF InstanceInv
  <2>. QED  BY <2>4, <2>9 DEF InjectorInv
<1>. QED  BY <1>1, <1>2, <1>3, <1>4

LEMMA InjectorStarts == Init => InjectorInv
<1>. SUFFICES ASSUME Init PROVE InjectorInv
  OBVIOUS
<1>1. /\ rules = <<>> /\ ruleCounter = 0 /\ injections = <<>> /\ driver = Idle
      /\ nodes = [n \in Node |-> 1] /\ registry = nodes /\ made = nodes
      /\ running = [n \in Node |-> {1}]
  BY DEF Init, ClearRules
<1>2. DOMAIN <<>> = {} /\ <<>> \in Seq(Numbered) /\ <<>> \in Seq(InjectionResult)
  OBVIOUS
<1>3. Booked(<<>>, 0) /\ Pairs(<<>>) = {} /\ Increasing(<<>>)
  BY <1>2 DEF Booked, Pairs, Increasing
<1>4. UNION {Stands(<<>>[i]) : i \in DOMAIN <<>>} = {}
  BY <1>2
<1>5. driver \in Driver /\ driver.op = "idle"
  BY <1>1, IdleFields
<1>6. BookInv
  <2>1. Book(<<>>, 0, <<>>)
    BY <1>2, <1>3, <1>4 DEF Book, Accounted
  <2>. QED  BY <1>1, <1>5, <2>1 DEF BookInv
<1>7. InstanceInv
  <2>1. 1 \in Nat /\ {1} \in SUBSET Nat
    OBVIOUS
  <2>2. nodes \in [Node -> Nat] /\ running \in [Node -> SUBSET Nat]
        /\ \A n \in Node : nodes[n] = 1 /\ running[n] = {1}
    BY <1>1, <2>1
  <2>. QED  BY <1>1, <1>5, <2>2 DEF InstanceInv
<1>. QED  BY <1>6, <1>7 DEF InjectorInv

LEMMA InjectorKept == InjectorInv /\ [Next]_vars => InjectorInv'
<1>. SUFFICES ASSUME InjectorInv, [Next]_vars PROVE InjectorInv'
  OBVIOUS
<1>1. ASSUME UNCHANGED vars PROVE InjectorInv'
  BY <1>1 DEF vars, InjectorInv, InstanceInv, BookInv
<1>2. ASSUME NEW n \in Node, NEW timed \in BOOLEAN,
             PartitionNode(n, timed) \/ InjectDelay(n, timed) \/ InjectPacketLoss(n, timed)
      PROVE  InjectorInv'
  <2>1. \E kind \in Kinds, action \in Actions, param \in ParamTypes :
          Inject(kind, Around(n, action, param), timed) /\ UNCHANGED driver
    BY <1>2 DEF PartitionNode, InjectDelay, InjectPacketLoss, Kinds, Actions, ParamTypes
  <2>2. PICK kind \in Kinds, action \in Actions, param \in ParamTypes :
          Inject(kind, Around(n, action, param), timed) /\ UNCHANGED driver
    BY <2>1
  <2>3. Around(n, action, param) \in Seq(ProxyRule) /\ SameAction(Around(n, action, param))
    BY AroundIn
  <2>. QED  BY <2>2, <2>3, InjectionsKept
<1>3. ASSUME NEW a \in Node, NEW b \in Node, NEW d \in Directions, PartitionAsymmetric(a, b, d)
      PROVE  InjectorInv'
  <2>. DEFINE there == Rule(a, b, "drop", "none")
              back  == Rule(b, a, "drop", "none")
              new   == CASE d = "both"      -> <<there, back>>
                         [] d = "from_only" -> <<there>>
                         [] d = "to_only"   -> <<back>>
                         [] OTHER           -> <<>>
  <2>1. Inject("apart", new, FALSE) /\ UNCHANGED driver
    BY <1>3 DEF PartitionAsymmetric
  <2>2. \A m \in {<<there, back>>, <<there>>, <<back>>, <<>>} :
          m \in Seq(ProxyRule) /\ SameAction(m)
    BY ApartIn
  <2>. HIDE DEF there, back
  <2>3. new \in {<<there, back>>, <<there>>, <<back>>, <<>>}
    BY DEF Directions
  <2>. HIDE DEF new
  <2>4. new \in Seq(ProxyRule) /\ SameAction(new)
    BY <2>2, <2>3
  <2>5. "apart" \in Kinds
    BY DEF Kinds
  <2>. QED  BY <2>1, <2>4, <2>5, InjectionsKept
<1>4. ASSUME NEW n \in Node, CrashNode(n) PROVE InjectorInv'
  <2>1. Inject("crash", Around(n, "drop", "none"), FALSE)
        /\ driver' = [Idle EXCEPT !.op = "stop", !.node = n]
    BY <1>4 DEF CrashNode
  <2>2. "crash" \in Kinds /\ "drop" \in Actions /\ "none" \in ParamTypes
    BY DEF Kinds, Actions, ParamTypes
  <2>3. Around(n, "drop", "none") \in Seq(ProxyRule) /\ SameAction(Around(n, "drop", "none"))
    BY <2>2, AroundIn
  <2>. QED  BY <2>1, <2>2, <2>3, InjectionsKept
<1>5. ASSUME (\E a, b \in Node : Send(a, b)) \/ (\E c \in calls : Deliver(c))
      PROVE  InjectorInv'
  <2>1. UNCHANGED <<rules, ruleCounter, injections, driver, nodes, registry, running, made>>
    BY <1>5 DEF Send, Deliver
  <2>. QED  BY <2>1 DEF InjectorInv, InstanceInv, BookInv
<1>6. Targets \subseteq Node
  BY InjectorAssumption
<1>7. CASE Next
  <2>1. \/ \E n \in Node, timed \in BOOLEAN :
             PartitionNode(n, timed) \/ InjectDelay(n, timed) \/ InjectPacketLoss(n, timed)
        \/ \E n \in Node, b \in Node, d \in Directions : PartitionAsymmetric(n, b, d)
        \/ \E n \in Node : CrashNode(n)
        \/ \E n \in Node : Crashed(n) /\ RestartNode(n)
        \/ \E a, b \in Node : Send(a, b)
        \/ \E c \in calls : Deliver(c)
        \/ Heal \/ HealStep
        \/ StopNode \/ MakeNode \/ MakeNodeFails \/ StartNode
        \/ \E i \in DOMAIN injections : HealPartition(i)
        \/ \E i \in DOMAIN injections : TimedHeal(i)
    BY <1>6, <1>7 DEF Next
  <2>. QED  BY <2>1, <1>2, <1>3, <1>4, <1>5, HealStepKept, TimedHealKept, HealsKept,
               InstancesKept
<1>. QED  BY <1>1, <1>7

(* What an injection has standing is what the run's invariant counts. *)
LEMMA StandingIs ==
  ASSUME NEW i \in DOMAIN injections
  PROVE  Standing(i) = Stands(injections[i])
BY DEF Standing, Stands

LEMMA PairsOfRules ==
  Pairs(rules) = {[id |-> rules[k].id, rule |-> Rule(rules[k].from, rules[k].to,
                                                     rules[k].action, rules[k].param)] :
                    k \in DOMAIN rules}
BY DEF Pairs, Pair

(* The book of injections and the instances of nodes are in order, through *)
(* every step of the injector, its timers, crashes and restarts.           *)
THEOREM InjectorInvariant == Spec => []InjectorInv
BY InjectorStarts, InjectorKept, PTL DEF Spec

(* The proxy holds exactly the rules that were injected and that no heal,  *)
(* timer or restart was to remove, in the order of their ids.              *)
THEOREM RulesAlwaysAccounted == Spec => []RulesAccounted
<1>1. ASSUME InjectorInv PROVE RulesAccounted
  <2>1. Accounted(rules, injections)
    BY <1>1 DEF InjectorInv, BookInv, Book
  <2>2. \A i \in DOMAIN injections : Standing(i) = Stands(injections[i])
    BY StandingIs
  <2>3. UNION {Standing(i) : i \in DOMAIN injections}
          = UNION {Stands(injections[i]) : i \in DOMAIN injections}
    BY <2>2
  <2>4. Pairs(rules) = UNION {Standing(i) : i \in DOMAIN injections}
    BY <2>1, <2>3 DEF Accounted
  <2>5. \A k, m \in DOMAIN rules : k < m => rules[k].id < rules[m].id
    BY <2>1 DEF Accounted, Increasing
  <2>. QED  BY <2>4, <2>5, PairsOfRules DEF RulesAccounted
<1>. QED  BY <1>1, InjectorInvariant, PTL

(* Between two calls of the injector a node has at most one instance that  *)
(* runs: the one that peers call and that CrashNode would stop.            *)
THEOREM OneInstance == Spec => []InstancesAgree
<1>1. ASSUME InjectorInv PROVE InstancesAgree
  BY <1>1, IdleFields DEF InjectorInv, InstanceInv, InstancesAgree
<1>. QED  BY <1>1, InjectorInvariant, PTL

-----------------------------------------------------------------------------
(* A call that passes the proxy was decided by its first match, which does *)
(* not drop.                                                               *)
LEMMA PassedBy ==
  ASSUME NEW a, NEW b, NEW p, rules \in Seq(Numbered), p \in DOMAIN rules,
         matches(rules[p], a, b), rules[p].action = "drop",
         ShouldDeliver(rules, a, b) \cap {"now", "late"} # {}
  PROVE  \E k \in DOMAIN rules : /\ k < p /\ matches(rules[k], a, b)
                                 /\ rules[k].action # "drop"
<1>. DEFINE M == {i \in DOMAIN rules : matches(rules[i], a, b)}
            k == Min(M)
<1>1. DOMAIN rules \subseteq Nat /\ \A i \in DOMAIN rules : rules[i] \in Numbered
  BY LenProperties, ElementOfSeq
<1>2. M \in SUBSET Nat /\ p \in M
  BY <1>1
<1>3. k \in M /\ \A y \in M : k <= y
  BY <1>2, MinOfNaturals
<1>4. ShouldDeliver(rules, a, b) = Effects(rules[k])
  BY <1>2 DEF ShouldDeliver
<1>. HIDE DEF k
<1>5. k \in DOMAIN rules /\ matches(rules[k], a, b) /\ k <= p
  BY <1>2, <1>3
<1>6. rules[k].action # "drop"
  <2>. SUFFICES ASSUME rules[k].action = "drop" PROVE FALSE
    OBVIOUS
  <2>1. Effects(rules[k]) = {"dropped"}
    BY DEF Effects
  <2>. QED  BY <1>4, <2>1
<1>7. k # p
  BY <1>6
<1>8. k < p
  BY <1>1, <1>5, <1>7
<1>. QED  BY <1>5, <1>6, <1>8

LEMMA PassingShadowed ==
  ASSUME InjectorInv, NEW a \in Node, NEW b \in Node, Send(a, b),
         NEW i \in DOMAIN injections, NEW s \in Standing(i),
         matches(s.rule, a, b), s.rule.action = "drop"
  PROVE  Shadowed(i, a, b)
<1>1. /\ rules \in Seq(Numbered) /\ injections \in Seq(InjectionResult)
      /\ Booked(injections, ruleCounter) /\ Increasing(rules)
      /\ Pairs(rules) = UNION {Stands(injections[j]) : j \in DOMAIN injections}
  BY DEF InjectorInv, BookInv, Book, Accounted
<1>2. \A k \in DOMAIN rules : rules[k] \in Numbered
  BY <1>1, LenProperties, ElementOfSeq
<1>3. \A j \in DOMAIN injections : Standing(j) = Stands(injections[j])
  BY StandingIs
<1>4. s \in Pairs(rules)
  BY <1>1, <1>3
<1>5. PICK p \in DOMAIN rules : s = Pair(rules[p])
  BY <1>4 DEF Pairs
<1>6. matches(rules[p], a, b) /\ rules[p].action = "drop" /\ s.id = rules[p].id
  BY <1>2, <1>5, PairOf
<1>7. ShouldDeliver(rules, a, b) \cap {"now", "late"} # {}
  BY DEF Send
<1>8. PICK k \in DOMAIN rules : k < p /\ matches(rules[k], a, b) /\ rules[k].action # "drop"
  BY <1>1, <1>6, <1>7, PassedBy
<1>9. rules[k].id < rules[p].id /\ rules[k].id \in Nat /\ rules[p].id \in Nat
  BY <1>1, <1>2, <1>8 DEF Increasing, Numbered
<1>10. PICK r : r = Pair(rules[k])
  OBVIOUS
<1>11. r \in Pairs(rules) /\ r.id = rules[k].id /\ matches(r.rule, a, b) /\ r.rule.action # "drop"
  BY <1>2, <1>8, <1>10, PairOf DEF Pairs
<1>12. PICK j \in DOMAIN injections : r \in Stands(injections[j])
  BY <1>1, <1>11
<1>13. HasId(injections[j], rules[k].id) /\ HasId(injections[i], rules[p].id)
  BY <1>3, <1>6, <1>11, <1>12, StandsHas
<1>14. j # i
  <2>. SUFFICES ASSUME j = i PROVE FALSE
    OBVIOUS
  <2>1. PICK q : q = injections[i]
    OBVIOUS
  <2>2. q \in InjectionResult /\ Len(q.ids) = Len(q.rules) /\ SameAction(q.rules)
    BY <1>1, <2>1, ElementOfSeq, LenProperties DEF Booked, Sound
  <2>3. DOMAIN q.ids = DOMAIN q.rules
    <3>1. q.ids \in Seq(Nat) /\ q.rules \in Seq(ProxyRule)
      BY <2>2, InjectionFields
    <3>. QED  BY <2>2, <3>1, LenProperties
  <2>4. \A t \in Stands(q) : \E m \in DOMAIN q.rules : t.rule = q.rules[m]
    BY <2>3 DEF Stands
  <2>5. s \in Stands(q) /\ r \in Stands(q)
    BY <1>3, <1>12, <2>1
  <2>. QED  BY <1>11, <2>2, <2>4, <2>5 DEF SameAction
<1>15. DOMAIN injections = 1 .. Len(injections) /\ Len(injections) \in Nat
  BY <1>1, LenProperties
<1>16. ~(i < j)
  <2>. SUFFICES ASSUME i < j PROVE FALSE
    OBVIOUS
  <2>1. rules[p].id < rules[k].id
    BY <1>1, <1>9, <1>13 DEF Booked, Before
  <2>. QED  BY <1>9, <2>1
<1>17. j \in 1 .. i - 1
  BY <1>14, <1>15, <1>16
<1>18. r \in Standing(j)
  BY <1>3, <1>12
<1>. QED  BY <1>11, <1>17, <1>18 DEF Shadowed

(* No call passes on a link that a partition or a crash cuts, unless a     *)
(* delay or a loss that was injected before covers it.                     *)
THEOREM InjectedCutsHold == Spec => CutsHold
<1>. DEFINE Held == \A c \in calls' \ calls : \A i \in DOMAIN injections :
                      (\E s \in Standing(i) : matches(s.rule, c.from, c.to)
                                               /\ s.rule.action = "drop")
                      => Shadowed(i, c.from, c.to)
<1>1. ASSUME InjectorInv, [Next]_vars PROVE [Held]_vars
  <2>1. CASE UNCHANGED vars
    BY <2>1
  <2>2. CASE \E a, b \in Node : Send(a, b)
    <3>1. PICK a \in Node, b \in Node : Send(a, b)
      BY <2>2
    <3>2. calls' = calls \cup {[from |-> a, to |-> b]}
      BY <3>1 DEF Send
    <3>3. \A c \in calls' \ calls : c.from = a /\ c.to = b
      BY <3>2
    <3>4. ASSUME NEW i \in DOMAIN injections, NEW s \in Standing(i),
                 matches(s.rule, a, b), s.rule.action = "drop"
          PROVE  Shadowed(i, a, b)
      BY <1>1, <3>1, <3>4, PassingShadowed
    <3>. QED  BY <3>3, <3>4
  <2>3. CASE calls' \subseteq calls
    BY <2>3
  <2>4. ASSUME Next, ~\E a, b \in Node : Send(a, b) PROVE calls' \subseteq calls
    <3>1. ASSUME NEW kind, NEW new, NEW timed, Inject(kind, new, timed)
          PROVE  calls' = calls
      BY <3>1 DEF Inject
    <3>2. ASSUME NEW n, NEW timed,
                 \/ PartitionNode(n, timed) \/ InjectDelay(n, timed)
                 \/ InjectPacketLoss(n, timed) \/ CrashNode(n)
          PROVE  calls' = calls
      BY <3>1, <3>2 DEF PartitionNode, InjectDelay, InjectPacketLoss, CrashNode
    <3>3. ASSUME NEW a, NEW b, NEW d, PartitionAsymmetric(a, b, d) PROVE calls' = calls
      BY <3>1, <3>3 DEF PartitionAsymmetric
    <3>4. ASSUME NEW n, RestartNode(n) PROVE calls' = calls
      BY <3>4 DEF RestartNode
    <3>5. Heal \/ StopNode \/ HealStep \/ MakeNode \/ MakeNodeFails \/ StartNode
          => calls' = calls
      BY DEF Heal, StopNode, HealStep, MakeNode, MakeNodeFails, StartNode
    <3>6. ASSUME NEW i, HealPartition(i) \/ TimedHeal(i) PROVE calls' = calls
      BY <3>6 DEF HealPartition, TimedHeal
    <3>7. ASSUME NEW c, Deliver(c) PROVE calls' \subseteq calls
      BY <3>7 DEF Deliver
    <3>. QED  BY <2>4, <3>2, <3>3, <3>4, <3>5, <3>6, <3>7 DEF Next
  <2>. QED  BY <1>1, <2>1, <2>2, <2>3, <2>4
<1>. QED  BY <1>1, InjectorInvariant, PTL DEF Spec, CutsHold

-----------------------------------------------------------------------------
(* The endpoints of the servers: every node has a proxy of its own. *)

Cuts == {"isolate", "partition"}

(* The rule that an order to cut wants at a node that is concerned. *)
CutRule(o, n) ==
  RuleTo(IF o.kind = "isolate" THEN (IF n = o.a THEN Any ELSE o.a)
           ELSE (IF n = o.a THEN o.b ELSE o.a), "drop", "none")

Valid(o) ==
  /\ o \in Order
  /\ o.by \in Node
  /\ o.kind \in {"isolate", "delay", "loss"} => o.a \in Node
  /\ o.kind = "partition" => o.a \in Node /\ o.b \in Node /\ o.a # o.b
  /\ o.kind = "apply" => o.a \in ProxyRule
  /\ \A n \in Node : o.result[n] = "none" <=> n \notin Concerned(o.kind, o.by, o.a, o.b)

LEMMA ApiRuleIn ==
  ASSUME NEW to \in Node \cup {Any}, NEW action \in Actions, NEW param \in ParamTypes
  PROVE  /\ RuleTo(to, action, param) \in ProxyRule
         /\ RuleTo(to, action, param).action = action
         /\ RuleTo(to, action, param).param = param
BY DEF RuleTo, ProxyRule

LEMMA OneRule ==
  ASSUME NEW r \in ProxyRule
  PROVE  <<r>> \in Seq(ProxyRule) /\ Len(<<r>>) = 1 /\ <<r>>[1] = r
OBVIOUS

(* The share of a node is one rule or none. *)
ShareOf(o, n) == Plan(o)[n]

Small(s) == s = <<>> \/ \E r \in ProxyRule : s = <<r>>

LEMMA ShareIs ==
  ASSUME NEW o, NEW n \in Node, Valid(o)
  PROVE  /\ Small(ShareOf(o, n))
         /\ o.kind \in Cuts /\ o.result[n] # "none" =>
              CutRule(o, n) \in ProxyRule /\ ShareOf(o, n) = <<CutRule(o, n)>>
<1>0. {"drop", "delay", "loss", "pass"} \subseteq Actions
      /\ {"none", "int", "float64"} \subseteq ParamTypes
  BY DEF Actions, ParamTypes
<1>1. ASSUME NEW action \in Actions, NEW param \in ParamTypes, o.a \in Node
      PROVE  /\ PlanAround(o.a, action, param)[n]
                  = <<RuleTo(IF n = o.a THEN Any ELSE o.a, action, param)>>
             /\ RuleTo(IF n = o.a THEN Any ELSE o.a, action, param) \in ProxyRule
  <2>1. RuleTo(Any, action, param) \in ProxyRule /\ RuleTo(o.a, action, param) \in ProxyRule
    BY <1>1, ApiRuleIn
  <2>. QED  BY <2>1 DEF PlanAround
<1>2. CASE o.kind = "isolate"
  <2>1. o.a \in Node /\ ShareOf(o, n) = PlanAround(o.a, "drop", "none")[n]
    BY <1>2 DEF Valid, ShareOf, Plan, Clearing
  <2>2. CutRule(o, n) = RuleTo(IF n = o.a THEN Any ELSE o.a, "drop", "none")
    BY <1>2 DEF CutRule
  <2>. QED  BY <1>0, <1>1, <2>1, <2>2 DEF Small
<1>3. CASE o.kind = "delay"
  <2>1. o.a \in Node /\ ShareOf(o, n) = PlanAround(o.a, "delay", "int")[n]
    BY <1>3 DEF Valid, ShareOf, Plan, Clearing
  <2>. QED  BY <1>0, <1>1, <1>3, <2>1 DEF Small, Cuts
<1>4. CASE o.kind = "loss"
  <2>1. o.a \in Node /\ ShareOf(o, n) = PlanAround(o.a, "loss", "float64")[n]
    BY <1>4 DEF Valid, ShareOf, Plan, Clearing
  <2>. QED  BY <1>0, <1>1, <1>4, <2>1 DEF Small, Cuts
<1>5. CASE o.kind = "partition"
  <2>1. o.a \in Node /\ o.b \in Node /\ o.a # o.b
    BY <1>5 DEF Valid
  <2>2. ShareOf(o, n) = CASE n = o.a -> <<RuleTo(o.b, "drop", "none")>>
                          [] n = o.b -> <<RuleTo(o.a, "drop", "none")>>
                          [] OTHER   -> <<>>
    BY <1>5 DEF ShareOf, Plan, Clearing
  <2>3. RuleTo(o.a, "drop", "none") \in ProxyRule /\ RuleTo(o.b, "drop", "none") \in ProxyRule
    BY <1>0, <2>1, ApiRuleIn
  <2>4. o.result[n] # "none" => n = o.a \/ n = o.b
    BY <1>5 DEF Valid, Concerned
  <2>5. CutRule(o, n) = RuleTo(IF n = o.a THEN o.b ELSE o.a, "drop", "none")
    BY <1>5 DEF CutRule
  <2>6. CASE n = o.a
    BY <2>1, <2>2, <2>3, <2>5, <2>6 DEF Small
  <2>7. CASE n = o.b
    BY <2>1, <2>2, <2>3, <2>5, <2>7 DEF Small
  <2>8. CASE n # o.a /\ n # o.b
    BY <2>2, <2>4, <2>8 DEF Small
  <2>. QED  BY <2>6, <2>7, <2>8
<1>6. CASE o.kind = "apply"
  <2>1. ShareOf(o, n) = <<o.a>>
    BY <1>6 DEF ShareOf, Plan, Clearing
  <2>2. o.a \in ProxyRule
    BY <1>6 DEF Valid
  <2>. QED  BY <1>6, <2>1, <2>2 DEF Small, Cuts
<1>7. CASE o.kind \in {"heal", "clear"}
  <2>1. ShareOf(o, n) = <<>>
    BY <1>7 DEF ShareOf, Plan, Clearing
  <2>. QED  BY <1>7, <2>1 DEF Small, Cuts
<1>8. o.kind \in {"isolate", "partition", "delay", "loss", "heal", "apply", "clear"}
  BY DEF Valid, Order
<1>. QED  BY <1>2, <1>3, <1>4, <1>5, <1>6, <1>7, <1>8

-----------------------------------------------------------------------------
(* When an order came quietly, all earlier ones are over for good. *)
QuietInv ==
  \A j \in DOMAIN orders : orders[j].quiet =>
    /\ \A i \in DOMAIN orders : i < j => Over(orders[i])
    /\ \A m \in posts : m.order >= j

(* The proxies that a quiet heal, the last order, has reached are empty. *)
Healed ==
  \A j \in DOMAIN orders :
    (orders[j].quiet /\ orders[j].kind = "heal" /\ j = Len(orders)) =>
      \A n \in Node : orders[j].result[n] = "ok" => proxies[n] = <<>>

NoClearing == \A j \in DOMAIN orders : orders[j].kind \notin Clearing

(* A cut that a node has confirmed is in its proxy. *)
Placed(i, n, S) ==
  (orders[i].kind \in Cuts /\ orders[i].result[n] = "ok") =>
    \E p \in S : proxies[n][p] = CutRule(orders[i], n)

CutsPlaced ==
  NoClearing => \A i \in DOMAIN orders, n \in Node : Placed(i, n, DOMAIN proxies[n])

(* A rule that cuts nothing belongs to an order; if that came quietly, the *)
(* cuts confirmed before it are placed before it.                          *)
LaterThan(j, n, q) ==
  /\ orders[j].kind \notin Cuts
  /\ orders[j].quiet => \A i \in DOMAIN orders : i < j =>
                          Placed(i, n, {p \in DOMAIN proxies[n] : p < q})

PassesLater ==
  NoClearing => \A n \in Node : \A q \in DOMAIN proxies[n] :
    proxies[n][q].action # "drop" => \E j \in DOMAIN orders : LaterThan(j, n, q)

ApiTypes ==
  /\ proxies \in [Node -> Seq(ProxyRule)]
  /\ orders \in Seq(Order) /\ \A i \in DOMAIN orders : Valid(orders[i])
  /\ posts \in SUBSET Post
  /\ \A m \in posts : /\ m.order \in DOMAIN orders
                       /\ orders[m.order].result[m.to] # "none"

ApiInv == ApiTypes /\ QuietInv /\ Healed /\ CutsPlaced /\ PassesLater

-----------------------------------------------------------------------------
(* A share ends: the result of node n for order i is r now, the rest of    *)
(* the orders is as it was.                                                *)
Same(o, p) == /\ Valid(p) /\ p.kind = o.kind /\ p.quiet = o.quiet
              /\ \A n \in Node : CutRule(p, n) = CutRule(o, n)

Changed(i, n, r) ==
  /\ orders' \in Seq(Order) /\ DOMAIN orders' = DOMAIN orders /\ Len(orders') = Len(orders)
  /\ \A j \in DOMAIN orders : Same(orders[j], orders'[j])
  /\ \A j \in DOMAIN orders, m \in Node :
       orders'[j].result[m] = IF j = i /\ m = n THEN r ELSE orders[j].result[m]

LEMMA OrdersAre ==
  ASSUME ApiTypes
  PROVE  /\ Len(orders) \in Nat /\ DOMAIN orders = 1 .. Len(orders)
         /\ \A i \in DOMAIN orders : Valid(orders[i]) /\ orders[i] \in Order
BY LenProperties DEF ApiTypes, Valid

LEMMA ResultSet ==
  ASSUME ApiTypes, NEW i \in DOMAIN orders, NEW n \in Node, NEW r \in {"ok", "error"},
         orders[i].result[n] = "pending",
         SetResult(i, n, r)
  PROVE  Changed(i, n, r)
<1>. DEFINE o == orders[i]
            s == [o.result EXCEPT ![n] = r]
            p == [o EXCEPT !.result = s]
<1>1. o \in Order /\ Valid(o) /\ orders \in Seq(Order)
  BY OrdersAre DEF ApiTypes
<1>2. orders' = [orders EXCEPT ![i].result[n] = r]
  BY DEF SetResult
<1>3. orders' = [orders EXCEPT ![i] = p]
  BY <1>1, <1>2 DEF Order
<1>4. o.result \in [Node -> Results] /\ r \in Results /\ o.result[n] = "pending"
  BY <1>1 DEF Order, Results
<1>. HIDE DEF o
<1>5. s \in [Node -> Results] /\ s[n] = r /\ \A m \in Node : m # n => s[m] = o.result[m]
  BY <1>4
<1>. HIDE DEF s
<1>6. /\ p \in Order /\ p.kind = o.kind /\ p.by = o.by /\ p.a = o.a /\ p.b = o.b
      /\ p.quiet = o.quiet /\ p.result = s
  BY <1>1, <1>5 DEF Order
<1>. HIDE DEF p
<1>7. Valid(p)
  <2>1. \A m \in Node : s[m] = "none" <=> o.result[m] = "none"
    BY <1>4, <1>5
  <2>. QED  BY <1>1, <1>6, <2>1 DEF Valid
<1>8. Same(o, p)
  BY <1>6, <1>7 DEF Same, CutRule
<1>9. /\ orders' \in Seq(Order) /\ DOMAIN orders' = DOMAIN orders
      /\ Len(orders') = Len(orders) /\ orders'[i] = p
      /\ \A j \in DOMAIN orders : j # i => orders'[j] = orders[j]
  BY <1>1, <1>3, <1>6
<1>10. \A j \in DOMAIN orders : Same(orders[j], orders[j])
  BY OrdersAre DEF Same
<1>11. \A j \in DOMAIN orders : Same(orders[j], orders'[j])
  BY <1>8, <1>9, <1>10 DEF o
<1>12. \A j \in DOMAIN orders, m \in Node :
         orders'[j].result[m] = IF j = i /\ m = n THEN r ELSE orders[j].result[m]
  BY <1>5, <1>6, <1>9 DEF o
<1>. QED  BY <1>9, <1>11, <1>12 DEF Changed

LEMMA NothingSet ==
  ASSUME ApiTypes, NEW i \in DOMAIN orders, NEW n \in Node, UNCHANGED orders
  PROVE  Changed(i, n, orders[i].result[n])
BY OrdersAre DEF Changed, Same, ApiTypes

(* It does not come back to life. *)
LEMMA QuietKept ==
  ASSUME ApiTypes, QuietInv, NEW i \in DOMAIN orders, NEW n \in Node, NEW r,
         Changed(i, n, r), r # "pending", posts' \subseteq posts
  PROVE  QuietInv'
<1>. SUFFICES ASSUME NEW j \in DOMAIN orders, orders'[j].quiet
              PROVE  /\ \A k \in DOMAIN orders : k < j => Over(orders'[k])
                     /\ \A m \in posts' : m.order >= j
  BY DEF QuietInv, Changed
<1>1. orders[j].quiet
  BY DEF Changed, Same
<1>2. ASSUME NEW k \in DOMAIN orders, k < j PROVE Over(orders'[k])
  <2>1. Over(orders[k])
    BY <1>1, <1>2 DEF QuietInv
  <2>. QED  BY <2>1 DEF Changed, Over
<1>3. \A m \in posts : m.order >= j
  BY <1>1 DEF QuietInv
<1>. QED  BY <1>2, <1>3

LEMMA TypesKept ==
  ASSUME ApiTypes, NEW i \in DOMAIN orders, NEW n \in Node, NEW r,
         Changed(i, n, r), r # "none", posts' \subseteq posts,
         proxies' \in [Node -> Seq(ProxyRule)]
  PROVE  ApiTypes'
<1>1. orders' \in Seq(Order) /\ \A j \in DOMAIN orders' : Valid(orders'[j])
  BY DEF Changed, Same
<1>2. ASSUME NEW m \in posts'
      PROVE  m.order \in DOMAIN orders' /\ orders'[m.order].result[m.to] # "none"
  <2>1. m \in posts /\ m.to \in Node /\ m.order \in DOMAIN orders
        /\ orders[m.order].result[m.to] # "none"
    BY DEF ApiTypes, Post
  <2>. QED  BY <2>1 DEF Changed
<1>3. posts' \in SUBSET Post
  BY DEF ApiTypes
<1>. QED  BY <1>1, <1>2, <1>3 DEF ApiTypes

LEMMA SmallJoined ==
  ASSUME NEW rs \in Seq(ProxyRule), NEW new, Small(new)
  PROVE  /\ rs \o new \in Seq(ProxyRule)
         /\ \A p \in DOMAIN rs : p \in DOMAIN (rs \o new) /\ (rs \o new)[p] = rs[p]
         /\ \A q \in DOMAIN (rs \o new) : q \notin DOMAIN rs =>
              /\ \A p \in DOMAIN rs : p < q
              /\ new = <<(rs \o new)[q]>>
         /\ \A r : new = <<r>> => \E q \in DOMAIN (rs \o new) : (rs \o new)[q] = r
<1>1. CASE new = <<>>
  <2>1. rs \o new = rs
    BY <1>1
  <2>2. \A r : new # <<r>>
    BY <1>1
  <2>. QED  BY <2>1, <2>2
<1>2. CASE new # <<>>
  <2>1. PICK r \in ProxyRule : new = <<r>>
    BY <1>2 DEF Small
  <2>2. rs \o new = Append(rs, r)
    BY <2>1
  <2>3. PICK z : z = rs \o new
    OBVIOUS
  <2>4. /\ z \in Seq(ProxyRule)
        /\ DOMAIN z = DOMAIN rs \cup {Len(rs) + 1}
        /\ \A i \in DOMAIN rs : z[i] = rs[i] /\ i < Len(rs) + 1
        /\ z[Len(rs) + 1] = r
    BY <2>2, <2>3, AppendIs
  <2>5. \A t : new = <<t>> => t = r
    BY <2>1
  <2>. QED  BY <2>1, <2>3, <2>4, <2>5
<1>. QED  BY <1>1, <1>2

(* A share is carried out at node n, for the order i. *)
SharedAt(i, n, new) ==
  /\ Small(new)
  /\ orders[i].kind \in Cuts => new = <<CutRule(orders[i], n)>>
  /\ proxies' = [proxies EXCEPT ![n] = IF orders[i].kind \in Clearing THEN <<>>
                                       ELSE proxies[n] \o new]
  /\ \E r \in {"ok", "error"} : Changed(i, n, r)
  /\ posts' \subseteq posts
  /\ orders[i].result[n] = "pending" \/ \E m \in posts : m.order = i

LEMMA NotBehind ==
  ASSUME ApiTypes, QuietInv, NEW i \in DOMAIN orders, NEW n \in Node,
         orders[i].result[n] = "pending" \/ \E m \in posts : m.order = i,
         NEW j \in DOMAIN orders, orders[j].quiet
  PROVE  j <= i
<1>1. i \in Int /\ j \in Int
  BY OrdersAre
<1>. SUFFICES ASSUME i < j PROVE FALSE
  BY <1>1
<1>2. Over(orders[i]) /\ \A m \in posts : m.order >= j
  BY DEF QuietInv
<1>3. orders[i].result[n] # "pending"
  BY <1>2 DEF Over
<1>4. PICK m \in posts : m.order = i
  BY <1>3
<1>. QED  BY <1>1, <1>2, <1>4

LEMMA ProxiesAfter ==
  ASSUME ApiTypes, NEW i \in DOMAIN orders, NEW n \in Node, NEW new, SharedAt(i, n, new)
  PROVE  /\ proxies' \in [Node -> Seq(ProxyRule)]
         /\ \A m \in Node : m # n => proxies'[m] = proxies[m]
         /\ orders[i].kind \in Clearing => proxies'[n] = <<>>
         /\ orders[i].kind \notin Clearing => proxies'[n] = proxies[n] \o new
<1>1. proxies \in [Node -> Seq(ProxyRule)] /\ proxies[n] \in Seq(ProxyRule)
  BY DEF ApiTypes
<1>2. proxies[n] \o new \in Seq(ProxyRule) /\ <<>> \in Seq(ProxyRule)
  BY <1>1, SmallJoined DEF SharedAt
<1>3. PICK v : v = IF orders[i].kind \in Clearing THEN <<>> ELSE proxies[n] \o new
  OBVIOUS
<1>4. proxies' = [proxies EXCEPT ![n] = v] /\ v \in Seq(ProxyRule)
  BY <1>2, <1>3 DEF SharedAt
<1>5. proxies' \in [Node -> Seq(ProxyRule)] /\ proxies'[n] = v
      /\ \A m \in Node : m # n => proxies'[m] = proxies[m]
  BY <1>1, <1>4
<1>. QED  BY <1>3, <1>5

LEMMA HealedKept ==
  ASSUME ApiInv, NEW i \in DOMAIN orders, NEW n \in Node, NEW new, SharedAt(i, n, new)
  PROVE  Healed'
<1>1. PICK r \in {"ok", "error"} : Changed(i, n, r)
  BY DEF SharedAt
<1>. SUFFICES ASSUME NEW j \in DOMAIN orders, orders'[j].quiet, orders'[j].kind = "heal",
                     j = Len(orders), NEW m \in Node, orders'[j].result[m] = "ok"
              PROVE  proxies'[m] = <<>>
  BY <1>1 DEF Healed, Changed
<1>2. orders[j].quiet /\ orders[j].kind = "heal"
  BY <1>1 DEF Changed, Same
<1>3. j <= i
  BY <1>2, NotBehind DEF ApiInv, SharedAt
<1>4. i = j
  BY <1>3, OrdersAre DEF ApiInv
<1>5. CASE m = n
  BY <1>2, <1>4, <1>5, ProxiesAfter DEF ApiInv, Clearing
<1>6. CASE m # n
  <2>1. orders[j].result[m] = "ok"
    BY <1>1, <1>6 DEF Changed
  <2>2. proxies[m] = <<>>
    BY <1>2, <2>1 DEF ApiInv, Healed
  <2>. QED  BY <1>6, <2>2, ProxiesAfter DEF ApiInv
<1>. QED  BY <1>5, <1>6

(* A cut that was confirmed stays where it is. *)
LEMMA PlacedStays ==
  ASSUME ApiTypes, NEW i \in DOMAIN orders, NEW n \in Node, NEW new, SharedAt(i, n, new),
         orders[i].kind \notin Clearing,
         NEW j \in DOMAIN orders, NEW m \in Node, NEW S \in SUBSET DOMAIN proxies[m],
         Placed(j, m, S), orders'[j].result[m] = "ok" => orders[j].result[m] = "ok"
  PROVE  /\ S \in SUBSET DOMAIN proxies'[m]
         /\ Placed(j, m, S)'
<1>1. PICK r \in {"ok", "error"} : Changed(i, n, r)
  BY DEF SharedAt
<1>2. proxies[m] \in Seq(ProxyRule)
  BY DEF ApiTypes
<1>3. \A p \in DOMAIN proxies[m] : p \in DOMAIN proxies'[m] /\ proxies'[m][p] = proxies[m][p]
  <2>1. CASE m # n
    BY <2>1, ProxiesAfter
  <2>2. CASE m = n
    <3>1. proxies'[m] = proxies[m] \o new
      BY <2>2, ProxiesAfter
    <3>2. \A p \in DOMAIN proxies[m] : p \in DOMAIN (proxies[m] \o new)
                                      /\ (proxies[m] \o new)[p] = proxies[m][p]
      BY <1>2, SmallJoined DEF SharedAt
    <3>. QED  BY <3>1, <3>2
  <2>. QED  BY <2>1, <2>2
<1>4. orders'[j].kind = orders[j].kind /\ CutRule(orders'[j], m) = CutRule(orders[j], m)
  BY <1>1 DEF Changed, Same
<1>5. ASSUME orders'[j].kind \in Cuts, orders'[j].result[m] = "ok"
      PROVE  \E p \in S : proxies'[m][p] = CutRule(orders'[j], m)
  <2>1. PICK p \in S : proxies[m][p] = CutRule(orders[j], m)
    BY <1>4, <1>5 DEF Placed
  <2>. QED  BY <1>3, <1>4, <2>1
<1>. QED  BY <1>3, <1>5 DEF Placed

LEMMA CutsPlacedKept ==
  ASSUME ApiInv, NEW i \in DOMAIN orders, NEW n \in Node, NEW new, SharedAt(i, n, new)
  PROVE  CutsPlaced'
<1>1. PICK r \in {"ok", "error"} : Changed(i, n, r)
  BY DEF SharedAt
<1>. SUFFICES ASSUME NoClearing', NEW j \in DOMAIN orders, NEW m \in Node
              PROVE  Placed(j, m, DOMAIN proxies[m])'
  BY <1>1 DEF CutsPlaced, Changed
<1>2. \A k \in DOMAIN orders : orders'[k].kind = orders[k].kind
  BY <1>1 DEF Changed, Same
<1>3. NoClearing /\ orders[i].kind \notin Clearing
  BY <1>1, <1>2 DEF NoClearing, Changed
<1>4. Placed(j, m, DOMAIN proxies[m]) /\ ApiTypes
  BY <1>3 DEF ApiInv, CutsPlaced
<1>5. CASE j = i /\ m = n
  <2>. SUFFICES ASSUME orders'[j].kind \in Cuts
                PROVE  \E p \in DOMAIN proxies'[m] : proxies'[m][p] = CutRule(orders'[j], m)
    BY DEF Placed
  <2>1. new = <<CutRule(orders[i], n)>> /\ CutRule(orders'[j], m) = CutRule(orders[i], n)
    BY <1>1, <1>2, <1>5 DEF SharedAt, Changed, Same
  <2>2. proxies'[n] = proxies[n] \o new
    BY <1>3, <1>4, ProxiesAfter
  <2>3. proxies[n] \in Seq(ProxyRule) /\ Small(new)
    BY <1>4 DEF ApiTypes, SharedAt
  <2>4. \A t : new = <<t>> => \E q \in DOMAIN (proxies[n] \o new) : (proxies[n] \o new)[q] = t
    BY <2>3, SmallJoined
  <2>. QED  BY <1>5, <2>1, <2>2, <2>4
<1>6. CASE ~(j = i /\ m = n)
  <2>1. orders'[j].result[m] = orders[j].result[m]
    BY <1>1, <1>6 DEF Changed
  <2>2. PICK S : S = DOMAIN proxies[m]
    OBVIOUS
  <2>3. Placed(j, m, S) /\ S \in SUBSET DOMAIN proxies[m]
    BY <1>4, <2>2
  <2>4. S \in SUBSET DOMAIN proxies'[m] /\ Placed(j, m, S)'
    BY <1>3, <1>4, <2>1, <2>3, PlacedStays
  <2>. QED  BY <2>4 DEF Placed
<1>. QED  BY <1>5, <1>6

LEMMA PassesLaterKept ==
  ASSUME ApiInv, NEW i \in DOMAIN orders, NEW n \in Node, NEW new, SharedAt(i, n, new)
  PROVE  PassesLater'
<1>1. PICK r \in {"ok", "error"} : Changed(i, n, r)
  BY DEF SharedAt
<1>. SUFFICES ASSUME NoClearing', NEW m \in Node, NEW q \in DOMAIN proxies'[m],
                     proxies'[m][q].action # "drop"
              PROVE  \E j \in DOMAIN orders : LaterThan(j, m, q)'
  BY <1>1 DEF PassesLater, Changed
<1>2. /\ DOMAIN orders' = DOMAIN orders
      /\ \A k \in DOMAIN orders : orders'[k].kind = orders[k].kind
                                  /\ orders'[k].quiet = orders[k].quiet
  BY <1>1 DEF Changed, Same
<1>3. NoClearing /\ orders[i].kind \notin Clearing
  BY <1>2 DEF NoClearing
<1>4. ApiTypes /\ QuietInv /\ CutsPlaced /\ PassesLater
  BY DEF ApiInv
<1>5. proxies[m] \in Seq(ProxyRule) /\ Small(new) /\ DOMAIN proxies[m] \subseteq Nat
  BY <1>4, LenProperties DEF ApiTypes, SharedAt
<1>6. CASE q \in DOMAIN proxies[m]
  <2>1. proxies'[m][q] = proxies[m][q]
    <3>1. CASE m # n
      BY <1>4, <3>1, ProxiesAfter
    <3>2. CASE m = n
      <4>1. proxies'[m] = proxies[m] \o new
        BY <1>3, <1>4, <3>2, ProxiesAfter
      <4>2. (proxies[m] \o new)[q] = proxies[m][q]
        BY <1>5, <1>6, SmallJoined
      <4>. QED  BY <4>1, <4>2
    <3>. QED  BY <3>1, <3>2
  <2>2. PICK j \in DOMAIN orders : LaterThan(j, m, q)
    BY <1>3, <1>4, <1>6, <2>1 DEF PassesLater
  <2>3. ASSUME orders'[j].quiet, NEW k \in DOMAIN orders, k < j
        PROVE  Placed(k, m, {p \in DOMAIN proxies[m] : p < q})'
    <3>1. Placed(k, m, {p \in DOMAIN proxies[m] : p < q})
      BY <1>2, <2>2, <2>3 DEF LaterThan
    <3>2. j <= i
      BY <1>2, <1>4, <2>3, NotBehind DEF SharedAt
    <3>3. k # i
      BY <1>4, <2>3, <3>2, OrdersAre
    <3>4. orders'[k].result[m] = orders[k].result[m]
      BY <1>1, <3>3 DEF Changed
    <3>5. PICK S : S = {p \in DOMAIN proxies[m] : p < q}
      OBVIOUS
    <3>6. Placed(k, m, S) /\ S \in SUBSET DOMAIN proxies[m]
      BY <3>1, <3>5
    <3>7. S \in SUBSET DOMAIN proxies'[m] /\ Placed(k, m, S)'
      BY <1>3, <1>4, <3>4, <3>6, PlacedStays
    <3>8. S \subseteq {p \in DOMAIN proxies'[m] : p < q}
      BY <3>5, <3>7
    <3>. QED  BY <3>7, <3>8 DEF Placed
  <2>4. LaterThan(j, m, q)'
    BY <1>2, <2>2, <2>3 DEF LaterThan
  <2>. QED  BY <2>4
<1>7. CASE q \notin DOMAIN proxies[m]
  <2>1. m = n
    BY <1>4, <1>7, ProxiesAfter
  <2>2. proxies'[m] = proxies[m] \o new
    BY <1>3, <1>4, <2>1, ProxiesAfter
  <2>3. (\A p \in DOMAIN proxies[m] : p < q) /\ new = <<proxies'[m][q]>>
    BY <1>5, <1>7, <2>2, SmallJoined
  <2>4. orders[i].kind \notin Cuts
    <3>. SUFFICES ASSUME orders[i].kind \in Cuts PROVE FALSE
      OBVIOUS
    <3>1. <<proxies'[m][q]>> = <<CutRule(orders[i], n)>>
      BY <2>3 DEF SharedAt
    <3>2. proxies'[m][q] = CutRule(orders[i], n)
      BY <3>1
    <3>3. CutRule(orders[i], n).action = "drop"
      BY DEF CutRule, RuleTo
    <3>. QED  BY <3>2, <3>3
  <2>5. ASSUME NEW k \in DOMAIN orders, k < i, orders'[i].quiet
        PROVE  Placed(k, m, {p \in DOMAIN proxies[m] : p < q})'
    <3>1. PICK S : S = DOMAIN proxies[m]
      OBVIOUS
    <3>2. Placed(k, m, S) /\ S \in SUBSET DOMAIN proxies[m]
      BY <1>3, <1>4, <3>1 DEF CutsPlaced
    <3>3. k # i
      BY <1>4, <2>5, OrdersAre
    <3>4. orders'[k].result[m] = orders[k].result[m]
      BY <1>1, <3>3 DEF Changed
    <3>5. S \in SUBSET DOMAIN proxies'[m] /\ Placed(k, m, S)'
      BY <1>3, <1>4, <3>2, <3>4, PlacedStays
    <3>6. S \subseteq {p \in DOMAIN proxies'[m] : p < q}
      BY <2>3, <3>1, <3>5
    <3>. QED  BY <3>5, <3>6 DEF Placed
  <2>6. LaterThan(i, m, q)'
    BY <1>2, <2>4, <2>5 DEF LaterThan
  <2>. QED  BY <2>6
<1>. QED  BY <1>6, <1>7

LEMMA SharesKeep ==
  ASSUME ApiInv, NEW i \in DOMAIN orders, NEW n \in Node, NEW new, SharedAt(i, n, new)
  PROVE  ApiInv'
<1>1. PICK r \in {"ok", "error"} : Changed(i, n, r)
  BY DEF SharedAt
<1>2. posts' \subseteq posts /\ ApiTypes /\ QuietInv
  BY DEF ApiInv, SharedAt
<1>3. proxies' \in [Node -> Seq(ProxyRule)]
  BY <1>2, ProxiesAfter
<1>4. ApiTypes'
  BY <1>1, <1>2, <1>3, TypesKept
<1>5. QuietInv'
  BY <1>1, <1>2, QuietKept
<1>. QED  BY <1>4, <1>5, HealedKept, CutsPlacedKept, PassesLaterKept DEF ApiInv

(* What the wire makes of a share: a cut has no number in it. *)
LEMMA WireIs ==
  ASSUME NEW s, Small(s)
  PROVE  /\ Small([j \in DOMAIN s |-> OverTheWire(s[j])])
         /\ \A r : s = <<r>> /\ r \in ProxyRule /\ r.param = "none" =>
              [j \in DOMAIN s |-> OverTheWire(s[j])] = s
<1>1. CASE s = <<>>
  <2>1. [j \in DOMAIN s |-> OverTheWire(s[j])] = <<>>
    BY <1>1
  <2>. QED  BY <1>1, <2>1 DEF Small
<1>2. ASSUME NEW r \in ProxyRule, s = <<r>>
      PROVE  /\ Small([j \in DOMAIN s |-> OverTheWire(s[j])])
             /\ r.param = "none" => [j \in DOMAIN s |-> OverTheWire(s[j])] = s
  <2>1. PICK w : w = OverTheWire(r)
    OBVIOUS
  <2>2. w \in ProxyRule /\ (r.param = "none" => w = r)
    BY <2>1 DEF OverTheWire, ProxyRule, ParamTypes
  <2>3. DOMAIN s = 1 .. 1 /\ s[1] = r
    BY <1>2
  <2>4. [j \in DOMAIN s |-> OverTheWire(s[j])] = [j \in 1 .. 1 |-> w]
    BY <2>1, <2>3
  <2>5. [j \in 1 .. 1 |-> w] = <<w>>
    OBVIOUS
  <2>. QED  BY <1>2, <2>2, <2>4, <2>5 DEF Small
<1>3. \A r, t : <<r>> = <<t>> => r = t
  OBVIOUS
<1>4. \A r : s = <<r>> => s # <<>>
  OBVIOUS
<1>5. CASE s # <<>>
  <2>1. PICK r \in ProxyRule : s = <<r>>
    BY <1>5 DEF Small
  <2>2. \A t : s = <<t>> => t = r
    BY <1>3, <2>1
  <2>. QED  BY <1>2, <2>1, <2>2
<1>. QED  BY <1>1, <1>5

LEMMA LocalShareKeeps ==
  ASSUME ApiInv, NEW i \in DOMAIN orders, LocalShare(i)
  PROVE  ApiInv'
<1>. DEFINE o == orders[i]
            n == o.by
            new == ShareOf(o, n)
<1>1. ApiTypes /\ Valid(o) /\ n \in Node
  BY OrdersAre DEF ApiInv, Valid
<1>2. /\ o.result[n] = "pending" /\ posts' = posts
      /\ proxies' = Carried(n, o.kind, new) /\ SetResult(i, n, "ok")
  BY DEF LocalShare, ShareOf
<1>3. Changed(i, n, "ok")
  BY <1>1, <1>2, ResultSet
<1>4. Small(new) /\ (o.kind \in Cuts => new = <<CutRule(o, n)>>)
  BY <1>1, <1>2, ShareIs
<1>5. proxies' = [proxies EXCEPT ![n] = IF o.kind \in Clearing THEN <<>>
                                        ELSE proxies[n] \o new]
  BY <1>2 DEF Carried, ClearRules, AddRules
<1>. HIDE DEF new, n
<1>6. SharedAt(i, n, new)
  BY <1>2, <1>3, <1>4, <1>5 DEF SharedAt
<1>. QED  BY <1>1, <1>6, SharesKeep

LEMMA PeerShareKeeps ==
  ASSUME ApiInv, NEW m \in posts, PeerShare(m)
  PROVE  ApiInv'
<1>. DEFINE i == m.order
            o == orders[i]
            n == m.to
            s == ShareOf(o, n)
            new == [j \in DOMAIN s |-> OverTheWire(s[j])]
<1>1. ApiTypes /\ i \in DOMAIN orders /\ n \in Node /\ Valid(o) /\ o.result[n] # "none"
  BY OrdersAre DEF ApiInv, ApiTypes, Post
<1>2. /\ proxies' = Carried(n, o.kind, new) /\ posts' = posts \ {m}
      /\ IF o.result[n] = "pending" THEN SetResult(i, n, "ok") ELSE UNCHANGED orders
  BY DEF PeerShare, ShareOf
<1>3. Small(s) /\ (o.kind \in Cuts => CutRule(o, n) \in ProxyRule /\ s = <<CutRule(o, n)>>)
  BY <1>1, ShareIs
<1>4. CutRule(o, n).param = "none"
  BY DEF CutRule, RuleTo
<1>. HIDE DEF s
<1>5. Small(new) /\ (o.kind \in Cuts => new = <<CutRule(o, n)>>)
  BY <1>3, <1>4, WireIs
<1>. HIDE DEF new
<1>6. \E r \in {"ok", "error"} : Changed(i, n, r)
  <2>1. CASE o.result[n] = "pending"
    BY <1>1, <1>2, <2>1, ResultSet
  <2>2. CASE o.result[n] # "pending"
    <3>1. o.result[n] \in {"ok", "error"}
      BY <1>1, <2>2 DEF Valid, Order, Results
    <3>2. Changed(i, n, orders[i].result[n])
      BY <1>1, <1>2, <2>2, NothingSet
    <3>. QED  BY <3>1, <3>2
  <2>. QED  BY <2>1, <2>2
<1>7. proxies' = [proxies EXCEPT ![n] = IF o.kind \in Clearing THEN <<>>
                                        ELSE proxies[n] \o new]
  BY <1>2 DEF Carried, ClearRules, AddRules
<1>8. posts' \subseteq posts /\ \E w \in posts : w.order = i
  BY <1>2
<1>9. SharedAt(i, n, new)
  BY <1>5, <1>6, <1>7, <1>8 DEF SharedAt
<1>. QED  BY <1>1, <1>9, SharesKeep

(* A post that its caller has given up on changes no proxy. *)
LEMMA PostFailsKeeps ==
  ASSUME ApiInv, NEW i \in DOMAIN orders, NEW n \in Node, PostFails(i, n)
  PROVE  ApiInv'
<1>1. /\ ApiTypes /\ QuietInv /\ posts' \subseteq posts /\ proxies' = proxies
      /\ orders[i].result[n] = "pending" /\ SetResult(i, n, "error")
  BY DEF ApiInv, PostFails
<1>2. Changed(i, n, "error")
  BY <1>1, ResultSet
<1>3. ApiTypes'
  BY <1>1, <1>2, TypesKept DEF ApiTypes
<1>4. QuietInv'
  BY <1>1, <1>2, QuietKept
<1>5. /\ DOMAIN orders' = DOMAIN orders /\ Len(orders') = Len(orders)
      /\ \A j \in DOMAIN orders : /\ orders'[j].kind = orders[j].kind
                                  /\ orders'[j].quiet = orders[j].quiet
                                  /\ \A m \in Node : CutRule(orders'[j], m) = CutRule(orders[j], m)
      /\ \A j \in DOMAIN orders, m \in Node :
           orders'[j].result[m] = "ok" => orders[j].result[m] = "ok"
  BY <1>2 DEF Changed, Same
<1>6. Healed'
  BY <1>1, <1>5 DEF ApiInv, Healed
<1>7. NoClearing' => NoClearing
  BY <1>5 DEF NoClearing
<1>8. ASSUME NEW j \in DOMAIN orders, NEW m \in Node, NEW S, Placed(j, m, S)
      PROVE  Placed(j, m, S)'
  BY <1>1, <1>5, <1>8 DEF Placed
<1>9. CutsPlaced'
  BY <1>1, <1>5, <1>7, <1>8 DEF ApiInv, CutsPlaced, Placed
<1>10. ASSUME NEW j \in DOMAIN orders, NEW m \in Node, NEW q, LaterThan(j, m, q)
       PROVE  LaterThan(j, m, q)'
  BY <1>1, <1>5, <1>8, <1>10 DEF LaterThan, Placed
<1>11. PassesLater'
  BY <1>1, <1>5, <1>7, <1>10 DEF ApiInv, PassesLater
<1>. QED  BY <1>3, <1>4, <1>6, <1>9, <1>11 DEF ApiInv

(* A new order finds everything in its place. *)
GoodOrder(kind, c, a, b) ==
  /\ c \in Coordinators /\ c \in Node
  /\ a \in Node \cup {Any} \cup Applied /\ b \in Node \cup {Any}
  /\ kind \in {"isolate", "partition", "delay", "loss", "heal", "apply", "clear"}
  /\ kind \in {"isolate", "delay", "loss"} => a \in Node
  /\ kind = "partition" => a \in Node /\ b \in Node /\ a # b
  /\ kind = "apply" => a \in ProxyRule

LEMMA GiveKeeps ==
  ASSUME ApiInv, NEW kind, NEW c, NEW a, NEW b, GoodOrder(kind, c, a, b),
         Give(kind, c, a, b)
  PROVE  ApiInv'
<1>. DEFINE C == Concerned(kind, c, a, b)
            l == Len(orders)
            res == [n \in Node |-> IF n \in C THEN "pending" ELSE "none"]
            quiet == posts = {} /\ \A i \in DOMAIN orders : Over(orders[i])
            o == [kind |-> kind, by |-> c, a |-> a, b |-> b, result |-> res, quiet |-> quiet]
<1>1. /\ orders' = Append(orders, o) /\ proxies' = proxies
      /\ posts' = posts \cup {[order |-> l + 1, to |-> n] : n \in C \ {c}}
  BY DEF Give
<1>2. ApiTypes /\ orders \in Seq(Order) /\ l \in Nat /\ DOMAIN orders = 1 .. l
  BY OrdersAre DEF ApiInv, ApiTypes
<1>3. C \subseteq Node
  BY DEF GoodOrder, Concerned
<1>4. quiet \in BOOLEAN
  OBVIOUS
<1>5. quiet => posts = {} /\ \A i \in DOMAIN orders : Over(orders[i])
  OBVIOUS
<1>. HIDE DEF quiet
<1>6. res \in [Node -> Results]
      /\ \A n \in Node : res[n] # "ok" /\ (res[n] = "none" <=> n \notin C)
  BY DEF Results
<1>. HIDE DEF res
<1>7. /\ o.kind = kind /\ o.by = c /\ o.a = a /\ o.b = b /\ o.result = res /\ o.quiet = quiet
  OBVIOUS
<1>8. o \in Order
  BY <1>4, <1>6 DEF Order, GoodOrder
<1>9. Valid(o)
  <2>. HIDE DEF o
  <2>. QED  BY <1>6, <1>7, <1>8 DEF Valid, GoodOrder
<1>. HIDE DEF o
<1>10. /\ orders' \in Seq(Order) /\ Len(orders') = l + 1
       /\ DOMAIN orders' = DOMAIN orders \cup {l + 1}
       /\ \A i \in DOMAIN orders : orders'[i] = orders[i] /\ i < l + 1
       /\ orders'[l + 1] = o
  BY <1>1, <1>2, <1>8, AppendIs
<1>11. \A m \in posts' : \/ m \in posts
                         \/ \E n \in C : m = [order |-> l + 1, to |-> n]
  BY <1>1
<1>12. \A n \in C : [order |-> l + 1, to |-> n] \in Post
  BY <1>2, <1>3 DEF Post
<1>. HIDE DEF l, C
<1>13. l + 1 \in Nat /\ l + 1 \notin DOMAIN orders
  BY <1>2
<1>14. ApiTypes'
  <2>1. posts' \in SUBSET Post
    BY <1>2, <1>11, <1>12 DEF ApiTypes
  <2>2. ASSUME NEW m \in posts'
        PROVE  m.order \in DOMAIN orders' /\ orders'[m.order].result[m.to] # "none"
    <3>1. CASE m \in posts
      BY <1>2, <1>10, <3>1 DEF ApiTypes
    <3>2. CASE \E n \in C : m = [order |-> l + 1, to |-> n]
      <4>1. PICK n \in C : m = [order |-> l + 1, to |-> n]
        BY <3>2
      <4>2. m.order = l + 1 /\ m.to = n
        BY <4>1
      <4>. QED  BY <1>3, <1>6, <1>7, <1>10, <4>2
    <3>. QED  BY <1>11, <3>1, <3>2
  <2>3. \A i \in DOMAIN orders' : Valid(orders'[i])
    BY <1>2, <1>9, <1>10 DEF ApiTypes
  <2>4. proxies' \in [Node -> Seq(ProxyRule)]
    BY <1>1, <1>2 DEF ApiTypes
  <2>. QED  BY <1>10, <2>1, <2>2, <2>3, <2>4 DEF ApiTypes
<1>15. QuietInv'
  <2>. SUFFICES ASSUME NEW j \in DOMAIN orders', orders'[j].quiet
                PROVE  /\ \A i \in DOMAIN orders' : i < j => Over(orders'[i])
                       /\ \A m \in posts' : m.order >= j
    BY DEF QuietInv
  <2>1. CASE j \in DOMAIN orders
    <3>1. /\ \A i \in DOMAIN orders : i < j => Over(orders[i])
          /\ \A m \in posts : m.order >= j
      BY <1>10, <2>1 DEF ApiInv, QuietInv
    <3>2. j \in Nat /\ j < l + 1
      BY <1>2, <1>10, <2>1
    <3>3. ~(l + 1 < j)
      BY <1>13, <3>2
    <3>4. \A i \in DOMAIN orders' : i < j => Over(orders'[i])
      BY <1>10, <3>1, <3>3
    <3>5. ASSUME NEW m \in posts' PROVE m.order >= j
      <4>1. CASE \E n \in C : m = [order |-> l + 1, to |-> n]
        <5>1. m.order = l + 1
          BY <4>1
        <5>. QED  BY <1>13, <3>2, <5>1
      <4>. QED  BY <1>11, <3>1, <4>1
    <3>. QED  BY <3>4, <3>5
  <2>2. CASE j = l + 1
    <3>1. posts = {} /\ \A i \in DOMAIN orders : Over(orders[i])
      BY <1>5, <1>7, <1>10, <2>2
    <3>2. ~(l + 1 < l + 1) /\ l + 1 >= l + 1
      BY <1>13
    <3>3. \A i \in DOMAIN orders' : i < j => Over(orders'[i])
      BY <1>10, <2>2, <3>1, <3>2
    <3>4. \A m \in posts' : m.order = l + 1
      BY <1>11, <3>1
    <3>. QED  BY <2>2, <3>2, <3>3, <3>4
  <2>. QED  BY <1>10, <2>1, <2>2
<1>16. Healed'
  <2>. SUFFICES ASSUME NEW j \in DOMAIN orders', j = l + 1, NEW n \in Node,
                       orders'[j].result[n] = "ok"
                PROVE  FALSE
    BY <1>10 DEF Healed
  <2>. QED  BY <1>6, <1>7, <1>10
<1>17. NoClearing' => NoClearing
  BY <1>10 DEF NoClearing
<1>18. \A n \in Node : orders'[l + 1].result[n] # "ok"
  BY <1>6, <1>7, <1>10
<1>19. ASSUME NEW j \in DOMAIN orders, NEW n \in Node, NEW S, Placed(j, n, S)
       PROVE  Placed(j, n, S)'
  BY <1>1, <1>10, <1>19 DEF Placed
<1>20. CutsPlaced'
  <2>. SUFFICES ASSUME NoClearing', NEW j \in DOMAIN orders', NEW n \in Node
                PROVE  Placed(j, n, DOMAIN proxies[n])'
    BY DEF CutsPlaced
  <2>1. PICK S : S = DOMAIN proxies[n]
    OBVIOUS
  <2>2. CASE j \in DOMAIN orders
    <3>1. Placed(j, n, S)
      BY <1>17, <2>1, <2>2 DEF ApiInv, CutsPlaced
    <3>2. Placed(j, n, S)'
      BY <1>19, <2>2, <3>1
    <3>. QED  BY <1>1, <2>1, <3>2 DEF Placed
  <2>3. CASE j = l + 1
    BY <1>18, <2>3 DEF Placed
  <2>. QED  BY <1>10, <2>2, <2>3
<1>21. PassesLater'
  <2>. SUFFICES ASSUME NoClearing', NEW n \in Node, NEW q \in DOMAIN proxies[n],
                       proxies[n][q].action # "drop"
                PROVE  \E j \in DOMAIN orders' : LaterThan(j, n, q)'
    BY <1>1 DEF PassesLater
  <2>1. PICK j \in DOMAIN orders : LaterThan(j, n, q)
    BY <1>17 DEF ApiInv, PassesLater
  <2>2. j \in Nat /\ j < l + 1
    BY <1>2, <1>10
  <2>3. ~(l + 1 < j)
    BY <1>13, <2>2
  <2>4. ASSUME orders[j].quiet, NEW i \in DOMAIN orders', i < j
        PROVE  Placed(i, n, {p \in DOMAIN proxies[n] : p < q})'
    <3>1. i \in DOMAIN orders
      BY <1>10, <2>3, <2>4
    <3>2. PICK S : S = {p \in DOMAIN proxies[n] : p < q}
      OBVIOUS
    <3>3. Placed(i, n, S)
      BY <2>1, <2>4, <3>1, <3>2 DEF LaterThan
    <3>4. Placed(i, n, S)'
      BY <1>19, <3>1, <3>3
    <3>. QED  BY <1>1, <3>2, <3>4 DEF Placed
  <2>5. LaterThan(j, n, q)'
    BY <1>10, <2>1, <2>4 DEF LaterThan
  <2>. QED  BY <1>10, <2>5
<1>. QED  BY <1>14, <1>15, <1>16, <1>20, <1>21 DEF ApiInv

LEMMA ApiStarts == ApiInit => ApiInv
<1>. SUFFICES ASSUME ApiInit PROVE ApiInv
  OBVIOUS
<1>1. proxies = [n \in Node |-> <<>>] /\ orders = <<>> /\ posts = {}
  BY DEF ApiInit, ClearRules
<1>2. DOMAIN orders = {} /\ orders \in Seq(Order)
  BY <1>1
<1>3. proxies \in [Node -> Seq(ProxyRule)] /\ \A n \in Node : DOMAIN proxies[n] = {}
  BY <1>1
<1>4. ApiTypes
  BY <1>1, <1>2, <1>3 DEF ApiTypes
<1>. QED  BY <1>1, <1>2, <1>3, <1>4 DEF ApiInv, QuietInv, Healed, CutsPlaced, PassesLater

LEMMA ApiKept == ApiInv /\ [ApiNext]_apiVars => ApiInv'
<1>. SUFFICES ASSUME ApiInv, [ApiNext]_apiVars PROVE ApiInv'
  OBVIOUS
<1>1. CASE UNCHANGED apiVars
  <2>1. UNCHANGED <<proxies, orders, posts>>
    BY <1>1 DEF apiVars
  <2>. QED  BY <2>1 DEF ApiInv, ApiTypes, QuietInv, Healed, CutsPlaced, PassesLater,
                        NoClearing, Placed, LaterThan
<1>2. CASE \E c \in Coordinators :
             \/ handleIsolate(c) \/ handlePartition(c) \/ handleDelay(c)
             \/ handleLoss(c) \/ handleClusterHeal(c)
             \/ handleApplyLocal(c) \/ handleHealLocal(c)
  <2>1. PICK c \in Coordinators :
             \/ handleIsolate(c) \/ handlePartition(c) \/ handleDelay(c)
             \/ handleLoss(c) \/ handleClusterHeal(c)
             \/ handleApplyLocal(c) \/ handleHealLocal(c)
    BY <1>2
  <2>2. c \in Node
    BY OrderAssumption
  <2>3. \E kind, a, b : GoodOrder(kind, c, a, b) /\ Give(kind, c, a, b)
    <3>1. CASE handleIsolate(c)
      BY <2>2, <3>1 DEF handleIsolate, GoodOrder
    <3>2. CASE handlePartition(c)
      BY <2>2, <3>2 DEF handlePartition, GoodOrder
    <3>3. CASE handleDelay(c)
      BY <2>2, <3>3 DEF handleDelay, GoodOrder
    <3>4. CASE handleLoss(c)
      BY <2>2, <3>4 DEF handleLoss, GoodOrder
    <3>5. CASE handleClusterHeal(c)
      BY <2>2, <3>5 DEF handleClusterHeal, GoodOrder
    <3>6. CASE handleApplyLocal(c)
      BY <2>2, <3>6, OrderAssumption DEF handleApplyLocal, GoodOrder
    <3>7. CASE handleHealLocal(c)
      BY <2>2, <3>7 DEF handleHealLocal, GoodOrder
    <3>. QED  BY <2>1, <3>1, <3>2, <3>3, <3>4, <3>5, <3>6, <3>7
  <2>. QED  BY <2>3, GiveKeeps
<1>3. CASE \E i \in DOMAIN orders : LocalShare(i) \/ \E n \in Node : PostFails(i, n)
  BY <1>3, LocalShareKeeps, PostFailsKeeps
<1>4. CASE \E m \in posts : PeerShare(m)
  BY <1>4, PeerShareKeeps
<1>. QED  BY <1>1, <1>2, <1>3, <1>4 DEF ApiNext

(* The orders of server/chaos.go, the proxies and the posts on their way   *)
(* stay in step: what each proxy has of each order, and what is to come.   *)
THEOREM ApiInvariant == ApiSpec => []ApiInv
<1>1. ApiInit => ApiInv
  BY ApiStarts
<1>2. ApiInv /\ [ApiNext]_apiVars => ApiInv'
  BY ApiKept
<1>. QED  BY <1>1, <1>2, PTL DEF ApiSpec

(* A cluster heal that came when nothing was under way, that every node    *)
(* has confirmed and that nothing has followed, leaves every link open.    *)
THEOREM HealsClean == ApiSpec => []CleanHeal
<1>1. ASSUME ApiInv PROVE CleanHeal
  <2>. SUFFICES ASSUME orders # <<>>, NEW o, o = orders[Len(orders)], o.kind = "heal",
                       o.quiet, \A n \in Node : o.result[n] = "ok",
                       NEW a \in Node, NEW b \in Node
                PROVE  ShouldDeliver(proxies[a], a, b) = {"now"}
    BY DEF CleanHeal
  <2>1. Len(orders) \in DOMAIN orders
    <3>1. orders \in Seq(Order)
      BY <1>1 DEF ApiInv, ApiTypes
    <3>2. Len(orders) # 0
      BY <3>1, EmptySeq
    <3>. QED  BY <1>1, <3>2, OrdersAre DEF ApiInv
  <2>2. proxies[a] = <<>>
    BY <1>1, <2>1 DEF ApiInv, Healed
  <2>3. DOMAIN proxies[a] = {}
    BY <2>2
  <2>. QED  BY <2>3 DEF ShouldDeliver
<1>. QED  BY <1>1, ApiInvariant, PTL

(* A rule that an order wants at one end of a link that it cuts, where the *)
(* node is concerned, matches what is sent on the link.                    *)
LEMMA CutRuleMatches ==
  ASSUME NEW o, Valid(o), NEW l \in Cut(o)
  PROVE  /\ o.kind \in Cuts /\ l[1] \in Node /\ o.result[l[1]] # "none"
         /\ matches(CutRule(o, l[1]), l[1], l[2])
<1>1. o.kind \in Cuts
  BY DEF Cut, Cuts
<1>2. CASE o.kind = "isolate"
  <2>1. l \in Node \X Node /\ o.a \in {l[1], l[2]} /\ l[1] # l[2]
    BY <1>2 DEF Cut
  <2>2. o.a \in Node /\ o.result[l[1]] # "none"
    BY <1>2, <2>1 DEF Valid, Concerned
  <2>3. CutRule(o, l[1]) = RuleTo(IF l[1] = o.a THEN Any ELSE o.a, "drop", "none")
    BY <1>2 DEF CutRule
  <2>4. matches(CutRule(o, l[1]), l[1], l[2])
    BY <2>1, <2>3 DEF matches, RuleTo
  <2>. QED  BY <1>1, <2>1, <2>2, <2>4
<1>3. CASE o.kind = "partition"
  <2>1. l = <<o.a, o.b>> \/ l = <<o.b, o.a>>
    BY <1>3 DEF Cut
  <2>2. o.a \in Node /\ o.b \in Node /\ o.a # o.b
    BY <1>3 DEF Valid
  <2>3. l[1] \in {o.a, o.b} /\ l[1] \in Node /\ l[2] = IF l[1] = o.a THEN o.b ELSE o.a
    BY <2>1, <2>2
  <2>4. o.result[l[1]] # "none"
    BY <1>3, <2>3 DEF Valid, Concerned
  <2>5. CutRule(o, l[1]) = RuleTo(IF l[1] = o.a THEN o.b ELSE o.a, "drop", "none")
    BY <1>3 DEF CutRule
  <2>6. matches(CutRule(o, l[1]), l[1], l[2])
    BY <2>3, <2>5 DEF matches, RuleTo
  <2>. QED  BY <1>1, <2>3, <2>4, <2>6
<1>. QED  BY <1>1, <1>2, <1>3 DEF Cuts

(* An isolation or a partition that all nodes have confirmed cuts its      *)
(* links in both directions, until somebody heals, whatever other cuts     *)
(* there are and whatever quiet order comes after it.                      *)
THEOREM CutsStay == ApiSpec => []OrderedCutsHold
<1>1. ASSUME ApiInv PROVE OrderedCutsHold
  <2>. SUFFICES ASSUME NEW i \in DOMAIN orders,
                       \A n \in Node : orders[i].result[n] \in {"ok", "none"},
                       \A j \in DOMAIN orders : orders[j].kind \notin Clearing,
                       \A j \in DOMAIN orders : \/ orders[j].kind \in Cuts
                                                \/ j > i /\ orders[j].quiet,
                       NEW l \in Cut(orders[i])
                PROVE  ShouldDeliver(proxies[l[1]], l[1], l[2]) = {"dropped"}
    BY DEF OrderedCutsHold, Cuts
  <2>. DEFINE o == orders[i]
              n == l[1]
              rs == proxies[n]
              M == {k \in DOMAIN rs : matches(rs[k], n, l[2])}
              q == Min(M)
  <2>1. ApiTypes /\ Valid(o) /\ NoClearing
    BY <1>1, OrdersAre DEF ApiInv, NoClearing
  <2>2. o.kind \in Cuts /\ n \in Node /\ o.result[n] # "none"
        /\ matches(CutRule(o, n), n, l[2])
    BY <2>1, CutRuleMatches
  <2>3. o.result[n] = "ok"
    BY <2>2
  <2>4. rs \in Seq(ProxyRule) /\ DOMAIN rs \subseteq Nat /\ i \in Int
        /\ \A j \in DOMAIN orders : j \in Int
    BY <2>1, <2>2, LenProperties, OrdersAre DEF ApiTypes
  <2>5. PICK p \in DOMAIN rs : rs[p] = CutRule(o, n)
    BY <1>1, <2>1, <2>2, <2>3 DEF ApiInv, CutsPlaced, Placed
  <2>6. M \in SUBSET Nat /\ p \in M
    BY <2>2, <2>4, <2>5
  <2>7. q \in M /\ \A y \in M : q <= y
    BY <2>6, MinOfNaturals
  <2>8. ShouldDeliver(rs, n, l[2]) = Effects(rs[q])
    <3>1. Min(M) = q
      <4>. HIDE DEF M
      <4>. QED  BY DEF Min
    <3>2. ShouldDeliver(rs, n, l[2]) = Effects(rs[Min(M)])
      BY <2>6 DEF ShouldDeliver
    <3>. QED  BY <3>1, <3>2
  <2>. HIDE DEF q
  <2>9. q \in DOMAIN rs /\ q \in Nat
    BY <2>4, <2>7
  <2>10. rs[q].action = "drop"
    <3>. SUFFICES ASSUME rs[q].action # "drop" PROVE FALSE
      OBVIOUS
    <3>1. PICK j \in DOMAIN orders : LaterThan(j, n, q)
      BY <1>1, <2>1, <2>2, <2>9 DEF ApiInv, PassesLater
    <3>2. j > i /\ orders[j].quiet
      BY <3>1 DEF LaterThan
    <3>3. Placed(i, n, {k \in DOMAIN rs : k < q})
      BY <2>4, <3>1, <3>2 DEF LaterThan
    <3>4. PICK k \in DOMAIN rs : k < q /\ rs[k] = CutRule(o, n)
      BY <2>2, <2>3, <3>3 DEF Placed
    <3>5. k \in M /\ k \in Nat
      BY <2>2, <2>4, <3>4
    <3>. QED  BY <2>7, <2>9, <3>4, <3>5
  <2>11. Effects(rs[q]) = {"dropped"}
    BY <2>10 DEF Effects
  <2>. QED  BY <2>8, <2>11
<1>. QED  BY <1>1, ApiInvariant, PTL
=============================================================================

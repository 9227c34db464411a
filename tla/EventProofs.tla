---------------------------- MODULE EventProofs ----------------------------
(***************************************************************************)
(* The dashboard's snapshots and events, for any cluster, any terms and    *)
(* any number of faults: who follows the events knows what the last        *)
(* snapshot says, and a snapshot that nothing disturbed is exact.          *)
(***************************************************************************)
EXTENDS EventStream, RaftLogProofs

Status  == [leads : BOOLEAN, term : 0 .. MaxTerm]
View    == [got : BOOLEAN, reachable : BOOLEAN, leads : BOOLEAN, term : 0 .. MaxTerm]
Summary == [leader : Nat, term : 0 .. MaxTerm, down : SUBSET Node]

StreamTypes ==
  /\ status \in [Node -> Status]
  /\ serving \in [Node -> {"up", "hung", "down"}]
  /\ views \in [Node -> View]
  /\ steady \in BOOLEAN
  /\ prev # <<>> => prev[1] \in Summary /\ told[1] \in Summary

(* What an answer must be if nothing has changed since the snapshot began. *)
Exact(n) == IF serving[n] = "up" THEN ViewOf(n) ELSE Down

AnswersExact == steady => \A n \in Node : views[n].got => views[n] = Exact(n)

StreamInv ==
  /\ StreamTypes /\ serving[Observer] = "up"
  /\ EventsTellAll /\ AnswersExact /\ SnapshotTrue

-----------------------------------------------------------------------------
(* Finite sets of numbers have a bound: of the numbers listed up to some   *)
(* place there is one, or there would be a first place where not.          *)
LEMMA FiniteBounded ==
  ASSUME NEW S \in SUBSET Nat, IsFiniteSet(S)
  PROVE  \E b \in Nat : S \subseteq 0 .. b
<1>1. PICK n \in Nat : ExistsSurjection(1 .. n, S)
  BY FS_NatSurjection
<1>2. PICK f \in [1 .. n -> S] : \A s \in S : \E k \in 1 .. n : f[k] = s
  BY <1>1 DEF ExistsSurjection, Surjection
<1>. DEFINE Within(k, b) == \A j \in 1 .. k : f[j] <= b
            Bad == {k \in 0 .. n : ~ \E b \in Nat : Within(k, b)}
<1>0. \A j \in 1 .. n : f[j] \in Nat
  OBVIOUS
<1>3. Bad = {}
  <2>. SUFFICES ASSUME Bad # {} PROVE FALSE
    OBVIOUS
  <2>1. Bad \in SUBSET Nat
    OBVIOUS
  <2>2. PICK k : k = Min(Bad)
    OBVIOUS
  <2>3. k \in Bad /\ \A y \in Bad : k <= y
    BY <2>1, <2>2, MinOfNaturals
  <2>4. k # 0
    <3>1. Within(0, 0)
      OBVIOUS
    <3>. QED
      BY <2>3, <3>1
  <2>5. k - 1 \in 0 .. n /\ k \in 1 .. n /\ ~(k <= k - 1)
    BY <2>3, <2>4
  <2>6. k - 1 \notin Bad
    BY <2>3, <2>5
  <2>7. PICK b \in Nat : Within(k - 1, b)
    BY <2>5, <2>6
  <2>8. PICK x \in Nat : x = f[k]
    BY <1>0, <2>5
  <2>9. PICK c \in Nat : b <= c /\ x <= c
    <3>1. b <= b + x /\ x <= b + x /\ b + x \in Nat
      OBVIOUS
    <3>. QED
      BY <3>1
  <2>10. Within(k, c)
    <3>. SUFFICES ASSUME NEW j \in 1 .. k PROVE f[j] <= c
      OBVIOUS
    <3>1. CASE j = k
      BY <2>8, <2>9, <3>1
    <3>2. CASE j # k
      <4>1. j \in 1 .. k - 1 /\ j \in 1 .. n
        BY <2>5, <3>2
      <4>2. PICK y \in Nat : y = f[j]
        BY <1>0, <4>1
      <4>3. y <= b
        BY <2>7, <4>1, <4>2
      <4>4. y <= c
        BY <2>9, <4>3
      <4>. QED
        BY <4>2, <4>4
    <3>. QED
      BY <3>1, <3>2
  <2>. QED
    BY <2>3, <2>10
<1>4. PICK b \in Nat : Within(n, b)
  <2>1. n \in 0 .. n
    OBVIOUS
  <2>2. n \notin Bad
    BY <1>3, Zenon
  <2>. QED
    BY <2>1, <2>2
<1>5. \A s \in S : s \in 0 .. b
  BY <1>2, <1>4
<1>. QED
  BY <1>5

(* The largest of a finite set of numbers. *)
LEMMA MaxOfFinite ==
  ASSUME NEW S \in SUBSET Nat, IsFiniteSet(S), S # {}
  PROVE  Max(S) \in S /\ \A y \in S : y <= Max(S)
<1>1. PICK b \in Nat : S \subseteq 0 .. b
  BY FiniteBounded
<1>. QED
  BY <1>1, MaxOfBounded

(* Max is the one element that none exceeds. *)
LEMMA MaxIs ==
  ASSUME NEW b \in Nat, NEW S \in SUBSET (0 .. b), NEW x \in S, \A y \in S : y <= x
  PROVE  Max(S) = x
<1>1. PICK m \in S : m = Max(S) /\ \A y \in S : y <= m
  <2>1. Max(S) \in S /\ \A y \in S : y <= Max(S)
    BY MaxOfBounded
  <2>. QED
    BY <2>1
<1>2. x <= m /\ m <= x
  BY <1>1
<1>3. x \in Nat /\ m \in Nat
  OBVIOUS
<1>. QED
  BY <1>1, <1>2, <1>3

-----------------------------------------------------------------------------
(* Snapshots. *)
LEMMA NumberedNodes ==
  ASSUME NEW L \in SUBSET Node, L # {}
  PROVE  Max(L) \in L /\ Max(L) \in Nat /\ Max(L) # NoLeader
<1>1. L \in SUBSET Nat /\ IsFiniteSet(L)
  BY StreamAssumption, FS_Subset
<1>2. Max(L) \in L
  BY <1>1, MaxOfFinite
<1>. QED
  BY <1>2, StreamAssumption DEF NoLeader

LEMMA SnapshotTypes ==
  ASSUME NEW v \in [Node -> View]
  PROVE  Snapshot(v) \in Summary
<1>. DEFINE L == {n \in Node : v[n].leads}
            T == {v[n].term : n \in Node}
            D == {n \in Node : ~v[n].reachable}
<1>1. (IF L = {} THEN NoLeader ELSE Max(L)) \in Nat
  BY NumberedNodes DEF NoLeader
<1>2. Max(T) \in 0 .. MaxTerm
  <2>1. T \in SUBSET (0 .. MaxTerm) /\ v[Observer].term \in T /\ MaxTerm \in Nat
    BY StreamAssumption DEF View
  <2>. HIDE DEF T
  <2>2. T # {}
    BY <2>1
  <2>. QED
    BY <2>1, <2>2, MaxOfBounded
<1>3. D \in SUBSET Node
  OBVIOUS
<1>. HIDE DEF L, T, D
<1>. QED
  BY <1>1, <1>2, <1>3 DEF Snapshot, Summary, L, T, D

(* A snapshot of exact answers says what is so. *)
LEMMA SnapshotOfExact ==
  ASSUME StreamTypes, serving[Observer] = "up", \A n \in Node : views[n] = Exact(n)
  PROVE  LET up == {n \in Node : serving[n] = "up"}
             L  == {n \in up : status[n].leads}
             s  == Snapshot(views)
         IN  /\ s.down = Node \ up
             /\ s.term = Max({status[n].term : n \in up})
             /\ s.leader \in L \cup {NoLeader}
             /\ s.leader = NoLeader <=> L = {}
<1>. DEFINE up == {n \in Node : serving[n] = "up"}
            L  == {n \in up : status[n].leads}
            T  == {views[n].term : n \in Node}
            U  == {status[n].term : n \in up}
            V  == {n \in Node : views[n].leads}
<1>1. \A n \in Node : status[n] \in Status /\ views[n] \in View
  BY DEF StreamTypes
<1>2. \A n \in up : /\ views[n].reachable = TRUE /\ views[n].leads = status[n].leads
                    /\ views[n].term = status[n].term
  <2>1. \A n \in up : views[n] = ViewOf(n)
    BY DEF Exact
  <2>2. \A n \in up : /\ ViewOf(n).reachable = TRUE /\ ViewOf(n).leads = status[n].leads
                      /\ ViewOf(n).term = status[n].term
    BY Zenon DEF ViewOf
  <2>. QED
    BY <2>1, <2>2, Zenon
<1>3. \A n \in Node \ up : /\ views[n].reachable = FALSE /\ views[n].leads = FALSE
                           /\ views[n].term = 0
  <2>1. Down.reachable = FALSE /\ Down.leads = FALSE /\ Down.term = 0
    BY DEF Down, Missing
  <2>2. \A n \in Node \ up : views[n] = Down
    BY DEF Exact
  <2>. QED
    BY <2>1, <2>2
<1>4. {n \in Node : ~views[n].reachable} = Node \ up
  BY <1>2, <1>3
<1>5. V = L
  BY <1>2, <1>3
<1>6. Max(T) = Max(U)
  <2>1. T \in SUBSET (0 .. MaxTerm) /\ U \in SUBSET (0 .. MaxTerm) /\ MaxTerm \in Nat
    BY <1>1, StreamAssumption DEF Status, View
  <2>2. Observer \in up /\ status[Observer].term \in U
    BY StreamAssumption
  <2>3. U \subseteq T
    BY <1>2
  <2>4. \A y \in T : y \in U \/ y = 0
    BY <1>2, <1>3
  <2>. HIDE DEF U, T
  <2>5. U # {}
    BY <2>2
  <2>6. PICK m \in U : m = Max(U) /\ \A y \in U : y <= m
    <3>1. Max(U) \in U /\ \A y \in U : y <= Max(U)
      BY <2>1, <2>5, MaxOfBounded
    <3>. QED
      BY <3>1
  <2>7. m \in T /\ m \in Nat
    BY <2>1, <2>3
  <2>8. \A y \in T : y <= m
    BY <2>4, <2>6, <2>7
  <2>. QED
    BY <2>1, <2>6, <2>7, <2>8, MaxIs
<1>7. LET l == IF V = {} THEN NoLeader ELSE Max(V)
      IN  l \in L \cup {NoLeader} /\ (l = NoLeader <=> L = {})
  BY <1>5, NumberedNodes
<1>. HIDE DEF T, U, V
<1>8. /\ Snapshot(views).down = {n \in Node : ~views[n].reachable}
      /\ Snapshot(views).term = Max(T)
      /\ Snapshot(views).leader = IF V = {} THEN NoLeader ELSE Max(V)
  BY DEF Snapshot, T, V
<1>. QED
  BY <1>4, <1>6, <1>7, <1>8 DEF U

LEMMA StreamInit == Init => StreamInv
<1>. SUFFICES ASSUME Init PROVE StreamInv
  OBVIOUS
<1>1. Missing \in View /\ [leads |-> FALSE, term |-> 0] \in Status /\ ~Missing.got
  BY StreamAssumption DEF Missing, View, Status
<1>2. StreamTypes /\ AnswersExact
  <2>. HIDE DEF Missing
  <2>. QED
    BY <1>1 DEF Init, StreamTypes, AnswersExact, NoViews
<1>. QED
  BY <1>2, StreamAssumption DEF Init, StreamInv, EventsTellAll, SnapshotTrue

(* A change in the cluster: no answer counts as exact any more. *)
LEMMA ClusterKeeps ==
  ASSUME StreamInv, NEW n \in Node, Elected(n) \/ Follows(n) \/ Fault(n)
  PROVE  StreamInv'
<1>1. ~steady' /\ steady' \in BOOLEAN /\ UNCHANGED <<views, prev, told>>
  BY DEF Elected, Follows, Fault
<1>2. status' \in [Node -> Status]
  <2>1. ASSUME NEW b \in BOOLEAN, NEW t \in 0 .. MaxTerm,
               status' = [status EXCEPT ![n] = [leads |-> b, term |-> t]]
        PROVE  status' \in [Node -> Status]
    <3>1. [leads |-> b, term |-> t] \in Status
      BY DEF Status
    <3>. QED
      BY <2>1, <3>1 DEF StreamInv, StreamTypes
  <2>2. status[n].term \in 0 .. MaxTerm
    BY DEF StreamInv, StreamTypes, Status
  <2>3. CASE Elected(n)
    <3>1. status[n] \in Status
      BY DEF StreamInv, StreamTypes
    <3>2. [status[n] EXCEPT !.leads = TRUE] \in Status
      BY <3>1 DEF Status
    <3>. QED
      BY <2>3, <3>2 DEF Elected, StreamInv, StreamTypes
  <2>4. CASE Follows(n)
    <3>1. PICK t \in status[n].term .. MaxTerm :
            status' = [status EXCEPT ![n] = [leads |-> FALSE, term |-> t]]
      BY <2>4 DEF Follows
    <3>2. t \in 0 .. MaxTerm
      BY <2>2, StreamAssumption
    <3>. QED
      BY <2>1, <3>1, <3>2
  <2>5. CASE Fault(n)
    BY <2>5 DEF Fault, StreamInv, StreamTypes
  <2>. QED
    BY <2>3, <2>4, <2>5
<1>3. serving' \in [Node -> {"up", "hung", "down"}] /\ serving'[Observer] = "up"
  BY StreamAssumption DEF Elected, Follows, Fault, StreamInv, StreamTypes
<1>. QED
  BY <1>1, <1>2, <1>3 DEF StreamInv, StreamTypes, EventsTellAll, AnswersExact, SnapshotTrue

(* A snapshot begins, and the answers come in or do not. *)
LEMMA ViewTypes ==
  ASSUME StreamTypes, NEW n \in Node
  PROVE  /\ ViewOf(n) \in View /\ Down \in View /\ Missing \in View
         /\ ViewOf(n).got /\ Down.got /\ ~Missing.got
<1>1. status[n] \in Status /\ 0 \in 0 .. MaxTerm
  BY StreamAssumption DEF StreamTypes
<1>2. ViewOf(n) \in View /\ ViewOf(n).got
  BY <1>1 DEF ViewOf, View, Status
<1>3. Missing \in View /\ ~Missing.got
  BY <1>1 DEF Missing, View
<1>4. Down \in View /\ Down.got
  BY <1>1 DEF Down, Missing, View
<1>. QED
  BY <1>2, <1>3, <1>4

LEMMA BeginKeeps ==
  ASSUME StreamInv, BeginSnapshot
  PROVE  StreamInv'
<1>0. Observer \in Node /\ StreamTypes
  BY StreamAssumption DEF StreamInv
<1>1. /\ views' = [NoViews EXCEPT ![Observer] = ViewOf(Observer)] /\ steady' = TRUE
      /\ UNCHANGED <<status, serving, faults, prev, told>>
  BY DEF BeginSnapshot
<1>2. /\ ViewOf(Observer) \in View /\ Missing \in View
      /\ ViewOf(Observer).got /\ ~Missing.got
  BY <1>0, ViewTypes
<1>3. /\ views' \in [Node -> View] /\ views'[Observer] = ViewOf(Observer)
      /\ \A n \in Node \ {Observer} : views'[n] = Missing
  BY <1>0, <1>1, <1>2 DEF NoViews
<1>4. StreamTypes' /\ serving'[Observer] = "up" /\ EventsTellAll'
  BY <1>1, <1>3 DEF StreamInv, StreamTypes, EventsTellAll
<1>5. ViewOf(Observer)' = ViewOf(Observer)
  BY <1>1 DEF ViewOf
<1>6. AnswersExact'
  BY <1>2, <1>3, <1>4, <1>5 DEF AnswersExact, Exact
<1>7. views' # NoViews
  BY <1>0, <1>2, <1>3 DEF NoViews
<1>8. SnapshotTrue'
  BY <1>7 DEF SnapshotTrue, NoViews
<1>. QED
  BY <1>4, <1>6, <1>8 DEF StreamInv

LEMMA FetchKeeps ==
  ASSUME StreamInv, NEW n \in Node, fetchNodeStatus(n) \/ FetchFails(n)
  PROVE  StreamInv'
<1>0. Observer \in Node /\ StreamTypes
  BY StreamAssumption DEF StreamInv
<1>1. /\ views[Observer].got /\ ~views[n].got
      /\ UNCHANGED <<status, serving, faults, prev, told>>
  BY DEF fetchNodeStatus, FetchFails, Pending
<1>2. PICK v \in View : /\ views' = [views EXCEPT ![n] = v]
                        /\ steady' \in BOOLEAN /\ (steady' => steady /\ v = Exact(n))
  <2>0. steady \in BOOLEAN /\ ViewOf(n) \in View /\ Down \in View
    BY <1>0, ViewTypes DEF StreamTypes
  <2>1. CASE fetchNodeStatus(n)
    <3>1. /\ views' = [views EXCEPT ![n] = ViewOf(n)] /\ steady' = steady
          /\ ViewOf(n) = Exact(n)
      BY <2>1 DEF fetchNodeStatus, Exact
    <3>. QED
      BY <2>0, <3>1, Zenon
  <2>2. CASE FetchFails(n)
    <3>1. views' = [views EXCEPT ![n] = Down] /\ steady' = (steady /\ serving[n] # "up")
      BY <2>2 DEF FetchFails
    <3>2. steady' => steady /\ Down = Exact(n)
      BY <3>1 DEF Exact
    <3>3. steady' \in BOOLEAN
      BY <3>1
    <3>. QED
      BY <2>0, <3>1, <3>2, <3>3, Zenon
  <2>. QED
    BY <2>1, <2>2
<1>3. /\ views' \in [Node -> View] /\ views'[n] = v
      /\ \A m \in Node \ {n} : views'[m] = views[m]
  BY <1>0, <1>2 DEF StreamTypes
<1>4. StreamTypes' /\ serving'[Observer] = "up" /\ EventsTellAll'
  BY <1>1, <1>2, <1>3 DEF StreamInv, StreamTypes, EventsTellAll
<1>5. \A m \in Node : Exact(m)' = Exact(m)
  BY <1>1 DEF Exact, ViewOf
<1>6. AnswersExact'
  BY <1>2, <1>3, <1>5 DEF AnswersExact, StreamInv
<1>7. views'[Observer].got /\ ~NoViews[Observer].got
  BY <1>0, <1>1, <1>3, ViewTypes DEF NoViews
<1>8. SnapshotTrue'
  BY <1>7 DEF SnapshotTrue, NoViews
<1>. QED
  BY <1>4, <1>6, <1>8 DEF StreamInv

(* The events say all that has changed between two snapshots. *)
LEMMA EventsTell ==
  ASSUME NEW a \in Summary, NEW b \in Summary, NEW t \in Summary,
         t.down = a.down, a.leader # NoLeader => t.leader = a.leader, t.term >= a.term
  PROVE  LET u == [leader |-> LeaderChange(a, b, t.leader),
                   term   |-> TermChange(a, b, t.term),
                   down   |-> NodeEvents(a, b, t.down)]
         IN  /\ u \in Summary /\ u.down = b.down /\ u.term >= b.term
             /\ b.leader # NoLeader => u.leader = b.leader
<1>1. a.down \in SUBSET Node /\ b.down \in SUBSET Node
  BY DEF Summary
<1>2. NodeEvents(a, b, t.down) = b.down
  BY <1>1 DEF NodeEvents
<1>3. a.term \in Nat /\ b.term \in Nat /\ t.term \in Nat
  BY DEF Summary
<1>4. TermChange(a, b, t.term) \in {b.term, t.term} /\ TermChange(a, b, t.term) >= b.term
  BY <1>3 DEF TermChange
<1>5. /\ LeaderChange(a, b, t.leader) \in {b.leader, t.leader}
      /\ b.leader # NoLeader => LeaderChange(a, b, t.leader) = b.leader
  BY DEF LeaderChange
<1>6. TermChange(a, b, t.term) \in 0 .. MaxTerm /\ LeaderChange(a, b, t.leader) \in Nat
  BY <1>4, <1>5 DEF Summary
<1>. QED
  BY <1>1, <1>2, <1>4, <1>5, <1>6 DEF Summary

LEMMA PublishKeeps ==
  ASSUME StreamInv, Publish
  PROVE  StreamInv'
<1>. DEFINE s == Snapshot(views)
<1>0. /\ StreamTypes /\ \A n \in Node : views[n].got
      /\ UNCHANGED <<status, serving, faults, steady>>
  BY DEF Publish, StreamInv
<1>1. s \in Summary
  BY <1>0, SnapshotTypes DEF StreamTypes
<1>2. /\ prev' = <<s>> /\ views' = NoViews
      /\ told' = IF prev = <<>> THEN <<s>>
                 ELSE <<[leader |-> LeaderChange(prev[1], s, told[1].leader),
                         term   |-> TermChange(prev[1], s, told[1].term),
                         down   |-> NodeEvents(prev[1], s, told[1].down)]>>
  BY DEF Publish
<1>3. views' \in [Node -> View] /\ \A n \in Node : ~views'[n].got
  BY <1>0, <1>2, ViewTypes DEF NoViews
<1>4. /\ told'[1] \in Summary /\ told'[1].down = s.down /\ told'[1].term >= s.term
      /\ s.leader # NoLeader => told'[1].leader = s.leader
  <2>. HIDE DEF s
  <2>1. CASE prev = <<>>
    BY <1>1, <1>2, <2>1 DEF Summary
  <2>2. CASE prev # <<>>
    <3>1. /\ prev[1] \in Summary /\ told[1] \in Summary
          /\ told[1].down = prev[1].down /\ told[1].term >= prev[1].term
          /\ prev[1].leader # NoLeader => told[1].leader = prev[1].leader
      BY <2>2 DEF StreamInv, StreamTypes, EventsTellAll
    <3>2. told'[1] = [leader |-> LeaderChange(prev[1], s, told[1].leader),
                      term   |-> TermChange(prev[1], s, told[1].term),
                      down   |-> NodeEvents(prev[1], s, told[1].down)]
      BY <1>2, <2>2
    <3>. QED
      BY <1>1, <3>1, <3>2, EventsTell
  <2>. QED
    BY <2>1, <2>2
<1>5. StreamTypes' /\ serving'[Observer] = "up" /\ EventsTellAll'
  <2>1. prev'[1] = s
    BY <1>2
  <2>. HIDE DEF s
  <2>. QED
    BY <1>0, <1>1, <1>3, <1>4, <2>1 DEF StreamInv, StreamTypes, EventsTellAll
<1>6. AnswersExact'
  BY <1>3 DEF AnswersExact
<1>7. SnapshotTrue'
  <2>. SUFFICES ASSUME steady PROVE SnapshotTrue'
    BY <1>0 DEF SnapshotTrue
  <2>1. \A n \in Node : views[n] = Exact(n)
    BY <1>0 DEF StreamInv, AnswersExact
  <2>2. serving[Observer] = "up"
    BY DEF StreamInv
  <2>3. prev'[1] = Snapshot(views)
    BY <1>2
  <2>. QED
    BY <1>0, <2>1, <2>2, <2>3, SnapshotOfExact DEF SnapshotTrue
<1>. QED
  BY <1>5, <1>6, <1>7 DEF StreamInv

LEMMA ReconnectKeeps ==
  ASSUME StreamInv, Reconnect
  PROVE  StreamInv'
<1>1. prev' = <<>> /\ UNCHANGED <<status, serving, faults, views, steady>>
  BY DEF Reconnect
<1>. QED
  BY <1>1 DEF StreamInv, StreamTypes, EventsTellAll, AnswersExact, Exact, ViewOf, SnapshotTrue

LEMMA StreamStep == StreamInv /\ [Next]_vars => StreamInv'
<1>. SUFFICES ASSUME StreamInv, [Next]_vars PROVE StreamInv'
  OBVIOUS
<1>1. CASE UNCHANGED vars
  BY <1>1 DEF vars, StreamInv, StreamTypes, EventsTellAll, AnswersExact, Exact, ViewOf,
              SnapshotTrue, NoViews
<1>. QED
  BY <1>1, ClusterKeeps, BeginKeeps, FetchKeeps, PublishKeeps, ReconnectKeeps DEF Next

(* HandleEvents compares each snapshot with the one before and sends what  *)
(* changed: who has followed the events knows which nodes are down, the    *)
(* leader if there is one, and a term that is not behind.                  *)
THEOREM EventsSayAll == Spec => []EventsTellAll
<1>1. StreamInv => EventsTellAll
  BY DEF StreamInv
<1>. QED
  BY <1>1, StreamInit, StreamStep, PTL DEF Spec

(* fetchClusterSnapshot collects answers given at different moments: if    *)
(* nothing changed meanwhile and nobody was late, they add up to what is   *)
(* so, and a leader is shown when and only when a node it reached leads.   *)
THEOREM SteadySnapshotsTrue == Spec => []SnapshotTrue
<1>1. StreamInv => SnapshotTrue
  BY DEF StreamInv
<1>. QED
  BY <1>1, StreamInit, StreamStep, PTL DEF Spec
=============================================================================

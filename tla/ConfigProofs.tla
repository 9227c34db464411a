---------------------------- MODULE ConfigProofs ----------------------------
(***************************************************************************)
(* The timings of module ConfigAPI, for any number of nodes and orders,    *)
(* any timings that users ask for and any width of a duration: no interval *)
(* that would panic, a ticker that follows the configuration unless two    *)
(* updates overlapped, and orders that hold when every server has          *)
(* confirmed them.                                                         *)
(***************************************************************************)
EXTENDS ConfigAPI, TLAPS

Positive == Nat \ {0}
Setting  == [et : Positive, hb : Positive]
Steps    == {"none", "set", "send", "drain", "resend", "read", "done"}
Sending  == {"send", "drain", "resend"}
Calls    == [step : Steps, node : Node \cup {"none"}, et : Int, hb : Int]
Answers  == [kind : {"none", "pending", "ok", "error"}, et : Int, hb : Int]
Orders   == [kind : {"get", "post"}, et : Int, hb : Int, quiet : BOOLEAN,
             before : [Node -> Setting], answer : [Node -> Answers]]

(* Types, and what they owe to the tests of UpdateTimings: the interval    *)
(* that a call is about to send is positive.                               *)
TimingTypes ==
  /\ config \in [Node -> Setting]
  /\ ticker \in [Node -> Positive]
  /\ timingUpdateCh \in [Node -> Seq(Positive)]
  /\ update \in [Update -> Calls]
  /\ \A u \in Update : /\ update[u].step \in {"none", "done"}
                            <=> update[u].node = "none"
                       /\ update[u].step \in Sending => update[u].hb \in Positive

OrderTypes == orders \in Seq(Orders) /\ Len(orders) <= MaxOrders

(* The interval that run() has, or will have when it has received. *)
Latest(n) == IF timingUpdateCh[n] = <<>> THEN ticker[n] ELSE Head(timingUpdateCh[n])

(* Where no updates overlapped there is one at a time; the interval of the *)
(* configuration is with run() or in its channel, or it is what the one    *)
(* update is about to send.                                                *)
Handed(n) ==
  n \notin overlapped =>
    /\ \A u, w \in UnderWay(n) : u = w
    /\ \A u \in UnderWay(n) : update[u].step \in Sending => update[u].hb = config[n].hb
    /\ (\A u \in UnderWay(n) : update[u].step \notin Sending) => Latest(n) = config[n].hb

TimingInv == TimingTypes /\ OrderTypes /\ \A n \in Node : Handed(n)

-----------------------------------------------------------------------------

LEMMA ConstantTypes ==
  /\ Initial \in Setting /\ "none" \notin Node
  /\ \A ms \in Int : Duration(ms) \in Int
  /\ \A d \in Int : Milliseconds(d) \in Int
<1>1. Initial \in Setting /\ "none" \notin Node
  BY TimingsAssumption DEF Setting, Positive
<1>2. Milli \in Nat \ {0} /\ Word \in Nat \ {0}
  BY ConfigAssumption
<1>3. ASSUME NEW ms \in Int PROVE Duration(ms) \in Int
  <2>1. ms * Milli + Word \div 2 \in Int /\ Word \div 2 \in Int
    BY <1>2
  <2>2. (ms * Milli + Word \div 2) % Word \in Int
    BY <1>2, <2>1
  <2>. QED
    BY <2>1, <2>2 DEF Duration
<1>4. ASSUME NEW d \in Int PROVE Milliseconds(d) \in Int
  BY <1>2 DEF Milliseconds
<1>. QED
  BY <1>1, <1>3, <1>4

LEMMA InitiallyHanded == Init => TimingInv
<1>. SUFFICES ASSUME Init PROVE TimingInv
  OBVIOUS
<1>. USE DEF Init, TimingsInit, NotCalled
<1>1. TimingTypes
  <2>1. Initial \in Setting /\ Initial.hb \in Positive
    BY ConstantTypes DEF Setting
  <2>2. NotCalled \in Calls /\ NotCalled.step = "none" /\ NotCalled.node = "none"
    BY DEF Calls, Steps
  <2>3. <<>> \in Seq(Positive)
    OBVIOUS
  <2>. HIDE DEF NotCalled
  <2>. QED
    BY <2>1, <2>2, <2>3 DEF TimingTypes, Sending
<1>2. OrderTypes
  BY ConfigAssumption DEF OrderTypes
<1>3. ASSUME NEW n \in Node PROVE Handed(n)
  BY ConstantTypes DEF Handed, UnderWay, Latest, Sending
<1>. QED
  BY <1>1, <1>2, <1>3 DEF TimingInv

-----------------------------------------------------------------------------
(* A call at step "set" or later is of the node in its record. *)
LEMMA NodeOfCall ==
  ASSUME TimingTypes, NEW u \in Update, update[u].step \notin {"none", "done"}
  PROVE  update[u].node \in Node
BY DEF TimingTypes, Calls

LEMMA SetConfigKept ==
  ASSUME TimingTypes, \A n \in Node : Handed(n), NEW u \in Update, SetConfig(u)
  PROVE  TimingTypes' /\ \A n \in Node : Handed(n)'
<1>. DEFINE n == update[u].node
            c == [et |-> IF update[u].et > 0 THEN update[u].et ELSE config[n].et,
                  hb |-> IF update[u].hb > 0 THEN update[u].hb ELSE config[n].hb]
<1>1. /\ update[u].step = "set"
      /\ config' = [config EXCEPT ![n] = c]
      /\ update' = [update EXCEPT ![u].step = "send", ![u].hb = c.hb]
      /\ UNCHANGED <<ticker, timingUpdateCh, running, overlapped>>
  BY DEF SetConfig, At
<1>2. n \in Node
  BY <1>1, NodeOfCall
<1>3. config[n] \in Setting /\ update[u] \in Calls
  BY <1>2 DEF TimingTypes
<1>4. c \in Setting
  BY <1>3 DEF Setting, Calls, Positive
<1>5. c.hb \in Positive
  BY <1>4 DEF Setting
<1>. HIDE DEF c, n
<1>6. /\ update'[u].step = "send" /\ update'[u].node = n /\ update'[u].hb = c.hb
      /\ update'[u].et = update[u].et
      /\ \A w \in Update \ {u} : update'[w] = update[w]
      /\ update' \in [Update -> Calls]
  <2>1. update'[u] = [update[u] EXCEPT !.step = "send", !.hb = c.hb]
    BY <1>1 DEF TimingTypes
  <2>2. \A w \in Update \ {u} : update'[w] = update[w]
    BY <1>1 DEF TimingTypes
  <2>3. c.hb \in Int /\ "send" \in Steps
    BY <1>5 DEF Positive, Steps
  <2>4. update'[u] \in Calls
    BY <1>3, <2>1, <2>3 DEF Calls
  <2>5. update' \in [Update -> Calls]
    BY <1>1, <2>2, <2>4 DEF TimingTypes
  <2>. QED
    BY <1>3, <2>1, <2>2, <2>5 DEF Calls, n
<1>7. TimingTypes'
  BY <1>1, <1>2, <1>4, <1>5, <1>6, ConstantTypes DEF TimingTypes, Sending
<1>8. ASSUME NEW m \in Node PROVE Handed(m)'
  <2>1. UnderWay(m)' = UnderWay(m)
    BY <1>6 DEF UnderWay, n
  <2>2. Latest(m)' = Latest(m)
    BY <1>1 DEF Latest
  <2>3. CASE m = n
    <3>1. config'[m].hb = c.hb
      BY <1>1, <1>2, <2>3 DEF TimingTypes
    <3>. QED
      BY <1>1, <1>6, <2>1, <2>2, <2>3, <3>1 DEF Handed, UnderWay, Sending, n
  <2>4. CASE m # n
    <3>1. config'[m] = config[m] /\ u \notin UnderWay(m)
      BY <1>1, <2>4 DEF TimingTypes, UnderWay, n
    <3>. QED
      BY <1>1, <1>6, <2>1, <2>2, <3>1 DEF Handed, UnderWay
  <2>. QED
    BY <2>3, <2>4
<1>. QED
  BY <1>7, <1>8

(* What moving a call on to another step changes. *)
LEMMA GotoMoves ==
  ASSUME TimingTypes, NEW u \in Update, NEW s \in Steps, Goto(u, s)
  PROVE  /\ update' \in [Update -> Calls]
         /\ update'[u].step = s /\ update'[u].node = update[u].node
         /\ update'[u].hb = update[u].hb
         /\ \A w \in Update \ {u} : update'[w] = update[w]
<1>1. update'[u] = [update[u] EXCEPT !.step = s] /\ update[u] \in Calls
  BY DEF Goto, TimingTypes
<1>2. \A w \in Update \ {u} : update'[w] = update[w]
  BY DEF Goto, TimingTypes
<1>3. update'[u] \in Calls
  BY <1>1 DEF Calls
<1>4. update' \in [Update -> Calls]
  BY <1>2, <1>3 DEF Goto, TimingTypes
<1>. QED
  BY <1>1, <1>2, <1>4 DEF Calls

(* A step of a call for node n does nothing to another node. *)
LEMMA ElsewhereKept ==
  ASSUME TimingTypes, NEW u \in Update, NEW n \in Node, NEW m \in Node, m # n, Handed(m),
         update[u].node \in {n, "none"}, update'[u].node \in {n, "none"},
         \A w \in Update \ {u} : update'[w] = update[w],
         config'[m] = config[m], ticker'[m] = ticker[m],
         timingUpdateCh'[m] = timingUpdateCh[m], m \in overlapped' <=> m \in overlapped
  PROVE  Handed(m)'
<1>1. u \notin UnderWay(m) /\ u \notin UnderWay(m)'
  BY ConstantTypes DEF UnderWay
<1>2. UnderWay(m)' = UnderWay(m) /\ \A w \in UnderWay(m) : update'[w] = update[w]
  BY <1>1 DEF UnderWay
<1>3. Latest(m)' = Latest(m)
  BY DEF Latest
<1>. QED
  BY <1>2, <1>3 DEF Handed

(* The interval is in the channel: Send into an empty one, and Resend. *)
LEMMA SentKept ==
  ASSUME TimingTypes, \A n \in Node : Handed(n), NEW u \in Update,
         update[u].step \in Sending, Goto(u, "read"),
         timingUpdateCh' = [timingUpdateCh EXCEPT ![update[u].node] = <<update[u].hb>>],
         UNCHANGED <<config, ticker, running, overlapped>>
  PROVE  TimingTypes' /\ \A n \in Node : Handed(n)'
<1>. DEFINE n == update[u].node
<1>1. n \in Node
  BY NodeOfCall DEF Sending
<1>2. update[u].hb \in Positive
  BY DEF TimingTypes
<1>3. /\ update' \in [Update -> Calls]
      /\ update'[u].step = "read" /\ update'[u].node = n
      /\ \A w \in Update \ {u} : update'[w] = update[w]
  BY GotoMoves DEF Steps
<1>4. timingUpdateCh'[n] = <<update[u].hb>>
  BY <1>1 DEF TimingTypes
<1>5. timingUpdateCh' \in [Node -> Seq(Positive)]
  <2>1. <<update[u].hb>> \in Seq(Positive)
    BY <1>2
  <2>. QED
    BY <2>1, <1>1 DEF TimingTypes
<1>6. TimingTypes'
  BY <1>1, <1>3, <1>5, ConstantTypes DEF TimingTypes, Sending
<1>7. ASSUME NEW m \in Node PROVE Handed(m)'
  <2>1. CASE m = n
    <3>1. Latest(m)' = update[u].hb
      <4>1. <<update[u].hb>> # <<>> /\ Head(<<update[u].hb>>) = update[u].hb
        BY <1>2
      <4>. QED
        BY <1>4, <2>1, <4>1 DEF Latest
    <3>2. UnderWay(m)' = UnderWay(m) /\ u \in UnderWay(m)
      BY <1>3, <2>1 DEF UnderWay
    <3>. SUFFICES ASSUME m \notin overlapped
                  PROVE  /\ \A v, w \in UnderWay(m) : v = w
                         /\ update'[u].step \notin Sending
                         /\ update[u].hb = config[m].hb
      BY <3>1, <3>2 DEF Handed
    <3>. QED
      BY <1>3, <3>2 DEF Handed, Sending
  <2>2. CASE m # n
    BY <1>1, <1>3, <2>2, ElsewhereKept DEF TimingTypes
  <2>. QED
    BY <2>1, <2>2
<1>. QED
  BY <1>6, <1>7

(* The channel has been found full, or has been emptied: the call is still *)
(* about to send.                                                          *)
LEMMA StillSendingKept ==
  ASSUME TimingTypes, \A n \in Node : Handed(n), NEW u \in Update, NEW s \in Sending,
         update[u].step \in Sending, Goto(u, s),
         \/ UNCHANGED timingUpdateCh
         \/ timingUpdateCh' = [timingUpdateCh EXCEPT ![update[u].node] = <<>>],
         UNCHANGED <<config, ticker, running, overlapped>>
  PROVE  TimingTypes' /\ \A n \in Node : Handed(n)'
<1>. DEFINE n == update[u].node
<1>1. n \in Node
  BY NodeOfCall DEF Sending
<1>2. update[u].hb \in Positive
  BY DEF TimingTypes
<1>3. /\ update' \in [Update -> Calls]
      /\ update'[u].step = s /\ update'[u].node = n /\ update'[u].hb = update[u].hb
      /\ \A w \in Update \ {u} : update'[w] = update[w]
  BY GotoMoves DEF Steps, Sending
<1>4. timingUpdateCh' \in [Node -> Seq(Positive)]
  <2>1. <<>> \in Seq(Positive)
    OBVIOUS
  <2>. QED
    BY <2>1, <1>1 DEF TimingTypes
<1>5. TimingTypes'
  BY <1>1, <1>2, <1>3, <1>4, ConstantTypes DEF TimingTypes, Sending
<1>6. ASSUME NEW m \in Node PROVE Handed(m)'
  <2>1. CASE m = n
    <3>1. UnderWay(m)' = UnderWay(m) /\ u \in UnderWay(m)
      BY <1>3, <2>1 DEF UnderWay
    <3>. QED
      BY <1>3, <3>1 DEF Handed
  <2>2. CASE m # n
    BY <1>1, <1>3, <2>2, ElsewhereKept DEF TimingTypes
  <2>. QED
    BY <2>1, <2>2
<1>. QED
  BY <1>5, <1>6

LEMMA UpdateTimingsKept ==
  ASSUME TimingTypes, \A n \in Node : Handed(n), NEW u \in Update, UpdateTimings(u)
  PROVE  TimingTypes' /\ \A n \in Node : Handed(n)'
<1>1. CASE SetConfig(u)
  BY <1>1, SetConfigKept
<1>2. CASE Send(u)
  <2>1. CASE timingUpdateCh[update[u].node] = <<>>
    BY <1>2, <2>1, SentKept DEF Send, At, Sending
  <2>2. CASE timingUpdateCh[update[u].node] # <<>>
    <3>1. Goto(u, "drain") /\ update[u].step \in Sending /\ "drain" \in Sending
      BY <1>2, <2>2 DEF Send, At, Sending
    <3>. QED
      BY <1>2, <2>2, <3>1, StillSendingKept DEF Send
  <2>. QED
    BY <2>1, <2>2
<1>3. CASE Drain(u)
  <2>1. Goto(u, "resend") /\ update[u].step \in Sending /\ "resend" \in Sending
    BY <1>3 DEF Drain, At, Sending
  <2>. QED
    BY <1>3, <2>1, StillSendingKept DEF Drain
<1>4. CASE Resend(u)
  BY <1>4, SentKept DEF Resend, At, Sending
<1>. QED
  BY <1>1, <1>2, <1>3, <1>4 DEF UpdateTimings

LEMMA ReceiveKept ==
  ASSUME TimingTypes, \A n \in Node : Handed(n), NEW n \in Node, Receive(n)
  PROVE  TimingTypes' /\ \A m \in Node : Handed(m)'
<1>1. Head(timingUpdateCh[n]) \in Positive /\ <<>> \in Seq(Positive)
  BY DEF Receive, TimingTypes
<1>2. TimingTypes'
  BY <1>1 DEF Receive, TimingTypes
<1>3. ASSUME NEW m \in Node PROVE Handed(m)'
  <2>1. Latest(m)' = Latest(m)
    BY DEF Receive, TimingTypes, Latest
  <2>2. UNCHANGED <<config, update, overlapped>>
    BY DEF Receive
  <2>. QED
    BY <2>1, <2>2 DEF Handed, UnderWay
<1>. QED
  BY <1>2, <1>3

(* Where two calls meet, the node counts as overlapped from then on. *)
LEMMA CallKept ==
  ASSUME TimingTypes, \A m \in Node : Handed(m), NEW u \in Update, NEW n \in Node,
         NEW et \in Int, NEW hb \in Int, update[u].step = "none", Call(u, n, et, hb)
  PROVE  TimingTypes' /\ \A m \in Node : Handed(m)'
<1>. DEFINE call == [step |-> "set", node |-> n, et |-> et, hb |-> hb]
<1>1. call \in Calls /\ call.step = "set" /\ call.node = n
  BY DEF Calls, Steps
<1>2. /\ update' \in [Update -> Calls] /\ update'[u] = call
      /\ \A w \in Update \ {u} : update'[w] = update[w]
  BY <1>1 DEF Call, TimingTypes
<1>. HIDE DEF call
<1>3. update[u].node = "none"
  BY DEF TimingTypes
<1>4. TimingTypes'
  BY <1>1, <1>2, ConstantTypes DEF Call, TimingTypes, Sending
<1>5. ASSUME NEW m \in Node PROVE Handed(m)'
  <2>1. CASE m = n
    <3>. SUFFICES ASSUME m \notin overlapped' PROVE Handed(m)'
      BY DEF Handed
    <3>1. UnderWay(m) = {} /\ m \notin overlapped
      BY <2>1 DEF Call
    <3>2. UnderWay(m)' = {u}
      BY <1>1, <1>2, <2>1, <3>1 DEF UnderWay
    <3>3. Latest(m) = config[m].hb
      BY <3>1 DEF Handed
    <3>4. Latest(m)' = config'[m].hb
      BY <3>3 DEF Latest, Call
    <3>. QED
      BY <1>1, <1>2, <3>2, <3>4 DEF Handed, Sending
  <2>2. CASE m # n
    BY <1>1, <1>2, <1>3, <2>2, ElsewhereKept DEF Call
  <2>. QED
    BY <2>1, <2>2
<1>. QED
  BY <1>4, <1>5

LEMMA FinishKept ==
  ASSUME TimingTypes, \A m \in Node : Handed(m), NEW u \in Update,
         update[u].step = "read", update' = [update EXCEPT ![u] = Returned],
         UNCHANGED <<config, ticker, timingUpdateCh, running, overlapped>>
  PROVE  TimingTypes' /\ \A m \in Node : Handed(m)'
<1>. DEFINE n == update[u].node
<1>1. n \in Node
  BY NodeOfCall
<1>2. Returned \in Calls /\ Returned.step = "done" /\ Returned.node = "none"
  BY DEF Returned, NotCalled, Calls, Steps
<1>3. /\ update' \in [Update -> Calls] /\ update'[u] = Returned
      /\ \A w \in Update \ {u} : update'[w] = update[w]
  BY <1>2 DEF TimingTypes
<1>4. TimingTypes'
  BY <1>2, <1>3 DEF TimingTypes, Sending
<1>5. ASSUME NEW m \in Node PROVE Handed(m)'
  <2>1. CASE m = n
    <3>. SUFFICES ASSUME m \notin overlapped PROVE Handed(m)'
      BY DEF Handed
    <3>1. u \in UnderWay(m)
      BY <2>1 DEF UnderWay
    <3>2. UnderWay(m) = {u}
      BY <3>1 DEF Handed
    <3>3. UnderWay(m)' = {}
      BY <1>2, <1>3, <3>2, ConstantTypes DEF UnderWay
    <3>4. Latest(m) = config[m].hb
      BY <3>2 DEF Handed, Sending
    <3>5. Latest(m)' = config'[m].hb
      BY <3>4 DEF Latest
    <3>. QED
      BY <3>3, <3>5 DEF Handed
  <2>2. CASE m # n
    BY <1>1, <1>2, <1>3, <2>2, ElsewhereKept
  <2>. QED
    BY <2>1, <2>2
<1>. QED
  BY <1>4, <1>5

-----------------------------------------------------------------------------
(* The orders keep their types: what the timings are made from are         *)
(* integers.                                                               *)
LEMMA GiveKept ==
  ASSUME TimingTypes, OrderTypes, NEW kind \in {"get", "post"},
         NEW et \in Int, NEW hb \in Int, NEW S, Give(kind, et, hb, S)
  PROVE  OrderTypes'
<1>. DEFINE before == IF Settled THEN config ELSE [n \in Node |-> Initial]
            answer == [n \in Node |-> IF n \in S THEN NoAnswer ELSE NotAsked]
            o == [kind |-> kind, et |-> et, hb |-> hb, quiet |-> Settled,
                  before |-> before, answer |-> answer]
<1>1. before \in [Node -> Setting]
  BY ConstantTypes DEF TimingTypes
<1>2. answer \in [Node -> Answers]
  BY DEF NoAnswer, NotAsked, Answers
<1>3. Settled \in BOOLEAN
  BY Zenon DEF Settled
<1>4. orders' = Append(orders, o) /\ Len(orders) < MaxOrders
  BY DEF Give
<1>. HIDE DEF before, answer
<1>5. o \in Orders
  BY <1>1, <1>2, <1>3 DEF Orders
<1>. HIDE DEF o
<1>. QED
  BY <1>4, <1>5, ConfigAssumption DEF OrderTypes

LEMMA AnswerKept ==
  ASSUME OrderTypes, NEW i \in DOMAIN orders, NEW n \in Node, NEW a \in Answers,
         orders' = [orders EXCEPT ![i].answer[n] = a]
  PROVE  OrderTypes'
<1>. DEFINE o == [orders[i] EXCEPT !.answer[n] = a]
<1>1. orders[i] \in Orders
  BY DEF OrderTypes
<1>2. [orders[i].answer EXCEPT ![n] = a] \in [Node -> Answers]
  BY <1>1 DEF Orders
<1>3. o \in Orders
  BY <1>1, <1>2 DEF Orders
<1>4. orders' = [orders EXCEPT ![i] = o]
  OBVIOUS
<1>. HIDE DEF o
<1>. QED
  BY <1>3, <1>4 DEF OrderTypes

LEMMA AnsweredKept ==
  ASSUME TimingTypes, OrderTypes, NEW i \in DOMAIN orders, NEW n \in Node, Answer(i, n)
  PROVE  OrderTypes'
<1>1. CASE UNCHANGED orders
  BY <1>1 DEF OrderTypes
<1>2. CASE orders' = [orders EXCEPT ![i].answer[n] = Timings(config[n])]
  <2>1. config[n].et \in Int /\ config[n].hb \in Int
    BY DEF TimingTypes, Setting, Positive
  <2>2. Timings(config[n]) \in Answers
    BY <2>1, ConstantTypes DEF Timings, Answers
  <2>. QED
    BY <1>2, <2>2, AnswerKept
<1>. QED
  BY <1>1, <1>2 DEF Answer

LEMMA ShareInUpdate ==
  ASSUME OrderTypes, NEW i \in DOMAIN orders, NEW n \in Node
  PROVE  <<i, n>> \in Update /\ orders[i] \in Orders
<1>1. i \in 1 .. MaxOrders /\ orders[i] \in Orders
  BY ConfigAssumption DEF OrderTypes
<1>. QED
  BY <1>1, ConfigAssumption

LEMMA TimingsUntouched ==
  ASSUME TimingTypes, \A n \in Node : Handed(n), UNCHANGED timingVars
  PROVE  TimingTypes' /\ \A n \in Node : Handed(n)'
BY DEF timingVars, TimingTypes, Handed, UnderWay, Latest

LEMMA BeginKept ==
  ASSUME TimingInv, NEW i \in DOMAIN orders, NEW n \in Node, Begin(i, n)
  PROVE  TimingInv'
<1>1. <<i, n>> \in Update /\ orders[i] \in Orders
  BY ShareInUpdate DEF TimingInv
<1>2. Duration(orders[i].et) \in Int /\ Duration(orders[i].hb) \in Int
  BY <1>1, ConstantTypes DEF Orders
<1>3. TimingTypes' /\ \A m \in Node : Handed(m)'
  BY <1>1, <1>2, CallKept DEF Begin, At, TimingInv
<1>4. OrderTypes'
  BY DEF Begin, TimingInv, OrderTypes
<1>. QED
  BY <1>3, <1>4 DEF TimingInv

(* What users may send. *)
LEMMA GivenIs ==
  ASSUME fanOutGet \/ fanOutPost \/ \E n \in Node : handleNodeConfig(n)
  PROVE  \E kind \in {"get", "post"}, et \in Int, hb \in Int, S \in SUBSET Node :
           Give(kind, et, hb, S) /\ (kind = "get" => et = 0 /\ hb = 0)
<1>0. ASSUME NEW S \in SUBSET Node, Give("get", 0, 0, S)
      PROVE  \E kind \in {"get", "post"}, et \in Int, hb \in Int, U \in SUBSET Node :
               Give(kind, et, hb, U) /\ (kind = "get" => et = 0 /\ hb = 0)
  <2>1. 0 \in Int
    OBVIOUS
  <2>. QED
    BY <1>0, <2>1, Zenon
<1>1. CASE fanOutGet \/ \E n \in Node : Give("get", 0, 0, {n})
  BY <1>0, <1>1 DEF fanOutGet
<1>2. ASSUME NEW S \in SUBSET Node, NEW t \in Asked, Give("post", t.et, t.hb, S)
      PROVE  \E kind \in {"get", "post"}, et \in Int, hb \in Int, U \in SUBSET Node :
               Give(kind, et, hb, U) /\ (kind = "get" => et = 0 /\ hb = 0)
  <2>1. t.et \in Int /\ t.hb \in Int /\ "post" # "get"
    BY ConfigAssumption
  <2>. QED
    BY <1>2, <2>1
<1>3. CASE fanOutPost
  BY <1>2, <1>3 DEF fanOutPost
<1>4. CASE \E n \in Node, t \in Asked : Give("post", t.et, t.hb, {n})
  BY <1>2, <1>4
<1>. QED
  BY <1>1, <1>3, <1>4 DEF handleNodeConfig

LEMMA NextKeeps == TimingInv /\ [Next]_vars => TimingInv'
<1>. SUFFICES ASSUME TimingInv, [Next]_vars PROVE TimingInv'
  OBVIOUS
<1>0. TimingTypes /\ OrderTypes /\ \A n \in Node : Handed(n)
  BY DEF TimingInv
<1>1. CASE fanOutGet \/ fanOutPost \/ \E n \in Node : handleNodeConfig(n)
  <2>1. PICK kind \in {"get", "post"}, et \in Int, hb \in Int, S \in SUBSET Node :
          Give(kind, et, hb, S)
    BY <1>1, GivenIs
  <2>2. UNCHANGED timingVars
    BY <2>1 DEF Give
  <2>. QED
    BY <1>0, <2>1, <2>2, GiveKept, TimingsUntouched DEF TimingInv
<1>2. CASE Internal
  <2>1. OrderTypes'
    BY <1>0, <1>2 DEF Internal, OrderTypes
  <2>2. CASE \E u \in Update : UpdateTimings(u)
    BY <1>0, <2>1, <2>2, UpdateTimingsKept DEF TimingInv
  <2>3. ASSUME NEW n \in Node, Receive(n) PROVE TimingInv'
    BY <1>0, <2>1, <2>3, ReceiveKept DEF TimingInv
  <2>4. ASSUME NEW n \in Node, Stop(n) PROVE TimingInv'
    BY <1>0, <2>1, <2>4 DEF Stop, TimingInv, TimingTypes, Handed, UnderWay, Latest
  <2>. QED
    BY <1>2, <2>2, <2>3, <2>4 DEF Internal
<1>3. ASSUME NEW i \in DOMAIN orders, NEW n \in Node, Work(i, n) PROVE TimingInv'
  <2>1. CASE Begin(i, n)
    BY <2>1, BeginKept
  <2>2. CASE Finish(i, n)
    <3>1. TimingTypes' /\ \A m \in Node : Handed(m)'
      BY <1>0, <2>2, ShareInUpdate, FinishKept DEF Finish, At
    <3>. QED
      BY <1>0, <2>2, <3>1, AnsweredKept DEF Finish, TimingInv
  <2>3. CASE GetTimings(i, n)
    BY <1>0, <2>3, AnsweredKept, TimingsUntouched DEF GetTimings, TimingInv
  <2>. QED
    BY <1>3, <2>1, <2>2, <2>3 DEF Work
<1>4. ASSUME NEW i \in DOMAIN orders, NEW n \in Node, GiveUp(i, n) PROVE TimingInv'
  <2>1. Failed \in Answers
    BY DEF Failed, Answers
  <2>. QED
    BY <1>0, <1>4, <2>1, AnswerKept, TimingsUntouched DEF GiveUp, TimingInv
<1>5. CASE UNCHANGED vars
  BY <1>0, <1>5, TimingsUntouched DEF vars, TimingInv, OrderTypes
<1>. QED
  BY <1>1, <1>2, <1>3, <1>4, <1>5 DEF Next

-----------------------------------------------------------------------------
(* Whatever users ask for, in whatever order the calls of UpdateTimings    *)
(* run: the configuration, the ticker of run() and the interval on its way *)
(* to it are never what NewTicker and rand.Int63n panic on.                *)
THEOREM AlwaysPositive == Spec => []TimingsPositive
<1>1. TimingInv => TimingsPositive
  <2>. SUFFICES ASSUME TimingInv, NEW n \in Node
                PROVE  /\ config[n].et > 0 /\ config[n].hb > 0 /\ ticker[n] > 0
                       /\ \A j \in DOMAIN timingUpdateCh[n] : timingUpdateCh[n][j] > 0
    BY DEF TimingsPositive
  <2>1. config[n] \in Setting /\ ticker[n] \in Positive
        /\ timingUpdateCh[n] \in Seq(Positive)
    BY DEF TimingInv, TimingTypes
  <2>. QED
    BY <2>1 DEF Setting, Positive
<1>. QED
  BY <1>1, InitiallyHanded, NextKeeps, PTL DEF Spec

(* UpdateTimings hands run() the interval it has set, through a channel    *)
(* that may hold a stale one: a node whose updates never overlapped ticks  *)
(* with the interval of its configuration when they are done.              *)
THEOREM AlwaysFollows == Spec => []TickerFollows
<1>1. Spec => [](running \subseteq Node)
  <2>1. Init => running \subseteq Node
    BY DEF Init, TimingsInit
  <2>2. running \subseteq Node /\ [Next]_vars => (running \subseteq Node)'
    BY DEF Next, vars, timingVars, fanOutGet, fanOutPost, handleNodeConfig, Give, Internal,
           UpdateTimings, SetConfig, Send, Drain, Resend, Receive, Stop, Work, Begin, Call, Finish,
           GetTimings, GiveUp
  <2>. QED
    BY <2>1, <2>2, PTL DEF Spec
<1>2. running \subseteq Node /\ TimingInv => TickerFollows
  BY DEF TimingInv, Handed, Latest, TickerFollows
<1>. QED
  BY <1>1, <1>2, InitiallyHanded, NextKeeps, PTL DEF Spec

-----------------------------------------------------------------------------
(* Milliseconds that fit become a duration and are read back as they were. *)
LEMMA ProductDivided ==
  ASSUME NEW x \in Nat, NEW m \in Nat \ {0}
  PROVE  (x * m) \div m = x
<1>. DEFINE q == (x * m) \div m
<1>1. x * m \in Nat
  OBVIOUS
<1>2. q \in Nat /\ m * q <= x * m /\ x * m < m * q + m
  BY <1>1
<1>. HIDE DEF q
<1>3. ~ q < x
  <2>. SUFFICES ASSUME q + 1 <= x PROVE FALSE
    BY <1>2
  <2>1. m * (q + 1) <= x * m
    BY <1>2
  <2>. QED
    BY <1>2, <2>1
<1>4. ~ x < q
  <2>. SUFFICES ASSUME x + 1 <= q PROVE FALSE
    BY <1>2
  <2>1. (x + 1) * m <= m * q
    BY <1>2
  <2>. QED
    BY <1>2, <2>1
<1>. QED
  BY <1>2, <1>3, <1>4 DEF q

LEMMA Remainder ==
  ASSUME NEW w \in Nat \ {0}, NEW x \in Int, 0 <= x, x < w
  PROVE  x % w = x
OBVIOUS

LEMMA HalfWord ==
  ASSUME NEW h, h = Word \div 2
  PROVE  h \in Nat /\ h < Word /\ Word = h + h
BY ConfigAssumption

LEMMA DurationFits ==
  ASSUME NEW ms \in Int, Fits(ms)
  PROVE  Duration(ms) = ms * Milli
<1>1. PICK h : h = Word \div 2
  OBVIOUS
<1>2. h \in Nat /\ h < Word /\ Word = h + h /\ Word \in Nat \ {0}
  BY <1>1, HalfWord, ConfigAssumption
<1>3. PICK p : p = ms * Milli
  OBVIOUS
<1>4. p \in Int
  BY <1>3, ConfigAssumption
<1>5. -h <= p /\ p <= h - 1
  BY <1>1, <1>2, <1>3, <1>4 DEF Fits
<1>6. p + h \in Int /\ 0 <= p + h /\ p + h < Word
  BY <1>2, <1>4, <1>5
<1>7. (p + h) % Word = p + h
  BY <1>2, <1>6, Remainder
<1>8. (p + h) - h = p
  BY <1>2, <1>4
<1>. QED
  BY <1>1, <1>3, <1>7, <1>8 DEF Duration

LEMMA ReadBack ==
  ASSUME NEW ms \in Int, ms > 0, Fits(ms)
  PROVE  Duration(ms) > 0 /\ Milliseconds(Duration(ms)) = ms
<1>1. Milli \in Nat \ {0}
  BY ConfigAssumption
<1>2. ms \in Nat /\ ms * Milli > 0
  BY <1>1
<1>3. (ms * Milli) \div Milli = ms
  BY <1>1, <1>2, ProductDivided
<1>. QED
  BY <1>2, <1>3, DurationFits DEF Milliseconds

LEMMA DurationZero == Duration(0) = 0
<1>1. Milli \in Nat \ {0} /\ 0 * Milli = 0
  BY ConfigAssumption
<1>2. PICK h : h = Word \div 2
  OBVIOUS
<1>3. h \in Nat /\ h < Word /\ Word = h + h /\ Word \in Nat \ {0}
  BY <1>2, HalfWord, ConfigAssumption
<1>4. 0 \in -h .. h - 1
  BY <1>3
<1>5. Fits(0)
  BY <1>1, <1>2, <1>4 DEF Fits
<1>. QED
  BY <1>1, <1>5, DurationFits

-----------------------------------------------------------------------------
(* Confirmed orders.  A call belongs to an order that exists and to the    *)
(* node it names; the coordinator answers for itself when its call is      *)
(* done, and nobody else ever does it for the coordinator.  A node that an *)
(* order does not concern never begins with it.                            *)
Idle   == {"none", "done"}

CallOf(i, n) == update[<<i, n>>]

Named ==
  /\ posts \subseteq (DOMAIN orders) \X (Node \ {Coordinator})
  /\ \A i \in 1 .. MaxOrders, n \in Node :
       /\ CallOf(i, n).step # "none" => i \in DOMAIN orders /\ orders[i].kind = "post"
       /\ CallOf(i, n).step \notin Idle => CallOf(i, n).node = n
  /\ \A i \in DOMAIN orders :
       /\ orders[i].kind = "get" => orders[i].et = 0 /\ orders[i].hb = 0
       /\ orders[i].kind = "post"
            /\ orders[i].answer[Coordinator].kind \notin {"pending", "none"}
            => CallOf(i, Coordinator).step = "done"
       /\ \A n \in Node : orders[i].answer[n].kind = "none"
            => CallOf(i, n).step = "none" /\ <<i, n>> \notin posts

(* Nothing of any order but the k-th is under way, or can get under way. *)
Alone(k) ==
  \A i \in 1 .. MaxOrders, n \in Node :
    i # k => /\ CallOf(i, n).step \in Idle /\ <<i, n>> \notin posts
             /\ i \in DOMAIN orders => orders[i].answer[n].kind # "pending"

Result(o, n) == [et |-> Outcome(o.et, o.before[n].et), hb |-> Outcome(o.hb, o.before[n].hb)]

(* How far node n is with its share of order k. *)
Progress(o, c, s, n) ==
  /\ c.step \in {"none", "set"} => s = o.before[n]
  /\ c.step = "set" => c.et = Duration(o.et) /\ c.hb = Duration(o.hb)
  /\ c.step \notin {"none", "set"} => s = Result(o, n)
  /\ o.answer[n].kind = "ok" => /\ o.answer[n] = Timings(s)
                                /\ o.kind = "post" => c.step = "done"

Carried(k) == \A n \in Node : Progress(orders[k], CallOf(k, n), config[n], n)

LastQuiet ==
  orders # <<>> /\ orders[Len(orders)].quiet => Alone(Len(orders)) /\ Carried(Len(orders))

ConfirmInv == TimingInv /\ Named /\ LastQuiet

LEMMA InitiallyNamed == Init => Named /\ LastQuiet
<1>. SUFFICES ASSUME Init PROVE Named /\ LastQuiet
  OBVIOUS
<1>1. orders = <<>> /\ posts = {} /\ DOMAIN orders = {}
  BY DEF Init
<1>2. \A i \in 1 .. MaxOrders, n \in Node : CallOf(i, n).step = "none"
  BY ConfigAssumption DEF Init, TimingsInit, CallOf, NotCalled
<1>. QED
  BY <1>1, <1>2 DEF Named, LastQuiet, Idle

(* An order that comes when nothing is under way finds every call of the   *)
(* earlier orders done, and none of its own begun.                         *)
LEMMA GiveNamed ==
  ASSUME ConfirmInv, NEW kind \in {"get", "post"}, NEW et \in Int, NEW hb \in Int,
         NEW S \in SUBSET Node, kind = "get" => et = 0 /\ hb = 0, Give(kind, et, hb, S)
  PROVE  Named' /\ LastQuiet'
<1>0. PICK k : k = Len(orders) + 1
  OBVIOUS
<1>. DEFINE o == [kind |-> kind, et |-> et, hb |-> hb, quiet |-> Settled,
                  before |-> IF Settled THEN config ELSE [n \in Node |-> Initial],
                  answer |-> [n \in Node |-> IF n \in S THEN NoAnswer ELSE NotAsked]]
<1>1. orders \in Seq(Orders) /\ Len(orders) \in Nat /\ Len(orders) < MaxOrders
  BY DEF ConfirmInv, TimingInv, OrderTypes, Give
<1>2. orders' = Append(orders, o) /\ UNCHANGED <<update, config>>
  BY DEF Give, timingVars
<1>3. /\ o.kind = kind /\ o.et = et /\ o.hb = hb /\ o.quiet = Settled
      /\ Settled => o.before = config
      /\ \A n \in Node : o.answer[n].kind = IF n \in S THEN "pending" ELSE "none"
  BY DEF NoAnswer, NotAsked
<1>. HIDE DEF o
<1>4. /\ Len(orders') = k /\ DOMAIN orders' = DOMAIN orders \cup {k} /\ orders'[k] = o
      /\ \A i \in DOMAIN orders : orders'[i] = orders[i] /\ i # k
      /\ k \in 1 .. MaxOrders /\ k \notin DOMAIN orders
      /\ DOMAIN orders \subseteq 1 .. MaxOrders
  <2>1. o \in Orders
    BY <1>1, <1>2, GiveKept DEF ConfirmInv, TimingInv, OrderTypes
  <2>. QED
    BY <1>0, <1>1, <1>2, <2>1, ConfigAssumption
<1>5. \A n \in Node : CallOf(k, n).step = "none"
  BY <1>4 DEF ConfirmInv, Named
<1>6. posts' = posts \cup {<<k, n>> : n \in S \ {Coordinator}}
  BY <1>0 DEF Give
<1>7. Named'
  <2>1. posts' \subseteq (DOMAIN orders') \X (Node \ {Coordinator})
    BY <1>4, <1>6 DEF ConfirmInv, Named
  <2>2. \A i \in 1 .. MaxOrders, n \in Node : CallOf(i, n)' = CallOf(i, n)
    BY <1>2 DEF CallOf
  <2>3. \A i \in 1 .. MaxOrders, n \in Node :
          /\ CallOf(i, n).step # "none" => i \in DOMAIN orders' /\ orders'[i].kind = "post"
          /\ CallOf(i, n).step \notin Idle => CallOf(i, n).node = n
    BY <1>4 DEF ConfirmInv, Named
  <2>4. ASSUME NEW i \in DOMAIN orders'
        PROVE  /\ orders'[i].kind = "get" => orders'[i].et = 0 /\ orders'[i].hb = 0
               /\ orders'[i].kind = "post"
                    /\ orders'[i].answer[Coordinator].kind \notin {"pending", "none"}
                    => CallOf(i, Coordinator).step = "done"
    BY <1>3, <1>4, ConfigAssumption DEF ConfirmInv, Named
  <2>5. ASSUME NEW i \in DOMAIN orders', NEW n \in Node, orders'[i].answer[n].kind = "none"
        PROVE  CallOf(i, n).step = "none" /\ <<i, n>> \notin posts'
    <3>1. CASE i = k
      <4>1. n \notin S /\ <<k, n>> \notin posts
        BY <1>3, <1>4, <2>5, <3>1 DEF ConfirmInv, Named
      <4>. QED
        BY <1>5, <1>6, <3>1, <4>1
    <3>2. CASE i \in DOMAIN orders /\ i # k
      <4>1. CallOf(i, n).step = "none" /\ <<i, n>> \notin posts
        BY <1>4, <2>5, <3>2 DEF ConfirmInv, Named
      <4>. QED
        BY <1>6, <3>2, <4>1
    <3>. QED
      BY <1>4, <3>1, <3>2
  <2>6. Coordinator \in Node
    BY ConfigAssumption
  <2>. QED
    BY <1>4, <2>1, <2>2, <2>3, <2>4, <2>5, <2>6 DEF Named
<1>8. LastQuiet'
  <2>. SUFFICES ASSUME Settled PROVE Alone(k)' /\ Carried(k)'
    BY <1>3, <1>4 DEF LastQuiet
  <2>1. /\ posts = {} /\ \A u \in Update : update[u].step \in Idle
        /\ \A i \in DOMAIN orders, n \in Node : orders[i].answer[n].kind # "pending"
    BY DEF Settled, Over, Idle
  <2>2. ASSUME NEW i \in 1 .. MaxOrders, NEW n \in Node, i # k
        PROVE  /\ CallOf(i, n)'.step \in Idle /\ <<i, n>> \notin posts'
               /\ i \in DOMAIN orders' => orders'[i].answer[n].kind # "pending"
    BY <1>2, <1>4, <1>6, <2>1, <2>2, ConfigAssumption DEF CallOf
  <2>3. Alone(k)'
    BY <2>2 DEF Alone
  <2>4. Carried(k)'
    BY <1>2, <1>3, <1>4, <1>5 DEF Carried, Progress, CallOf
  <2>. QED
    BY <2>3, <2>4
<1>. QED
  BY <1>7, <1>8

-----------------------------------------------------------------------------
(* A step that concerns node n's share of order i, and no other. *)
Same(p, o) == /\ p.kind = o.kind /\ p.et = o.et /\ p.hb = o.hb
              /\ p.quiet = o.quiet /\ p.before = o.before

OnlyShare(i, n) ==
  /\ posts' \subseteq posts
  /\ Len(orders') = Len(orders) /\ DOMAIN orders' = DOMAIN orders
  /\ \A j \in DOMAIN orders : Same(orders'[j], orders[j])
  /\ \A j \in 1 .. MaxOrders, m \in Node :
       <<j, m>> # <<i, n>> => /\ CallOf(j, m)' = CallOf(j, m)
                              /\ j \in DOMAIN orders =>
                                   orders'[j].answer[m] = orders[j].answer[m]
  /\ \A m \in Node \ {n} : config'[m] = config[m]

(* A share that moves is one of the last order, if that one was quiet. *)
LEMMA ActiveIsLast ==
  ASSUME ConfirmInv, NEW i \in DOMAIN orders, NEW n \in Node, orders[Len(orders)].quiet,
         \/ CallOf(i, n).step \notin Idle \/ <<i, n>> \in posts
         \/ orders[i].answer[n].kind = "pending"
  PROVE  i = Len(orders)
<1>1. orders # <<>> /\ i \in 1 .. MaxOrders
  BY ConfigAssumption DEF ConfirmInv, TimingInv, OrderTypes
<1>2. Alone(Len(orders))
  BY <1>1 DEF ConfirmInv, LastQuiet
<1>. QED
  BY <1>1, <1>2 DEF Alone

LEMMA ShareMoves ==
  ASSUME ConfirmInv, NEW i \in DOMAIN orders, NEW n \in Node, OnlyShare(i, n),
         CallOf(i, n)'.step # "none" => orders[i].kind = "post",
         CallOf(i, n)'.step \notin Idle => CallOf(i, n)'.node = n,
         orders[i].kind = "post" /\ n = Coordinator /\ orders'[i].answer[n].kind # "pending"
           => CallOf(i, n)'.step = "done",
         orders'[i].answer[n].kind # "none",
         orders[Len(orders)].quiet => i = Len(orders),
         Progress(orders[i], CallOf(i, n), config[n], n)
           => Progress(orders'[i], CallOf(i, n)', config'[n], n)
  PROVE  Named' /\ LastQuiet'
<1>1. /\ i \in 1 .. MaxOrders /\ DOMAIN orders \subseteq 1 .. MaxOrders
      /\ Len(orders) \in DOMAIN orders /\ orders # <<>> /\ Coordinator \in Node
  BY ConfigAssumption DEF ConfirmInv, TimingInv, OrderTypes
<1>2. Named'
  <2>1. posts' \subseteq (DOMAIN orders') \X (Node \ {Coordinator})
    BY DEF ConfirmInv, Named, OnlyShare
  <2>2. ASSUME NEW j \in 1 .. MaxOrders, NEW m \in Node
        PROVE  /\ CallOf(j, m)'.step # "none" => j \in DOMAIN orders' /\ orders'[j].kind = "post"
               /\ CallOf(j, m)'.step \notin Idle => CallOf(j, m)'.node = m
    <3>1. CASE <<j, m>> = <<i, n>>
      BY <3>1 DEF OnlyShare, Same
    <3>2. CASE <<j, m>> # <<i, n>>
      <4>1. CallOf(j, m)' = CallOf(j, m)
        BY <3>2 DEF OnlyShare
      <4>2. /\ CallOf(j, m).step # "none" => j \in DOMAIN orders /\ orders[j].kind = "post"
            /\ CallOf(j, m).step \notin Idle => CallOf(j, m).node = m
        BY Zenon DEF ConfirmInv, Named
      <4>. QED
        BY <4>1, <4>2 DEF OnlyShare, Same
    <3>. QED  BY <3>1, <3>2
  <2>3. ASSUME NEW j \in DOMAIN orders
        PROVE  /\ orders'[j].kind = "get" => orders'[j].et = 0 /\ orders'[j].hb = 0
               /\ orders'[j].kind = "post"
                    /\ orders'[j].answer[Coordinator].kind \notin {"pending", "none"}
                    => CallOf(j, Coordinator)'.step = "done"
    <3>1. CASE <<j, Coordinator>> = <<i, n>>
      BY <3>1 DEF OnlyShare, Same, ConfirmInv, Named
    <3>2. CASE <<j, Coordinator>> # <<i, n>>
      BY <1>1, <3>2 DEF ConfirmInv, Named, OnlyShare, Same
    <3>. QED  BY <3>1, <3>2
  <2>4. ASSUME NEW j \in DOMAIN orders, NEW m \in Node, orders'[j].answer[m].kind = "none"
        PROVE  CallOf(j, m)'.step = "none" /\ <<j, m>> \notin posts'
    <3>1. <<j, m>> # <<i, n>>
      BY <2>4
    <3>2. CallOf(j, m)' = CallOf(j, m) /\ orders[j].answer[m].kind = "none"
      BY <1>1, <2>4, <3>1 DEF OnlyShare
    <3>. QED
      BY <3>2 DEF ConfirmInv, Named, OnlyShare
  <2>. QED
    BY <2>1, <2>2, <2>3, <2>4 DEF Named, OnlyShare
<1>3. LastQuiet'
  <2>. SUFFICES ASSUME orders'[Len(orders)].quiet PROVE Alone(Len(orders))' /\ Carried(Len(orders))'
    BY DEF LastQuiet, OnlyShare
  <2>1. orders[Len(orders)].quiet /\ i = Len(orders) /\ Len(orders') = i
    BY <1>1 DEF OnlyShare, Same
  <2>2. Alone(i) /\ Carried(i)
    BY <1>1, <2>1 DEF ConfirmInv, LastQuiet
  <2>3. ASSUME NEW j \in 1 .. MaxOrders, NEW m \in Node, j # i
        PROVE  /\ CallOf(j, m)'.step \in Idle /\ <<j, m>> \notin posts'
               /\ j \in DOMAIN orders' => orders'[j].answer[m].kind # "pending"
    <3>1. <<j, m>> # <<i, n>>
      BY <2>3
    <3>. QED
      BY <2>2, <2>3, <3>1 DEF Alone, OnlyShare
  <2>4. ASSUME NEW m \in Node
        PROVE  Progress(orders'[i], CallOf(i, m)', config'[m], m)
    <3>1. CASE m = n
      BY <2>2, <3>1 DEF Carried
    <3>2. CASE m # n
      <4>1. /\ CallOf(i, m)' = CallOf(i, m) /\ orders'[i].answer[m] = orders[i].answer[m]
            /\ config'[m] = config[m] /\ Same(orders'[i], orders[i])
        BY <1>1, <3>2 DEF OnlyShare
      <4>2. Progress(orders[i], CallOf(i, m), config[m], m)
        BY <2>2 DEF Carried
      <4>. QED
        BY <4>1, <4>2 DEF Progress, Result, Same
    <3>. QED  BY <3>1, <3>2
  <2>5. Alone(i)' /\ Carried(i)'
    BY <2>3, <2>4 DEF Alone, Carried
  <2>. QED
    BY <2>1, <2>5
<1>. QED
  BY <1>2, <1>3

(* What a changed call and a changed answer leave alone. *)
LEMMA CallMoved ==
  ASSUME ConfirmInv, NEW i \in DOMAIN orders, NEW n \in Node, posts' \subseteq posts,
         \A u \in Update \ {<<i, n>>} : update'[u] = update[u],
         \/ UNCHANGED orders
         \/ \E a : orders' = [orders EXCEPT ![i].answer[n] = a],
         \A m \in Node \ {n} : config'[m] = config[m]
  PROVE  OnlyShare(i, n)
<1>1. \A j \in 1 .. MaxOrders, m \in Node :
        <<j, m>> # <<i, n>> => CallOf(j, m)' = CallOf(j, m)
  BY ConfigAssumption DEF CallOf
<1>2. CASE UNCHANGED orders
  BY <1>1, <1>2 DEF OnlyShare, Same
<1>3. ASSUME NEW a, orders' = [orders EXCEPT ![i].answer[n] = a] PROVE OnlyShare(i, n)
  <2>1. orders \in Seq(Orders) /\ \A j \in DOMAIN orders : orders[j] \in Orders
    BY DEF ConfirmInv, TimingInv, OrderTypes
  <2>2. DOMAIN orders' = DOMAIN orders
    BY <1>3, <2>1
  <2>3. Len(orders') = Len(orders)
    BY <1>3, <2>1
  <2>4. \A j \in DOMAIN orders : j # i => orders'[j] = orders[j]
    BY <1>3, <2>1
  <2>5. orders'[i] = [orders[i] EXCEPT !.answer[n] = a]
    BY <1>3, <2>1
  <2>6. /\ Same(orders'[i], orders[i])
        /\ \A m \in Node : m # n => orders'[i].answer[m] = orders[i].answer[m]
    BY <2>1, <2>5 DEF Same, Orders
  <2>7. \A j \in DOMAIN orders : Same(orders'[j], orders[j])
    BY <2>4, <2>6 DEF Same
  <2>8. ASSUME NEW j \in DOMAIN orders, NEW m \in Node, <<j, m>> # <<i, n>>
        PROVE  orders'[j].answer[m] = orders[j].answer[m]
    BY <2>4, <2>6, <2>8
  <2>. QED
    BY <1>1, <2>2, <2>3, <2>7, <2>8 DEF OnlyShare
<1>. QED
  BY <1>2, <1>3

(* Where a call is that is neither idle nor yet to begin. *)
LEMMA CallInOrder ==
  ASSUME ConfirmInv, NEW u \in Update, update[u].step \notin Idle
  PROVE  \E i \in DOMAIN orders, n \in Node :
           u = <<i, n>> /\ orders[i].kind = "post" /\ update[u].node = n
<1>1. PICK i \in 1 .. MaxOrders, n \in Node : u = <<i, n>>
  BY ConfigAssumption
<1>2. CallOf(i, n).step \notin Idle /\ CallOf(i, n) = update[u]
  BY <1>1 DEF CallOf
<1>. QED
  BY <1>1, <1>2 DEF ConfirmInv, Named, Idle

(* A share that is under way was asked for, and the coordinator's is not   *)
(* answered while its call goes on.                                        *)
LEMMA OwnPending ==
  ASSUME ConfirmInv, NEW i \in DOMAIN orders, orders[i].kind = "post", NEW n \in Node,
         CallOf(i, n).step \notin Idle
  PROVE  /\ orders[i].answer[n].kind # "none"
         /\ n = Coordinator => orders[i].answer[n].kind = "pending"
<1>1. orders[i].answer[n].kind = "none" => CallOf(i, n).step = "none"
  BY Zenon DEF ConfirmInv, Named
<1>2. orders[i].answer[Coordinator].kind \notin {"pending", "none"}
        => CallOf(i, Coordinator).step = "done"
  BY Zenon DEF ConfirmInv, Named
<1>. QED
  BY <1>1, <1>2 DEF Idle

LEMMA UpdateNamed ==
  ASSUME ConfirmInv, NEW u \in Update, UpdateTimings(u), UNCHANGED <<orders, posts>>
  PROVE  Named' /\ LastQuiet'
<1>1. update[u].step \in {"set", "send", "drain", "resend"}
  BY DEF UpdateTimings, SetConfig, Send, Drain, Resend, At
<1>2. PICK i \in DOMAIN orders, n \in Node :
        u = <<i, n>> /\ orders[i].kind = "post" /\ update[u].node = n
  BY <1>1, CallInOrder DEF Idle
<1>3. /\ TimingTypes /\ update[u] \in Calls /\ config[n] \in Setting
  BY DEF ConfirmInv, TimingInv, TimingTypes
<1>4. /\ \A w \in Update \ {u} : update'[w] = update[w]
      /\ update'[u].node = n
      /\ update'[u].step \in {"send", "drain", "resend", "read"}
      /\ \A m \in Node \ {n} : config'[m] = config[m]
      /\ update[u].step # "set" => config'[n] = config[n]
      /\ update[u].step = "set" =>
           config'[n] = [et |-> IF update[u].et > 0 THEN update[u].et ELSE config[n].et,
                         hb |-> IF update[u].hb > 0 THEN update[u].hb ELSE config[n].hb]
  <2>1. CASE SetConfig(u)
    <3>1. update[u].step = "set"
      BY <2>1 DEF SetConfig, At
    <3>2. /\ \A w \in Update \ {u} : update'[w] = update[w]
          /\ update'[u].step = "send" /\ update'[u].node = update[u].node
      BY <1>3, <2>1 DEF SetConfig, TimingTypes, Calls
    <3>3. /\ \A m \in Node \ {n} : config'[m] = config[m]
          /\ config'[n] = [et |-> IF update[u].et > 0 THEN update[u].et ELSE config[n].et,
                           hb |-> IF update[u].hb > 0 THEN update[u].hb ELSE config[n].hb]
      BY <1>2, <1>3, <2>1 DEF SetConfig, TimingTypes
    <3>. QED
      BY <1>2, <3>1, <3>2, <3>3
  <2>2. ASSUME NEW s \in {"read", "drain", "resend"}, Goto(u, s), UNCHANGED config,
               update[u].step # "set"
        PROVE  <1>4!:
    BY <1>2, <1>3, <2>2, GotoMoves DEF Steps
  <2>3. CASE Send(u) \/ Drain(u) \/ Resend(u)
    BY <2>2, <2>3 DEF Send, Drain, Resend, At
  <2>. QED
    BY <2>1, <2>3 DEF UpdateTimings
<1>5. OnlyShare(i, n)
  BY <1>2, <1>4, CallMoved
<1>6. orders[Len(orders)].quiet => i = Len(orders)
  BY <1>1, <1>2, ActiveIsLast DEF CallOf, Idle
<1>7. ASSUME Progress(orders[i], CallOf(i, n), config[n], n)
      PROVE  Progress(orders[i], CallOf(i, n)', config'[n], n)
  <2>1. CallOf(i, n) = update[u] /\ CallOf(i, n)' = update'[u]
    BY <1>2 DEF CallOf
  <2>2. orders[i].answer[n].kind # "ok"
    BY <1>1, <1>2, <1>7, <2>1 DEF Progress
  <2>3. config'[n] = Result(orders[i], n)
    <3>1. CASE update[u].step = "set"
      BY <1>4, <1>7, <2>1, <3>1 DEF Progress, Result, Outcome
    <3>2. CASE update[u].step # "set"
      BY <1>1, <1>4, <1>7, <2>1, <3>2 DEF Progress
    <3>. QED  BY <3>1, <3>2
  <2>. QED
    BY <1>4, <2>1, <2>2, <2>3 DEF Progress
<1>8. /\ orders'[i].answer[n].kind # "none"
      /\ n = Coordinator => orders'[i].answer[n].kind = "pending"
  BY <1>1, <1>2, OwnPending DEF CallOf, Idle
<1>. QED
  BY <1>2, <1>4, <1>5, <1>6, <1>7, <1>8, ShareMoves DEF CallOf

LEMMA BeginNamed ==
  ASSUME ConfirmInv, NEW i \in DOMAIN orders, NEW n \in Node, Begin(i, n)
  PROVE  Named' /\ LastQuiet'
<1>. DEFINE o == orders[i]
<1>1. <<i, n>> \in Update /\ TimingTypes
  BY ShareInUpdate DEF ConfirmInv, TimingInv
<1>2. /\ o.kind = "post" /\ CallOf(i, n).step = "none"
      /\ o.answer[n].kind = "pending" \/ <<i, n>> \in posts
      /\ posts' \subseteq posts /\ UNCHANGED <<orders, config>>
  BY DEF Begin, At, CallOf, Call
<1>3. /\ CallOf(i, n)' = [step |-> "set", node |-> n, et |-> Duration(o.et), hb |-> Duration(o.hb)]
      /\ \A u \in Update \ {<<i, n>>} : update'[u] = update[u]
  BY <1>1 DEF Begin, Call, CallOf, TimingTypes
<1>4. /\ o.answer[n].kind # "none"
      /\ n = Coordinator => o.answer[n].kind = "pending"
  BY <1>2 DEF ConfirmInv, Named
<1>5. orders[Len(orders)].quiet => i = Len(orders)
  BY <1>2, <1>4, ActiveIsLast
<1>6. OnlyShare(i, n)
  BY <1>2, <1>3, CallMoved
<1>7. ASSUME Progress(o, CallOf(i, n), config[n], n)
      PROVE  Progress(orders'[i], CallOf(i, n)', config'[n], n)
  BY <1>2, <1>3, <1>7 DEF Progress
<1>. QED
  BY <1>2, <1>3, <1>4, <1>5, <1>6, <1>7, ShareMoves DEF Idle

(* Where the answer to a share stands after a step. *)
LEMMA AnswerIs ==
  ASSUME ConfirmInv, NEW i \in DOMAIN orders, NEW n \in Node, NEW a,
         orders' = [orders EXCEPT ![i].answer[n] = a]
  PROVE  orders'[i].answer[n] = a
<1>1. orders[i] \in Orders
  BY DEF ConfirmInv, TimingInv, OrderTypes
<1>2. orders'[i] = [orders[i] EXCEPT !.answer[n] = a]
  BY DEF ConfirmInv, TimingInv, OrderTypes
<1>. QED
  BY <1>1, <1>2 DEF Orders

LEMMA FinishNamed ==
  ASSUME ConfirmInv, NEW i \in DOMAIN orders, NEW n \in Node, Finish(i, n)
  PROVE  Named' /\ LastQuiet'
<1>1. <<i, n>> \in Update /\ TimingTypes
  BY ShareInUpdate DEF ConfirmInv, TimingInv
<1>2. CallOf(i, n).step = "read" /\ UNCHANGED <<posts, config>> /\ Answer(i, n)
  BY DEF Finish, At, CallOf
<1>3. CallOf(i, n)' = Returned /\ \A u \in Update \ {<<i, n>>} : update'[u] = update[u]
  BY <1>1 DEF Finish, CallOf, TimingTypes
<1>4. Returned.step = "done"
  BY DEF Returned, NotCalled
<1>5. orders[i].kind = "post"
  <2>1. i \in 1 .. MaxOrders
    BY ConfigAssumption DEF ConfirmInv, TimingInv, OrderTypes
  <2>. QED
    BY <1>2, <2>1 DEF ConfirmInv, Named
<1>6. orders[Len(orders)].quiet => i = Len(orders)
  BY <1>2, ActiveIsLast DEF Idle
<1>7. \/ UNCHANGED orders
      \/ orders' = [orders EXCEPT ![i].answer[n] = Timings(config[n])]
  BY <1>2 DEF Answer
<1>8. OnlyShare(i, n)
  <2>1. UNCHANGED orders \/ \E a : orders' = [orders EXCEPT ![i].answer[n] = a]
    BY <1>7
  <2>. QED
    BY <1>2, <1>3, <2>1, CallMoved
<1>9. ASSUME Progress(orders[i], CallOf(i, n), config[n], n)
      PROVE  Progress(orders'[i], CallOf(i, n)', config'[n], n)
  <2>1. config[n] = Result(orders[i], n) /\ orders[i].answer[n].kind # "ok"
    BY <1>2, <1>5, <1>9 DEF Progress
  <2>2. Result(orders'[i], n) = Result(orders[i], n)
    BY <1>8 DEF OnlyShare, Same, Result
  <2>3. orders'[i].answer[n].kind = "ok" => orders'[i].answer[n] = Timings(config[n])
    BY <1>7, <2>1, AnswerIs
  <2>. QED
    BY <1>2, <1>3, <1>4, <2>1, <2>2, <2>3 DEF Progress
<1>10. orders'[i].answer[n].kind # "none"
  <2>1. orders[i].answer[n].kind # "none"
    BY <1>2, <1>5, OwnPending DEF Idle
  <2>. QED
    BY <1>7, <2>1, AnswerIs DEF Timings
<1>. QED
  BY <1>3, <1>4, <1>5, <1>6, <1>8, <1>9, <1>10, ShareMoves DEF Idle

LEMMA GetNamed ==
  ASSUME ConfirmInv, NEW i \in DOMAIN orders, NEW n \in Node, GetTimings(i, n)
  PROVE  Named' /\ LastQuiet'
<1>1. /\ orders[i].kind = "get" /\ Answer(i, n)
      /\ orders[i].answer[n].kind = "pending" \/ <<i, n>> \in posts
      /\ posts' \subseteq posts /\ UNCHANGED <<update, config>>
  BY DEF GetTimings, timingVars
<1>2. CallOf(i, n)' = CallOf(i, n) /\ CallOf(i, n).step = "none"
  <2>1. i \in 1 .. MaxOrders
    BY ConfigAssumption DEF ConfirmInv, TimingInv, OrderTypes
  <2>. QED
    BY <1>1, <2>1 DEF ConfirmInv, Named, CallOf
<1>3. orders[Len(orders)].quiet => i = Len(orders)
  BY <1>1, ActiveIsLast
<1>4. \/ UNCHANGED orders
      \/ orders' = [orders EXCEPT ![i].answer[n] = Timings(config[n])]
  BY <1>1 DEF Answer
<1>5. OnlyShare(i, n)
  <2>1. UNCHANGED orders \/ \E a : orders' = [orders EXCEPT ![i].answer[n] = a]
    BY <1>4
  <2>. QED
    BY <1>1, <2>1, CallMoved
<1>6. ASSUME Progress(orders[i], CallOf(i, n), config[n], n)
      PROVE  Progress(orders'[i], CallOf(i, n)', config'[n], n)
  <2>1. Same(orders'[i], orders[i])
    BY <1>5 DEF OnlyShare
  <2>2. orders'[i].answer[n].kind = "ok" => orders'[i].answer[n] = Timings(config[n])
    BY <1>4, <1>6, AnswerIs DEF Progress
  <2>. QED
    BY <1>1, <1>2, <1>6, <2>1, <2>2 DEF Progress, Same
<1>7. orders'[i].answer[n].kind # "none"
  <2>1. orders[i].answer[n].kind # "none"
    BY <1>1 DEF ConfirmInv, Named
  <2>. QED
    BY <1>4, <2>1, AnswerIs DEF Timings
<1>. QED
  BY <1>1, <1>2, <1>3, <1>5, <1>6, <1>7, ShareMoves DEF Idle

LEMMA GiveUpNamed ==
  ASSUME ConfirmInv, NEW i \in DOMAIN orders, NEW n \in Node, GiveUp(i, n)
  PROVE  Named' /\ LastQuiet'
<1>1. /\ n # Coordinator /\ orders[i].answer[n].kind = "pending"
      /\ orders' = [orders EXCEPT ![i].answer[n] = Failed]
      /\ posts' \subseteq posts /\ UNCHANGED <<update, config>>
  BY DEF GiveUp, timingVars
<1>2. CallOf(i, n)' = CallOf(i, n)
  BY <1>1 DEF CallOf
<1>3. /\ CallOf(i, n).step # "none" => orders[i].kind = "post"
      /\ CallOf(i, n).step \notin Idle => CallOf(i, n).node = n
  <2>1. i \in 1 .. MaxOrders
    BY ConfigAssumption DEF ConfirmInv, TimingInv, OrderTypes
  <2>. QED
    BY <2>1 DEF ConfirmInv, Named
<1>4. orders[Len(orders)].quiet => i = Len(orders)
  BY <1>1, ActiveIsLast
<1>5. OnlyShare(i, n)
  BY <1>1, CallMoved
<1>6. ASSUME Progress(orders[i], CallOf(i, n), config[n], n)
      PROVE  Progress(orders'[i], CallOf(i, n)', config'[n], n)
  <2>1. Same(orders'[i], orders[i])
    BY <1>5 DEF OnlyShare
  <2>2. orders'[i].answer[n].kind # "ok"
    <3>1. orders'[i].answer[n] = Failed
      BY <1>1, AnswerIs
    <3>. QED
      BY <3>1 DEF Failed
  <2>. QED
    BY <1>1, <1>2, <1>6, <2>1, <2>2 DEF Progress, Same, Result
<1>7. orders'[i].answer[n].kind # "none"
  <2>1. orders'[i].answer[n] = Failed
    BY <1>1, AnswerIs
  <2>. QED
    BY <2>1 DEF Failed
<1>. QED
  BY <1>1, <1>2, <1>3, <1>4, <1>5, <1>6, <1>7, ShareMoves

LEMMA NextNamed == ConfirmInv /\ [Next]_vars => Named' /\ LastQuiet'
<1>. SUFFICES ASSUME ConfirmInv, [Next]_vars PROVE Named' /\ LastQuiet'
  OBVIOUS
<1>1. CASE fanOutGet \/ fanOutPost \/ \E n \in Node : handleNodeConfig(n)
  <2>1. PICK kind \in {"get", "post"}, et \in Int, hb \in Int, S \in SUBSET Node :
          Give(kind, et, hb, S) /\ (kind = "get" => et = 0 /\ hb = 0)
    BY <1>1, GivenIs
  <2>. QED
    BY <2>1, GiveNamed
<1>2. CASE UNCHANGED <<config, update, orders, posts>>
  BY <1>2 DEF ConfirmInv, Named, LastQuiet, Alone, Carried, CallOf
<1>3. CASE Internal
  <2>1. CASE \E u \in Update : UpdateTimings(u)
    BY <1>3, <2>1, UpdateNamed DEF Internal
  <2>2. CASE \E n \in Node : Receive(n) \/ Stop(n)
    BY <1>2, <1>3, <2>2 DEF Internal, Receive, Stop
  <2>. QED
    BY <1>3, <2>1, <2>2 DEF Internal
<1>4. ASSUME NEW i \in DOMAIN orders, NEW n \in Node, Work(i, n) \/ GiveUp(i, n)
      PROVE  Named' /\ LastQuiet'
  BY <1>4, BeginNamed, FinishNamed, GetNamed, GiveUpNamed DEF Work
<1>5. CASE UNCHANGED vars
  BY <1>2, <1>5 DEF vars, timingVars
<1>. QED
  BY <1>1, <1>3, <1>4, <1>5 DEF Next

LEMMA ConfirmStep == ConfirmInv /\ [Next]_vars => ConfirmInv'
<1>1. ConfirmInv => TimingInv
  BY DEF ConfirmInv
<1>2. TimingInv' /\ Named' /\ LastQuiet' => ConfirmInv'
  BY DEF ConfirmInv
<1>. QED
  BY <1>1, <1>2, NextKeeps, NextNamed

(* What a node has after its share, and what its answer says of it. *)
LEMMA AnswerTells ==
  ASSUME NEW o \in Orders, NEW c, NEW s, NEW n \in Node, Progress(o, c, s, n),
         o.answer[n].kind = "ok", o.kind = "get" => o.et = 0 /\ o.hb = 0 /\ c.step = "none"
  PROVE  /\ s = Result(o, n) /\ o.answer[n] = Timings(s)
         /\ o.hb > 0 /\ Fits(o.hb) => o.answer[n].hb = o.hb
<1>1. o.before[n] \in Setting /\ o.et \in Int /\ o.hb \in Int /\ o.kind \in {"get", "post"}
  BY DEF Orders
<1>2. s = Result(o, n)
  <2>1. CASE o.kind = "get"
    <3>1. o.et = 0 /\ o.hb = 0 /\ s = o.before[n]
      BY <2>1 DEF Progress
    <3>2. Outcome(0, o.before[n].et) = o.before[n].et /\ Outcome(0, o.before[n].hb) = o.before[n].hb
      BY DurationZero DEF Outcome
    <3>3. o.before[n] = [et |-> o.before[n].et, hb |-> o.before[n].hb]
      BY <1>1 DEF Setting
    <3>. QED
      BY <3>1, <3>2, <3>3 DEF Result
  <2>2. CASE o.kind = "post"
    BY <2>2 DEF Progress
  <2>. QED
    BY <1>1, <2>1, <2>2
<1>3. o.answer[n] = Timings(s)
  BY DEF Progress
<1>4. ASSUME o.hb > 0, Fits(o.hb) PROVE o.answer[n].hb = o.hb
  <2>1. Duration(o.hb) > 0 /\ Milliseconds(Duration(o.hb)) = o.hb
    BY <1>1, <1>4, ReadBack
  <2>2. s.hb = Duration(o.hb)
    BY <1>2, <2>1 DEF Result, Outcome
  <2>. QED
    BY <1>3, <2>1, <2>2 DEF Timings
<1>. QED
  BY <1>2, <1>3, <1>4

(* fanOutConfig tells the user that every server has the new timings, or   *)
(* what they are: after an order that found nothing under way this is so   *)
(* of every node's configuration, whichever calls were answered late.      *)
THEOREM ConfirmedIsSet == Spec => []ConfirmedTimings
<1>1. Init => ConfirmInv
  BY InitiallyHanded, InitiallyNamed DEF ConfirmInv
<1>2. ConfirmInv => ConfirmedTimings
  <2>. SUFFICES ASSUME ConfirmInv, NEW k \in DOMAIN orders, k = Len(orders), orders[k].quiet,
                       NEW n \in Node, orders[k].answer[n].kind \in {"ok", "none"}
                PROVE  IF orders[k].answer[n].kind = "none" THEN config[n] = orders[k].before[n]
                       ELSE /\ config[n] = Result(orders[k], n)
                            /\ orders[k].answer[n] = Timings(config[n])
                            /\ orders[k].hb > 0 /\ Fits(orders[k].hb)
                                 => orders[k].answer[n].hb = orders[k].hb
    BY DEF ConfirmedTimings, Result
  <2>1. orders[k] \in Orders /\ k \in 1 .. MaxOrders /\ orders # <<>>
    BY ConfigAssumption DEF ConfirmInv, TimingInv, OrderTypes
  <2>2. Progress(orders[k], CallOf(k, n), config[n], n)
    BY <2>1 DEF ConfirmInv, LastQuiet, Carried
  <2>3. orders[k].kind = "get" =>
          orders[k].et = 0 /\ orders[k].hb = 0 /\ CallOf(k, n).step = "none"
    BY <2>1 DEF ConfirmInv, Named
  <2>4. CASE orders[k].answer[n].kind = "none"
    <3>1. CallOf(k, n).step = "none"
      BY <2>4 DEF ConfirmInv, Named
    <3>. QED
      BY <2>2, <2>4, <3>1 DEF Progress
  <2>5. CASE orders[k].answer[n].kind = "ok"
    BY <2>1, <2>2, <2>3, <2>5, AnswerTells
  <2>. QED
    BY <2>4, <2>5
<1>. QED
  BY <1>1, <1>2, ConfirmStep, PTL DEF Spec
=============================================================================

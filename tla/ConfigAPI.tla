----------------------------- MODULE ConfigAPI -----------------------------
(***************************************************************************)
(* The endpoints for timings (server/config.go).  A server that is sent an *)
(* order for the cluster updates its own node and posts the order to every *)
(* other server, all at the same time, or asks them what their timings     *)
(* are; it answers when every share is done or has failed.  A post that    *)
(* was given up on after 2 s may still be carried out.  A user may also    *)
(* talk to one server about its own timings: an order with one share.      *)
(***************************************************************************)
EXTENDS LiveTimings

CONSTANTS Coordinator,  \* the server that is sent the orders for the cluster
          MaxOrders,    \* bound: orders and questions
          Asked,        \* bound: the timings that users ask for, in milliseconds
          Milli, Word   \* a millisecond in nanoseconds, and 2^64, scaled down

ASSUME ConfigAssumption ==
  /\ Coordinator \in Node /\ MaxOrders \in Nat /\ Asked \subseteq [et : Int, hb : Int]
  /\ Milli \in Nat \ {0} /\ Word \in Nat \ {0} /\ Word % 2 = 0
  /\ Update = (1 .. MaxOrders) \X Node

VARIABLES orders,  \* what users asked for, and the answers as they come in
          posts    \* requests to peers on their way

vars == <<timingVars, orders, posts>>

(* time.Duration(ms) * time.Millisecond, in an int64; and back. *)
Duration(ms) == ((ms * Milli + Word \div 2) % Word) - Word \div 2
Fits(ms) == ms * Milli \in -(Word \div 2) .. Word \div 2 - 1
Milliseconds(d) == d \div Milli

NotAsked == [kind |-> "none", et |-> 0, hb |-> 0]
NoAnswer == [kind |-> "pending", et |-> 0, hb |-> 0]
Failed   == [kind |-> "error", et |-> 0, hb |-> 0]
Timings(c) == [kind |-> "ok", et |-> Milliseconds(c.et), hb |-> Milliseconds(c.hb)]

Init == TimingsInit /\ orders = <<>> /\ posts = {}

Over(o) == \A n \in Node : o.answer[n].kind # "pending"

Settled == /\ posts = {}
           /\ \A i \in DOMAIN orders : Over(orders[i])
           /\ \A u \in Update : update[u].step \in {"none", "done"}

-----------------------------------------------------------------------------
(* A request for the nodes S.  quiet and before are history: nothing else  *)
(* was under way, and the timings at that moment.                          *)
Give(kind, et, hb, S) ==
  /\ Len(orders) < MaxOrders
  /\ orders' = Append(orders,
       [kind |-> kind, et |-> et, hb |-> hb, quiet |-> Settled,
        before |-> IF Settled THEN config ELSE [n \in Node |-> Initial],
        answer |-> [n \in Node |-> IF n \in S THEN NoAnswer ELSE NotAsked]])
  /\ posts' = posts \cup {<<Len(orders) + 1, n>> : n \in S \ {Coordinator}}
  /\ UNCHANGED timingVars

(* GET and POST /api/cluster/config, and /api/config of one server. *)
fanOutGet  == Give("get", 0, 0, Node)
fanOutPost == \E t \in Asked : Give("post", t.et, t.hb, Node)
handleNodeConfig(n) ==
  \/ Give("get", 0, 0, {n})
  \/ \E t \in Asked : Give("post", t.et, t.hb, {n})

(* A share is begun: the coordinator's own in process, another's by POST   *)
(* /api/config, whose body is in milliseconds.                             *)
BeginSwapped(i, n) ==  \* mutant: the arguments in the wrong order
  LET o == orders[i]
  IN  /\ o.kind = "post" /\ At(<<i, n>>, "none")
      /\ \/ n = Coordinator /\ o.answer[n].kind = "pending"
         \/ <<i, n>> \in posts
      /\ Call(<<i, n>>, n, Duration(o.hb), Duration(o.et))
      /\ posts' = posts \ {<<i, n>>}
      /\ UNCHANGED orders
Begin(i, n) ==
  LET o == orders[i]
  IN  /\ o.kind = "post" /\ At(<<i, n>>, "none")
      /\ \/ n = Coordinator /\ o.answer[n].kind = "pending"
         \/ <<i, n>> \in posts
      /\ Call(<<i, n>>, n, Duration(o.et), Duration(o.hb))
      /\ posts' = posts \ {<<i, n>>}
      /\ UNCHANGED orders

(* The answer reports what GetTimings finds now; it comes in time or not.  *)
Answer(i, n) ==
  IF orders[i].answer[n].kind = "pending"
  THEN orders' = [orders EXCEPT ![i].answer[n] = Timings(config[n])]
  ELSE UNCHANGED orders

Finish(i, n) ==
  /\ At(<<i, n>>, "read")
  /\ update' = [update EXCEPT ![<<i, n>>] = Returned]
  /\ Answer(i, n)
  /\ UNCHANGED <<config, ticker, timingUpdateCh, running, overlapped, posts>>

GetTimings(i, n) ==
  /\ orders[i].kind = "get"
  /\ \/ n = Coordinator /\ orders[i].answer[n].kind = "pending"
     \/ <<i, n>> \in posts
  /\ Answer(i, n)
  /\ posts' = posts \ {<<i, n>>}
  /\ UNCHANGED timingVars

(* 2 s have passed, or the server is not there; the request is lost, or    *)
(* still on its way.                                                       *)
GiveUp(i, n) ==
  /\ n # Coordinator /\ orders[i].answer[n].kind = "pending"
  /\ orders' = [orders EXCEPT ![i].answer[n] = Failed]
  /\ posts' \in {posts, posts \ {<<i, n>>}}
  /\ UNCHANGED timingVars

Work(i, n) == Begin(i, n) \/ Finish(i, n) \/ GetTimings(i, n)

Internal == /\ \/ \E u \in Update : UpdateTimings(u)
               \/ \E n \in Node : Receive(n) \/ Stop(n)
            /\ UNCHANGED <<orders, posts>>

Next ==
  \/ fanOutGet \/ fanOutPost \/ (\E n \in Node : handleNodeConfig(n)) \/ Internal
  \/ \E i \in DOMAIN orders : \E n \in Node : Work(i, n) \/ GiveUp(i, n)

Spec == Init /\ [][Next]_vars

(* One goroutine of the coordinator carries its share of an order out,     *)
(* from the call of UpdateTimings to the answer.                           *)
OwnShare(i) ==
  \/ i \in DOMAIN orders /\ Work(i, Coordinator)
  \/ UpdateTimings(<<i, Coordinator>>) /\ UNCHANGED <<orders, posts>>

(* The coordinator's goroutines run, run() too, and the client of a post   *)
(* gives up.  Nothing is asked of the others, and nobody has to stop a     *)
(* node.                                                                   *)
FairSpec ==
  /\ Spec
  /\ \A i \in 1 .. MaxOrders :
       /\ WF_vars(OwnShare(i))
       /\ \A n \in Node \ {Coordinator} : WF_vars(i \in DOMAIN orders /\ GiveUp(i, n))
  /\ WF_vars(Receive(Coordinator) /\ UNCHANGED <<orders, posts>>)

-----------------------------------------------------------------------------
(* NewTicker and rand.Int63n panic on what is not positive: whatever users *)
(* ask for, with an overflow or without, no such value gets to them.       *)
TimingsPositive ==
  \A n \in Node : /\ config[n].et > 0 /\ config[n].hb > 0 /\ ticker[n] > 0
                  /\ \A j \in DOMAIN timingUpdateCh[n] : timingUpdateCh[n][j] > 0

(* When no update is under way and run() has received, the ticker has the  *)
(* interval of the configuration: unless updates overlapped, when the      *)
(* values may be sent in another order than they were set in.              *)
TickerFollows ==
  \A n \in running \ overlapped :
    UnderWay(n) = {} /\ timingUpdateCh[n] = <<>> => ticker[n] = config[n].hb

(* What value ms of an order makes of the setting old. *)
Outcome(ms, old) == IF Duration(ms) > 0 THEN Duration(ms) ELSE old

(* An order that came when nothing was under way and that every server it  *)
(* concerns has confirmed leaves these nodes with its timings and the      *)
(* others with theirs, and the answers say so, in milliseconds that are    *)
(* those asked for unless they were too many; a question is answered with  *)
(* the timings, and changes none.                                          *)
ConfirmedTimings ==
  \A i \in DOMAIN orders :
    LET o == orders[i]
    IN  (/\ o.quiet /\ i = Len(orders)
         /\ \A n \in Node : o.answer[n].kind \in {"ok", "none"})
        => \A n \in Node :
             IF o.answer[n].kind = "none" THEN config[n] = o.before[n]
             ELSE /\ config[n] = [et |-> Outcome(o.et, o.before[n].et),
                                  hb |-> Outcome(o.hb, o.before[n].hb)]
                  /\ o.answer[n] = Timings(config[n])
                  /\ o.hb > 0 /\ Fits(o.hb) => o.answer[n].hb = o.hb

(* Every order is answered, though a send blocks while the channel is      *)
(* full, as long as the coordinator's own node runs.                       *)
OrderEnds ==
  \A i \in 1 .. MaxOrders : Len(orders) >= i ~> (Len(orders) >= i /\ Over(orders[i]))
=============================================================================

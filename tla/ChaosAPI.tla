------------------------------ MODULE ChaosAPI ------------------------------
(***************************************************************************)
(* The chaos endpoints of the servers (server/chaos.go).  Every server has *)
(* a proxy that intercepts what its own node sends; an order to one of     *)
(* them is carried out by all: the server that receives it works out a     *)
(* plan, applies its own share and posts the others theirs, all at the     *)
(* same time, and answers when each share is done or has failed.           *)
(*                                                                         *)
(* A post that the caller has given up on may still be carried out later.  *)
(* Rule ids are left out: nothing here removes a rule by its id.           *)
(***************************************************************************)
EXTENDS NetworkProxy

CONSTANTS Coordinators,  \* the servers that the user talks to
          Applied,       \* the rules that the user applies to one of them
          MaxOrders      \* bound: how many orders are given

ASSUME OrderAssumption ==
  Coordinators \subseteq Node /\ Applied \subseteq ProxyRule /\ MaxOrders \in Nat

VARIABLES proxies,   \* the rules of each node's proxy
          orders,  \* the orders so far, oldest first
          posts    \* requests to peers on their way

apiVars == <<proxies, orders, posts>>

(* The state of each node's share of an order: not in the plan, under way,  *)
(* done, failed as far as the coordinator knows.                           *)
Results == {"none", "pending", "ok", "error"}

(* a is the target, or the rule to apply; b the second node of a           *)
(* partition.  quiet is history: nothing else was under way when the order *)
(* came.                                                                   *)
Order == [kind : {"isolate", "partition", "delay", "loss", "heal", "apply",
                  "clear"},
          by : Coordinators, a : Node \cup {Any} \cup Applied, b : Node \cup {Any},
          result : [Node -> Results], quiet : BOOLEAN]

Post == [order : Nat, to : Node]

RuleTo(to, action, param) ==
  [from |-> Any, to |-> to, action |-> action, param |-> param]

(* A rule for all that the target sends, and one on every other node for   *)
(* what is sent to the target.                                             *)
PlanAround(t, action, param) ==
  [n \in Node |-> IF n = t THEN <<RuleTo(Any, action, param)>>
                           ELSE <<RuleTo(t, action, param)>>]

(* The orders that clear the rules, of all nodes or of one. *)
Clearing == {"heal", "clear"}

(* The plan of each handler: what every node is to install.  The orders    *)
(* "apply" and "clear" concern the node itself only.  The rule to apply is *)
(* the user's: any nodes and any action ("pass" if actionFromString does   *)
(* not know it); a list of rules is as many orders.                        *)
Plan(o) ==
  CASE o.kind = "isolate"   -> PlanAround(o.a, "drop", "none")
    [] o.kind = "delay"     -> PlanAround(o.a, "delay", "int")
    [] o.kind = "loss"      -> PlanAround(o.a, "loss", "float64")
    [] o.kind = "partition" -> [n \in Node |->
                                  CASE n = o.a -> <<RuleTo(o.b, "drop", "none")>>
                                    [] n = o.b -> <<RuleTo(o.a, "drop", "none")>>
                                    [] OTHER   -> <<>>]
    [] o.kind = "apply"     -> [n \in Node |-> <<o.a>>]
    [] o.kind \in Clearing  -> [n \in Node |-> <<>>]

(* The nodes that have a share. *)
Concerned(kind, c, a, b) == CASE kind = "partition" -> {a, b}
                              [] kind \in {"apply", "clear"} -> {c}
                              [] OTHER -> Node

(* dispatchRules sends the rules as JSON, which has one type of number: an *)
(* int arrives as a float64.                                               *)
OverTheWire(rule) ==
  IF rule.param = "int" THEN [rule EXCEPT !.param = "float64"] ELSE rule

ApiInit == /\ proxies = [n \in Node |-> ClearRules]
        /\ orders = <<>>
        /\ posts = {}

Over(o) == \A n \in Node : o.result[n] # "pending"

-----------------------------------------------------------------------------
(* An order comes in at c, and the goroutines of its plan start. *)
Give(kind, c, a, b) ==
  LET S == Concerned(kind, c, a, b)
      o == [kind |-> kind, by |-> c, a |-> a, b |-> b,
            result |-> [n \in Node |-> IF n \in S THEN "pending" ELSE "none"],
            quiet |-> posts = {} /\ \A i \in DOMAIN orders : Over(orders[i])]
  IN  /\ Len(orders) < MaxOrders
      /\ orders' = Append(orders, o)
      /\ posts' = posts \cup {[order |-> Len(orders) + 1, to |-> n] : n \in S \ {c}}
      /\ UNCHANGED proxies

handleIsolate(c)      == \E a \in Node : Give("isolate", c, a, Any)
handleDelay(c)        == \E a \in Node : Give("delay", c, a, Any)
handleLoss(c)         == \E a \in Node : Give("loss", c, a, Any)
handlePartition(c)    == \E a \in Node : \E b \in Node \ {a} : Give("partition", c, a, b)
handleClusterHeal(c)  == Give("heal", c, Any, Any)
handleApplyLocal(c)   == \E r \in Applied : Give("apply", c, r, Any)
handleHealLocal(c)    == Give("clear", c, Any, Any)

SetResult(i, n, r) == orders' = [orders EXCEPT ![i].result[n] = r]

(* A share is carried out: applyLocal, or ClearRules. *)
Carried(n, kind, new) ==
  [proxies EXCEPT ![n] = IF kind \in Clearing THEN ClearRules ELSE AddRules(@, new)]

(* The coordinator's own share, in process. *)
LocalShareSkipsHeal(i) ==  \* mutant: a heal forgets the coordinator
  LET o == orders[i]
  IN  /\ o.result[o.by] = "pending"
      /\ proxies' = IF o.kind = "heal" THEN proxies
                  ELSE Carried(o.by, o.kind, Plan(o)[o.by])
      /\ SetResult(i, o.by, "ok")
      /\ UNCHANGED posts
LocalShare(i) ==
  LET o == orders[i]
  IN  /\ o.result[o.by] = "pending"
      /\ proxies' = Carried(o.by, o.kind, Plan(o)[o.by])
      /\ SetResult(i, o.by, "ok")
      /\ UNCHANGED posts

(* A peer carries out its share.  Its answer comes in time, or when the    *)
(* caller has given up; a lost answer is no different from that.           *)
PeerShare(m) ==
  LET o == orders[m.order]
  IN  /\ proxies' = Carried(m.to, o.kind, [j \in DOMAIN Plan(o)[m.to] |->
                                           OverTheWire(Plan(o)[m.to][j])])
      /\ IF o.result[m.to] = "pending" THEN SetResult(m.order, m.to, "ok")
                                       ELSE UNCHANGED orders
      /\ posts' = posts \ {m}

(* The caller gives up: 2 s have passed, or the connection is refused, or  *)
(* its own client has gone.  The request is lost, or still on its way.     *)
PostFailsIfLost(i, n) ==  \* mutant: no timeout for a request on its way
  /\ n # orders[i].by
  /\ orders[i].result[n] = "pending"
  /\ [order |-> i, to |-> n] \notin posts
  /\ SetResult(i, n, "error")
  /\ UNCHANGED <<proxies, posts>>
PostFails(i, n) ==
  /\ n # orders[i].by
  /\ orders[i].result[n] = "pending"
  /\ SetResult(i, n, "error")
  /\ posts' \in {posts, posts \ {[order |-> i, to |-> n]}}
  /\ UNCHANGED proxies

ApiNext ==
  \/ \E c \in Coordinators :
       \/ handleIsolate(c) \/ handlePartition(c) \/ handleDelay(c)
       \/ handleLoss(c) \/ handleClusterHeal(c)
       \/ handleApplyLocal(c) \/ handleHealLocal(c)
  \/ \E i \in DOMAIN orders : LocalShare(i) \/ \E n \in Node : PostFails(i, n)
  \/ \E m \in posts : PeerShare(m)

ApiSpec == ApiInit /\ [][ApiNext]_apiVars

(* The goroutines run, and a post without an answer ends after 2 s. *)
ApiFairSpec ==
  /\ ApiSpec
  /\ \A i \in 1 .. MaxOrders :
       /\ WF_apiVars(i \in DOMAIN orders /\ LocalShare(i))
       /\ \A n \in Node : WF_apiVars(i \in DOMAIN orders /\ PostFails(i, n))

-----------------------------------------------------------------------------
(* A cluster heal that came when nothing was under way, that every node    *)
(* has confirmed and that nothing has followed, leaves every link open.    *)
(* (Came when nothing was under way: a post of an earlier order that its   *)
(* caller gave up on may be carried out after the heal.)                   *)
CleanHeal ==
  orders # <<>> =>
    LET o == orders[Len(orders)]
    IN  o.kind = "heal" /\ o.quiet /\ (\A n \in Node : o.result[n] = "ok")
          => \A a, b \in Node : ShouldDeliver(proxies[a], a, b) = {"now"}

(* The links an order is to cut, in both directions. *)
Cut(o) == CASE o.kind = "isolate"   -> {l \in Node \X Node : o.a \in {l[1], l[2]}
                                                             /\ l[1] # l[2]}
            [] o.kind = "partition" -> {<<o.a, o.b>>, <<o.b, o.a>>}
            [] OTHER                -> {}

(* An isolation or a partition that all nodes have confirmed cuts its      *)
(* links in both directions, whatever other cuts come before, after or at  *)
(* the same time, and also when delays, losses or passes come after it;    *)
(* until somebody heals.                                                   *)
OrderedCutsHold ==
  \A i \in DOMAIN orders :
    (/\ \A n \in Node : orders[i].result[n] \in {"ok", "none"}
     /\ \A j \in DOMAIN orders : orders[j].kind \notin Clearing
     /\ \A j \in DOMAIN orders :
          \/ orders[j].kind \in {"isolate", "partition"}
          \/ j > i /\ orders[j].quiet)
    => \A l \in Cut(orders[i]) : ShouldDeliver(proxies[l[1]], l[1], l[2]) = {"dropped"}

(* Every order is answered, however many nodes are out of reach.           *)
OrderEnds ==
  \A i \in 1 .. MaxOrders :
    Len(orders) >= i ~> (Len(orders) >= i /\ Over(orders[i]))
=============================================================================

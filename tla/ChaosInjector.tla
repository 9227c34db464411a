--------------------------- MODULE ChaosInjector ---------------------------
(***************************************************************************)
(* The chaos injector of the in-process clusters (chaos/), its nodes and   *)
(* the in-memory transport between them.  All nodes share one proxy.  A    *)
(* scenario drives the injector, one call after the other; the goroutines  *)
(* that heal an injection when its time is up and the calls between nodes  *)
(* run at the same time.                                                   *)
(*                                                                         *)
(* A node is a sequence of instances, numbered from 1: RestartNode makes   *)
(* the next one.  The rules of one injection are added in one step: no     *)
(* call matches both in a way that tells the order apart.  What stands in  *)
(* the reports (RecordObservation) is left out.                            *)
(***************************************************************************)
EXTENDS NetworkProxy

CONSTANTS Targets,        \* bound: the nodes that the scenario meddles with
          MaxInjections,  \* bound: injections of one scenario
          MaxInstances,   \* bound: instances of one node
          MaxCalls,       \* bound: calls between nodes under way
          MaxHeals        \* bound: calls of Heal and HealPartition

ASSUME InjectorAssumption ==
  /\ MaxInjections \in Nat /\ MaxCalls \in Nat /\ MaxHeals \in Nat
  /\ MaxInstances \in Nat \ {0}
  /\ Targets \subseteq Node

VARIABLES rules,        \* the shared proxy
          ruleCounter,  \* the last id given
          injections,   \* what was injected so far, with the timers' progress
          driver,       \* where the scenario is in a call of the injector
          nodes,        \* the injector's own table: the instance it would stop
          registry,     \* the transport's table: the instance that is called
          running,      \* the instances of each node that run
          made,         \* how many instances NewRaftNode has made
          calls,        \* calls that have passed the proxy
          heals

vars == <<rules, ruleCounter, injections, driver, nodes, registry, running,
          made, calls, heals>>

Idle == [op |-> "idle", node |-> Any, inj |-> 0, step |-> 0]

(* An injection: its rules' ids; left, the ids that the timer goroutine    *)
(* has yet to remove; gone, history: the ids that somebody has removed or  *)
(* cleared.                                                                *)
InjectionResult ==
  [kind : {"partition", "apart", "delay", "loss", "crash"},
   rules : Seq(ProxyRule), ids : Seq(Nat), timed : BOOLEAN,
   left : Seq(Nat), gone : SUBSET Nat]

Init ==
  /\ rules = ClearRules /\ ruleCounter = 0 /\ injections = <<>>
  /\ driver = Idle /\ calls = {} /\ heals = 0
  /\ nodes = [n \in Node |-> 1] /\ registry = nodes /\ made = nodes
  /\ running = [n \in Node |-> {1}]

Rule(from, to, action, param) ==
  [from |-> from, to |-> to, action |-> action, param |-> param]

(* The two rules around a node: what it sends and what is sent to it. *)
Around(n, action, param) == <<Rule(n, Any, action, param), Rule(Any, n, action, param)>>

nextID(k) == [j \in 1 .. k |-> ruleCounter + j]

-----------------------------------------------------------------------------
(* Rules are added under fresh ids; a duration starts a goroutine that     *)
(* sleeps first.                                                           *)
Inject(kind, new, timed) ==
  LET ids == nextID(Len(new))
  IN  /\ driver = Idle
      /\ Len(injections) < MaxInjections
      /\ ruleCounter' = ruleCounter + Len(new)
      /\ rules' = AddRules(rules, [j \in DOMAIN new |->
                    [id |-> ids[j], from |-> new[j].from, to |-> new[j].to,
                     action |-> new[j].action, param |-> new[j].param]])
      /\ injections' = Append(injections,
           [kind |-> kind, rules |-> new, ids |-> ids, timed |-> timed,
            left |-> IF timed THEN ids ELSE <<>>, gone |-> {}])
      /\ UNCHANGED <<nodes, registry, running, made, calls, heals>>

PartitionNode(n, timed) ==
  Inject("partition", Around(n, "drop", "none"), timed) /\ UNCHANGED driver

(* An unknown direction adds nothing. *)
PartitionAsymmetric(a, b, direction) ==
  LET there == Rule(a, b, "drop", "none")
      back  == Rule(b, a, "drop", "none")
  IN  /\ Inject("apart", CASE direction = "both"      -> <<there, back>>
                           [] direction = "from_only" -> <<there>>
                           [] direction = "to_only"   -> <<back>>
                           [] OTHER                   -> <<>>, FALSE)
      /\ UNCHANGED driver

InjectDelay(n, timed) ==
  Inject("delay", Around(n, "delay", "int"), timed) /\ UNCHANGED driver

InjectPacketLoss(n, timed) ==
  Inject("loss", Around(n, "loss", "float64"), timed) /\ UNCHANGED driver

(* CrashNode cuts the node off and then stops the instance it knows, once. *)
CrashNode(n) ==
  /\ Inject("crash", Around(n, "drop", "none"), FALSE)
  /\ driver' = [Idle EXCEPT !.op = "stop", !.node = n]

StopNode ==
  /\ driver.op = "stop"
  /\ running' = [running EXCEPT ![driver.node] = @ \ {nodes[driver.node]}]
  /\ driver' = Idle
  /\ UNCHANGED <<rules, ruleCounter, injections, nodes, registry, made, calls, heals>>

-----------------------------------------------------------------------------
(* Ids that are removed, or cleared, are gone. *)
AllGone == [i \in DOMAIN injections |->
              [injections[i] EXCEPT !.gone = {injections[i].ids[j] :
                                                j \in DOMAIN injections[i].ids}]]

Heal ==
  /\ driver = Idle /\ heals < MaxHeals
  /\ rules' = ClearRules
  /\ injections' = AllGone
  /\ heals' = heals + 1
  /\ UNCHANGED <<ruleCounter, driver, nodes, registry, running, made, calls>>

(* HealPartition removes the rules of a result, one at a time.  A delay    *)
(* and a loss return no result.                                            *)
HealPartition(i) ==
  /\ driver = Idle /\ heals < MaxHeals
  /\ injections[i].kind \in {"partition", "apart", "crash"}
  /\ driver' = [Idle EXCEPT !.op = "heal", !.inj = i, !.step = 1]
  /\ heals' = heals + 1
  /\ UNCHANGED <<rules, ruleCounter, injections, nodes, registry, running, made, calls>>

HealStep ==
  LET i == driver.inj
      k == driver.step
  IN  /\ driver.op = "heal"
      /\ IF k \in DOMAIN injections[i].ids
         THEN /\ rules' = RemoveRule(rules, injections[i].ids[k])
              /\ injections' = [injections EXCEPT ![i].gone = @ \cup {injections[i].ids[k]}]
              /\ driver' = [driver EXCEPT !.step = k + 1]
         ELSE driver' = Idle /\ UNCHANGED <<rules, injections>>
      /\ UNCHANGED <<ruleCounter, nodes, registry, running, made, calls, heals>>

(* The goroutine of a timed injection, awake: it removes both rules,       *)
(* whether they are still there or not.                                    *)
TimedHealOnce(i) ==  \* mutant: the second rule is forgotten
  /\ injections[i].left # <<>>
  /\ rules' = RemoveRule(rules, Head(injections[i].left))
  /\ injections' = [injections EXCEPT ![i].left = <<>>,
                                      ![i].gone = @ \cup {Head(injections[i].left)}]
  /\ UNCHANGED <<ruleCounter, driver, nodes, registry, running, made, calls, heals>>
TimedHeal(i) ==
  /\ injections[i].left # <<>>
  /\ rules' = RemoveRule(rules, Head(injections[i].left))
  /\ injections' = [injections EXCEPT ![i].left = Tail(@),
                                      ![i].gone = @ \cup {Head(injections[i].left)}]
  /\ UNCHANGED <<ruleCounter, driver, nodes, registry, running, made, calls, heals>>

-----------------------------------------------------------------------------
(* RestartNode clears all rules, makes an instance, enters it in its table *)
(* and starts it.  It does not look whether an instance is running.  (An   *)
(* injector without a factory returns at once and changes nothing.)        *)
RestartNode(n) ==
  /\ driver = Idle
  /\ made[n] < MaxInstances
  /\ rules' = ClearRules
  /\ injections' = AllGone
  /\ driver' = [Idle EXCEPT !.op = "create", !.node = n]
  /\ UNCHANGED <<ruleCounter, nodes, registry, running, made, calls, heals>>

MakeNodeUnlisted ==  \* mutant: the injector's table is not updated
  /\ driver.op = "create"
  /\ made' = [made EXCEPT ![driver.node] = @ + 1]
  /\ driver' = [driver EXCEPT !.op = "start"]
  /\ UNCHANGED <<rules, ruleCounter, injections, nodes, registry, running, calls, heals>>
MakeNode ==
  /\ driver.op = "create"
  /\ made' = [made EXCEPT ![driver.node] = @ + 1]
  /\ nodes' = [nodes EXCEPT ![driver.node] = made'[driver.node]]
  /\ driver' = [driver EXCEPT !.op = "start"]
  /\ UNCHANGED <<rules, ruleCounter, injections, registry, running, calls, heals>>

(* The factory fails: the log cannot be read. *)
MakeNodeFails ==
  /\ driver.op = "create"
  /\ driver' = Idle
  /\ UNCHANGED <<rules, ruleCounter, injections, nodes, registry, running, made,
                 calls, heals>>

(* Start registers the instance and starts its loop. *)
StartNode ==
  LET n == driver.node
  IN  /\ driver.op = "start"
      /\ registry' = [registry EXCEPT ![n] = made[n]]
      /\ running' = [running EXCEPT ![n] = @ \cup {made[n]}]
      /\ driver' = Idle
      /\ UNCHANGED <<rules, ruleCounter, injections, nodes, made, calls, heals>>

-----------------------------------------------------------------------------
(* A running node calls another: applyProxy lets the call pass, at once or *)
(* later, or drops it.                                                     *)
SendUnchecked(a, b) ==  \* mutant: a drop is taken for a delay
  /\ running[a] # {} /\ Cardinality(calls) < MaxCalls
  /\ calls' = calls \cup {[from |-> a, to |-> b]}
  /\ UNCHANGED <<rules, ruleCounter, injections, driver, nodes, registry,
                 running, made, heals>>
Send(a, b) ==
  /\ running[a] # {} /\ Cardinality(calls) < MaxCalls
  /\ ShouldDeliver(rules, a, b) \cap {"now", "late"} # {}
  /\ calls' = calls \cup {[from |-> a, to |-> b]}
  /\ UNCHANGED <<rules, ruleCounter, injections, driver, nodes, registry,
                 running, made, heals>>

(* The call reaches the instance that is registered now, running or not,   *)
(* or its context ends while it waits.  What the handlers do is RaftNode's.*)
Deliver(c) ==
  /\ calls' = calls \ {c}
  /\ UNCHANGED <<rules, ruleCounter, injections, driver, nodes, registry,
                 running, made, heals>>

Directions == {"both", "from_only", "to_only", "unknown"}

(* The scenarios restart "a previously crashed node" only (crash.go:51). *)
Crashed(n) == running[n] = {}

Next ==
  \/ \E n \in Targets :
       \/ \E timed \in BOOLEAN : \/ PartitionNode(n, timed)
                                \/ InjectDelay(n, timed)
                                \/ InjectPacketLoss(n, timed)
       \/ \E b \in Node \ {n}, d \in Directions : PartitionAsymmetric(n, b, d)
       \/ CrashNode(n) \/ (Crashed(n) /\ RestartNode(n))
  \/ \E a \in Node : \E b \in Node \ {a} : Send(a, b)
  \/ Heal \/ StopNode \/ HealStep \/ MakeNode \/ MakeNodeFails \/ StartNode
  \/ \E i \in DOMAIN injections : HealPartition(i) \/ TimedHeal(i)
  \/ \E c \in calls : Deliver(c)

Spec == Init /\ [][Next]_vars

(* A sleeping goroutine wakes up, and a scenario goes on. *)
FairSpec ==
  /\ Spec
  /\ \A i \in 1 .. MaxInjections : WF_vars(i \in DOMAIN injections /\ TimedHeal(i))

-----------------------------------------------------------------------------
(* The rules of an injection that are still to be in place. *)
Standing(i) == {[id |-> injections[i].ids[j], rule |-> injections[i].rules[j]] :
                  j \in {k \in DOMAIN injections[i].ids :
                           injections[i].ids[k] \notin injections[i].gone}}

(* The proxy holds exactly the rules that were injected and that no heal,  *)
(* timer or restart was to remove, the older ones first: a timer that goes *)
(* off after its rules were cleared, and a heal that is repeated, take     *)
(* nothing of anybody else's.                                              *)
RulesAccounted ==
  /\ {[id |-> rules[k].id, rule |-> Rule(rules[k].from, rules[k].to,
                                         rules[k].action, rules[k].param)] :
        k \in DOMAIN rules} = UNION {Standing(i) : i \in DOMAIN injections}
  /\ \A k, m \in DOMAIN rules : k < m => rules[k].id < rules[m].id

(* Of the injections before the i-th, one that neither cuts nor is gone    *)
(* covers the link: its rule is found first.                               *)
Shadowed(i, a, b) ==
  \E j \in 1 .. i - 1 : \E s \in Standing(j) :
    matches(s.rule, a, b) /\ s.rule.action # "drop"

(* No call passes on a link that a partition or a crash cuts, in whatever  *)
(* order injections and heals came; but a delay or a loss that was there   *)
(* before lets calls through, to a crashed node too.                       *)
CutsHold ==
  [][\A c \in calls' \ calls : \A i \in DOMAIN injections :
       (\E s \in Standing(i) : matches(s.rule, c.from, c.to)
                                /\ s.rule.action = "drop")
       => Shadowed(i, c.from, c.to)]_vars

(* Between two calls of the injector a node has one instance at most that  *)
(* runs, it is the one that peers call, and the one CrashNode would stop.  *)
InstancesAgree ==
  driver = Idle => \A n \in Node : /\ nodes[n] = registry[n]
                                   /\ running[n] \subseteq {nodes[n]}

(* An injection with a duration is healed some day, whatever the scenario  *)
(* does meanwhile.                                                         *)
TimedHealEnds ==
  \A i \in 1 .. MaxInjections :
    (Len(injections) >= i /\ injections[i].timed)
      ~> (/\ Len(injections) >= i
          /\ \A j \in DOMAIN injections[i].ids :
               \A k \in DOMAIN rules : rules[k].id # injections[i].ids[j])
=============================================================================

---------------------------- MODULE NetworkProxy ----------------------------
(***************************************************************************)
(* The rules of one node's proxy (transport/proxy.go), as operators on the *)
(* list of rules.  A rule has a sender and a receiver, either of which may *)
(* be Any, the empty string of the code; an action; and the Go type of its *)
(* parameter, which is all that ShouldDeliver tells apart besides its size. *)
(***************************************************************************)
EXTENDS Integers, Sequences, FiniteSetsExt

CONSTANTS Node, Any

ASSUME ProxyAssumption == Any \notin Node

Actions == {"pass", "drop", "delay", "loss"}

ParamTypes == {"none", "int", "float64"}

ProxyRule == [from : Node \cup {Any}, to : Node \cup {Any},
              action : Actions, param : ParamTypes]

matches(rule, from, to) == rule.from \in {Any, from} /\ rule.to \in {Any, to}

(* What a rule may do to a message.  A delay that is not an int is 0; the  *)
(* rate of a loss lies strictly between 0 and 1.                           *)
Effects(rule) ==
  CASE rule.action = "drop"  -> {"dropped"}
    [] rule.action = "delay" -> IF rule.param = "int" THEN {"late"} ELSE {"now"}
    [] rule.action = "loss"  -> IF rule.param = "float64" THEN {"dropped", "now"}
                                ELSE {"now"}
    [] rule.action = "pass"  -> {"now"}

(* The first rule that matches decides. *)
LastMatchDecides(rules, from, to) ==  \* mutant: a later rule overrides
  LET M == {i \in DOMAIN rules : matches(rules[i], from, to)}
  IN  IF M = {} THEN {"now"} ELSE Effects(rules[Max(M)])
ShouldDeliver(rules, from, to) ==
  LET M == {i \in DOMAIN rules : matches(rules[i], from, to)}
  IN  IF M = {} THEN {"now"} ELSE Effects(rules[Min(M)])

(* AddRule, for several rules one after the other. *)
AddRules(rules, new) == rules \o new

ClearRules == <<>>

(* All rules with the id go; the others keep their order. *)
RemoveRuleAndLater(rules, id) ==  \* mutant: the filtered list ends at the rule
  LET M == {i \in DOMAIN rules : rules[i].id = id}
  IN  IF M = {} THEN rules ELSE SubSeq(rules, 1, Min(M) - 1)
RemoveRule(rules, id) ==
  LET kept   == {k \in DOMAIN rules : rules[k].id # id}
      nth(i) == CHOOSE k \in kept : Cardinality({j \in kept : j <= k}) = i
  IN  [i \in 1 .. Cardinality(kept) |-> rules[nth(i)]]
=============================================================================

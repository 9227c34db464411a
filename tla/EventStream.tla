---------------------------- MODULE EventStream ----------------------------
(***************************************************************************)
(* The dashboard's view of the cluster and its stream of events            *)
(* (fetchClusterSnapshot, fetchNodeStatus and HandleEvents in              *)
(* server/api.go).  Twice a second the observing server collects the       *)
(* status of every node, its own directly and the others' over HTTP, all   *)
(* at once and each at its own moment; a node that has not answered after  *)
(* 500 ms is shown as down.  What changed since the last snapshot is sent  *)
(* as events.                                                              *)
(*                                                                         *)
(* Nodes are numbered, since views are sorted by id.  What the nodes do is *)
(* the Raft core's (module Raft): here terms grow and leaders come and go. *)
(***************************************************************************)
EXTENDS Naturals, FiniteSetsExt

CONSTANTS Node, Observer,
          MaxTerm,    \* bound: the highest term
          MaxFaults   \* bound: how often a server breaks down or comes back

ASSUME StreamAssumption ==
  /\ Node \subseteq Nat \ {0} /\ IsFiniteSet(Node) /\ Observer \in Node
  /\ MaxTerm \in Nat /\ MaxFaults \in Nat

VARIABLES status,   \* of each node: does it lead, its term
          serving,  \* does its server answer: "up", "hung" (it takes requests), "down"
          faults,
          views,    \* the answers to the snapshot under way
          prev,     \* the last snapshot, in a sequence that is empty at first
          told,     \* what a viewer makes of the first snapshot and the events
          steady    \* history: since the last snapshot began, nothing has changed and
                    \* no answer was late

vars == <<status, serving, faults, views, prev, told, steady>>

NoLeader == 0
Missing  == [got |-> FALSE, reachable |-> FALSE, leads |-> FALSE, term |-> 0]
Down     == [Missing EXCEPT !.got = TRUE]
ViewOf(n) == [got |-> TRUE, reachable |-> TRUE, leads |-> status[n].leads,
              term |-> status[n].term]

NoViews == [n \in Node |-> Missing]

(* The last node, in the order of ids, that calls itself leader; and the   *)
(* highest term, whoever reports it.                                       *)
SnapshotOwnTerm(v) ==  \* mutant: the term is the observer's
  LET L == {n \in Node : v[n].leads}
  IN  [leader |-> IF L = {} THEN NoLeader ELSE Max(L),
       term   |-> v[Observer].term,
       down   |-> {n \in Node : ~v[n].reachable}]
Snapshot(v) ==
  LET L == {n \in Node : v[n].leads}
  IN  [leader |-> IF L = {} THEN NoLeader ELSE Max(L),
       term   |-> Max({v[n].term : n \in Node}),
       down   |-> {n \in Node : ~v[n].reachable}]

Init ==
  /\ status = [n \in Node |-> [leads |-> FALSE, term |-> 0]]
  /\ serving = [n \in Node |-> "up"] /\ faults = 0
  /\ views = NoViews
  /\ prev = <<>> /\ told = <<>> /\ steady = FALSE

-----------------------------------------------------------------------------
(* The cluster.  becomeLeader leaves the term as it is; becomeCandidate    *)
(* and becomeFollower raise it.                                            *)
Elected(n) ==
  /\ status[n].term > 0 /\ ~status[n].leads
  /\ status' = [status EXCEPT ![n].leads = TRUE]
  /\ steady' = FALSE
  /\ UNCHANGED <<serving, faults, views, prev, told>>

Follows(n) ==
  /\ \E t \in status[n].term .. MaxTerm :
       status' = [status EXCEPT ![n] = [leads |-> FALSE, term |-> t]]
  /\ status' # status
  /\ steady' = FALSE
  /\ UNCHANGED <<serving, faults, views, prev, told>>

Fault(n) ==
  /\ n # Observer /\ faults < MaxFaults
  /\ \E s \in {"up", "hung", "down"} \ {serving[n]} :
       serving' = [serving EXCEPT ![n] = s]
  /\ faults' = faults + 1
  /\ steady' = FALSE
  /\ UNCHANGED <<status, views, prev, told>>

-----------------------------------------------------------------------------
(* A snapshot begins with the observer's own status. *)
BeginSnapshot ==
  /\ ~views[Observer].got
  /\ views' = [NoViews EXCEPT ![Observer] = ViewOf(Observer)]
  /\ steady' = TRUE
  /\ UNCHANGED <<status, serving, faults, prev, told>>

Pending(n) == views[Observer].got /\ ~views[n].got

fetchNodeStatus(n) ==
  /\ Pending(n) /\ serving[n] = "up"
  /\ views' = [views EXCEPT ![n] = ViewOf(n)]
  /\ UNCHANGED <<status, serving, faults, prev, told, steady>>

(* The connection is refused, or 500 ms have passed. *)
FetchFailsIfRefused(n) ==  \* mutant: no timeout
  /\ Pending(n) /\ serving[n] = "down"
  /\ views' = [views EXCEPT ![n] = Down]
  /\ UNCHANGED <<status, serving, faults, prev, told, steady>>
FetchFails(n) ==
  /\ Pending(n)
  /\ views' = [views EXCEPT ![n] = Down]
  /\ steady' = (steady /\ serving[n] # "up")
  /\ UNCHANGED <<status, serving, faults, prev, told>>

(* The events that a new snapshot gives rise to, as a viewer takes them. *)
LeaderChange(a, b, t) == IF b.leader # a.leader /\ b.leader # NoLeader THEN b.leader ELSE t
TermChange(a, b, t)   == IF b.term > a.term THEN b.term ELSE t
NodeEvents(a, b, t)   == (t \cup (b.down \ a.down)) \ (a.down \ b.down)

(* All answers are in: the first snapshot is sent as it is; after that,    *)
(* what changed.                                                           *)
PublishKeepsFirst ==  \* mutant: always compared with the first snapshot
  LET s == Snapshot(views)
  IN  /\ \A n \in Node : views[n].got
      /\ IF prev = <<>> THEN prev' = <<s>> /\ told' = <<s>>
         ELSE /\ prev' = prev
              /\ told' = <<[leader |-> LeaderChange(prev[1], s, told[1].leader),
                            term   |-> TermChange(prev[1], s, told[1].term),
                            down   |-> NodeEvents(prev[1], s, told[1].down)]>>
      /\ views' = NoViews
      /\ UNCHANGED <<status, serving, faults, steady>>
Publish ==
  LET s == Snapshot(views)
  IN  /\ \A n \in Node : views[n].got
      /\ prev' = <<s>>
      /\ told' = IF prev = <<>> THEN <<s>>
                 ELSE <<[leader |-> LeaderChange(prev[1], s, told[1].leader),
                         term   |-> TermChange(prev[1], s, told[1].term),
                         down   |-> NodeEvents(prev[1], s, told[1].down)]>>
      /\ views' = NoViews
      /\ UNCHANGED <<status, serving, faults, steady>>

(* The viewer leaves, between two snapshots, and comes back. *)
Reconnect ==
  /\ views = NoViews /\ prev # <<>>
  /\ prev' = <<>> /\ told' = <<>>
  /\ UNCHANGED <<status, serving, faults, views, steady>>

Next ==
  \/ \E n \in Node : \/ Elected(n) \/ Follows(n) \/ Fault(n)
                     \/ fetchNodeStatus(n) \/ FetchFails(n)
  \/ BeginSnapshot \/ Publish \/ Reconnect

Spec == Init /\ [][Next]_vars

(* The ticker ticks, requests end after 500 ms, and the handler goes on.   *)
FairSpec == /\ Spec
            /\ WF_vars(BeginSnapshot) /\ WF_vars(Publish)
            /\ \A n \in Node : WF_vars(FetchFails(n))

-----------------------------------------------------------------------------
(* Who follows the events from the first snapshot on knows which nodes are *)
(* down, and the leader if there is one, as the last snapshot has them:    *)
(* every change is told, once, though leaders vanish and nodes come and go *)
(* between snapshots.  The term told last is not behind (it may be ahead,  *)
(* when the node that reported it has gone).                               *)
EventsTellAll ==
  prev # <<>> =>
    /\ told[1].down = prev[1].down
    /\ prev[1].leader # NoLeader => told[1].leader = prev[1].leader
    /\ told[1].term >= prev[1].term

(* A snapshot during which nothing changed and nobody was late is exact;   *)
(* its leader is the one of the nodes it reached that calls itself so, if  *)
(* there is one only.  (Of several, a deposed leader may be shown.)        *)
SnapshotTrue ==
  (prev # <<>> /\ steady /\ views = NoViews) =>
    LET up == {n \in Node : serving[n] = "up"}
        L  == {n \in up : status[n].leads}
    IN  /\ prev[1].down = Node \ up
        /\ prev[1].term = Max({status[n].term : n \in up})
        /\ prev[1].leader \in L \cup {NoLeader}
        /\ prev[1].leader = NoLeader <=> L = {}

(* Snapshots go on coming, however many servers hang. *)
FramesGoOn == \A n \in Node : Pending(n) ~> views = NoViews
=============================================================================

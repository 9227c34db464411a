------------------------------ MODULE RaftNode ------------------------------
(***************************************************************************)
(* One raftly node per element of Node: the fields of the RaftNode struct  *)
(* (raft/node.go) that the protocol reads, and the three role changes that *)
(* every handler goes through.  Every operator here is a critical section  *)
(* under n.mu, or part of one.                                             *)
(***************************************************************************)
EXTENDS RaftLog, FiniteSets

CONSTANTS Node,          \* the ids of the cluster's nodes
          NoNode,        \* the empty string: no vote, no known leader
          Value,         \* commands that clients propose
          EnablePreVote, \* Config.EnablePreVote
          MaxTerm,       \* bound: no campaign starts at this term
          MaxLogLen      \* bound: no leader appends to a log this long

ASSUME NodeAssumption == /\ NoNode \notin Node
                         /\ IsFiniteSet(Node)
                         /\ Node # {}
ASSUME BoundAssumption == MaxTerm \in Nat /\ MaxLogLen \in Nat
ASSUME PreVoteAssumption == EnablePreVote \in BOOLEAN

VARIABLES currentTerm, votedFor, \* durable: term and vote
          state, leaderID,       \* volatile: role and believed leader
          log, commitIndex,      \* RaftLog
          nextIndex, matchIndex, \* Peer.NextIndex, Peer.MatchIndex
          timer                  \* is electionTimer running?

voteVars == <<currentTerm, votedFor>>
roleVars == <<state, leaderID, timer>>
logVars  == <<log, commitIndex>>
peerVars == <<nextIndex, matchIndex>>
nodeVars == <<voteVars, roleVars, logVars, peerVars>>

States == {"Follower", "PreCandidate", "Candidate", "Leader"}

(* What a leader's own entry holds: Data is nil. *)
Noop == "noop"

Entry == [index : Nat, term : Nat, data : Value \cup {Noop}]

Peers(n) == Node \ {n}

(* floor(N/2) + 1, with N counted from the peers map plus the node itself. *)
Quorum == Cardinality(Node) \div 2 + 1

NodeInit ==
  /\ currentTerm = [n \in Node |-> 0]
  /\ votedFor    = [n \in Node |-> NoNode]
  /\ state       = [n \in Node |-> "Follower"]
  /\ leaderID    = [n \in Node |-> NoNode]
  /\ log         = [n \in Node |-> <<>>]
  /\ commitIndex = [n \in Node |-> 0]
  /\ nextIndex   = [n \in Node |-> [p \in Peers(n) |-> 0]]
  /\ matchIndex  = [n \in Node |-> [p \in Peers(n) |-> 0]]
  /\ timer       = [n \in Node |-> TRUE]

(* Each node's record types, the part of every type invariant. *)
NodeTypeOK ==
  /\ currentTerm \in [Node -> Nat]
  /\ votedFor    \in [Node -> Node \cup {NoNode}]
  /\ state       \in [Node -> States]
  /\ leaderID    \in [Node -> Node \cup {NoNode}]
  /\ log         \in [Node -> Seq(Entry)]
  /\ commitIndex \in [Node -> Nat]
  /\ timer       \in [Node -> BOOLEAN]
  /\ DOMAIN nextIndex = Node /\ DOMAIN matchIndex = Node
  /\ \A n \in Node : /\ nextIndex[n]  \in [Peers(n) -> Nat]
                     /\ matchIndex[n] \in [Peers(n) -> Nat]

-----------------------------------------------------------------------------
(* The role changes.  logVars and peerVars belong to the caller unless the *)
(* operator assigns them.                                                  *)

(* becomeFollower: the term and the vote change only for a newer term; the *)
(* election timer is re-armed whatever happens.                            *)
becomeFollower(n, term, leader) ==
  /\ state'    = [state EXCEPT ![n] = "Follower"]
  /\ leaderID' = [leaderID EXCEPT ![n] = leader]
  /\ IF term > currentTerm[n]
     THEN /\ currentTerm' = [currentTerm EXCEPT ![n] = term]
          /\ votedFor'    = [votedFor EXCEPT ![n] = NoNode]
     ELSE UNCHANGED voteVars
  /\ timer' = [timer EXCEPT ![n] = TRUE]

becomeCandidate(n) ==
  /\ state'       = [state EXCEPT ![n] = "Candidate"]
  /\ currentTerm' = [currentTerm EXCEPT ![n] = @ + 1]
  /\ votedFor'    = [votedFor EXCEPT ![n] = n]
  /\ leaderID'    = [leaderID EXCEPT ![n] = NoNode]
  /\ timer'       = [timer EXCEPT ![n] = TRUE]

(* becomeLeader checks nothing: it makes the node leader of whatever term  *)
(* it is in now, and appends a no-op of that term.                         *)
becomeLeader(n) ==
  /\ state'      = [state EXCEPT ![n] = "Leader"]
  /\ leaderID'   = [leaderID EXCEPT ![n] = n]
  /\ nextIndex'  = [nextIndex EXCEPT
                      ![n] = [p \in Peers(n) |-> LastIndex(log[n]) + 1]]
  /\ matchIndex' = [matchIndex EXCEPT ![n] = [p \in Peers(n) |-> 0]]
  /\ log'        = [log EXCEPT ![n] =
                      Append(@, [index |-> LastIndex(@) + 1,
                                 term  |-> currentTerm[n],
                                 data  |-> Noop])]
  /\ timer'      = [timer EXCEPT ![n] = FALSE]
  /\ UNCHANGED <<voteVars, commitIndex>>
=============================================================================

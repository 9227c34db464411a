-------------------------------- MODULE Raft --------------------------------
(***************************************************************************)
(* The Raft core of raftly: nodes that elect (RaftElection) and replicate  *)
(* (RaftReplication) over a network that delays, reorders and loses calls. *)
(* Both parts share the node's fields (RaftNode) and its lock; a step of   *)
(* either part leaves the other part's calls in flight alone.              *)
(*                                                                         *)
(* No node crashes here: restarts (RaftRestart) and the write-ahead log    *)
(* (RaftWAL) have their own modules.                                       *)
(***************************************************************************)
EXTENDS RaftElection, RaftReplication

vars == <<nodeVars, electionVars, appendVars>>

Init == NodeInit /\ ElectionInit /\ ReplicationInit

Next == \/ ElectionNext /\ UNCHANGED appendVars
        \/ ReplicationNext /\ UNCHANGED electionVars

Spec == Init /\ [][Next]_vars

(***************************************************************************)
(* Fairness.  A campaign goroutine is runnable whenever it is not waiting  *)
(* for a reply or for n.mu, which every handler releases; and every call   *)
(* ends, since campaign gives each one a context of 100 ms.                *)
(***************************************************************************)
CampaignFairness ==
  \A n \in Node, k \in Slot :
    /\ WF_vars(CampaignStep(n, k) /\ UNCHANGED appendVars)
    /\ \A p \in Peers(n) :
         WF_vars(VoteCallFails(n, k, p) /\ UNCHANGED appendVars)

FairSpec == Spec /\ CampaignFairness

(* run() keeps receiving from its ticker, and from its election timer. *)
TickerFairness ==
  \A n \in Node : WF_vars(HeartbeatTick(n) /\ UNCHANGED electionVars)

TimerFairness ==
  \A n \in Node :
    WF_vars(\E k \in Slot : ElectionTimeout(n, k) /\ UNCHANGED appendVars)

(* A call that is retried on every tick gets through sooner or later, and  *)
(* so does its response: the network may lose any of them, not all.  Only  *)
(* a node that campaigns ever sends one.                                   *)
NetworkFairness ==
  \A n \in Campaigners : \A p \in Peers(n) :
    /\ SF_vars(/\ \E s \in CallSlot : ReplicateTo(n, p, s)
               /\ UNCHANGED electionVars)
    /\ SF_vars(/\ \E m \in appendRequests : m.to = p /\ HandleAppendEntries(m)
               /\ UNCHANGED electionVars)
    /\ SF_vars(/\ \E r \in appendResponses :
                     r.to = p /\ HandleAppendResponse(r)
               /\ UNCHANGED electionVars)

LiveSpec == FairSpec /\ TickerFairness /\ TimerFairness /\ NetworkFairness

-----------------------------------------------------------------------------
(* Every variable keeps its type: the nodes' fields, the campaigns with    *)
(* the peers they wait for, and the calls in flight.                       *)
TypeOK == NodeTypeOK /\ ElectionTypeOK /\ ReplicationTypeOK

-----------------------------------------------------------------------------
(* Nobody falls asleep.  A node that is not leader always has a running    *)
(* election timer or a campaign goroutine that will re-arm it: run() never *)
(* re-arms the timer itself and a pre-vote does not either, so this rests  *)
(* on every way out of a campaign and on every handler that takes a role.  *)
WakesUp(n, k) ==
  LET c == campaigns[n][k]
  IN  \/ c.pc = "start"
      \/ c.preVote /\ c.pc \in {"tally", "won", "lost"}
           /\ state[n] = "PreCandidate"

NoStall ==
  \A n \in Node : state[n] # "Leader" => timer[n] \/ \E k \in Slot : WakesUp(n, k)

-----------------------------------------------------------------------------
(* A log is well formed: the index an entry carries is its position (so    *)
(* LastIndex and GetEntry agree), terms never decrease along it, and no    *)
(* entry is from a later term than the node that holds it.  Merges of      *)
(* delayed and reordered requests of several leaders must keep this.       *)
LogShape == \A n \in Node : WellFormed(log[n], currentTerm[n])

(* A commit index never runs past the log that justifies it: not at a node *)
(* and not in a request.  A follower moves to min(LeaderCommit, its LAST   *)
(* index), where the last index may lie beyond the entries that the        *)
(* request vouches for; that is sound only because the LeaderCommit of a   *)
(* request is always covered by PrevLogIndex plus the entries it carries.  *)
CommitCovered ==
  /\ \A n \in Node : commitIndex[n] <= Len(log[n])
  /\ \A m \in appendRequests :
       m.leaderCommit <= m.prevIndex + Len(m.entries)

(* What a node has committed it keeps: no step moves its commit index back *)
(* or changes an entry at or below it, whatever leader it hears from.      *)
CommittedPrefixStable ==
  [][\A n \in Node :
       /\ commitIndex[n] <= commitIndex'[n]
       /\ commitIndex[n] <= Len(log'[n])
       /\ \A i \in 1 .. commitIndex[n] : log'[n][i] = log[n][i]]_vars

(* Every campaign ends: whatever is lost, its calls time out, and it hands *)
(* over to a real election, wins, loses or notices that it is superseded.  *)
CampaignEnds ==
  \A n \in Node, k \in Slot :
    campaigns[n][k].pc \in {"tally", "won", "lost"}
      ~> campaigns[n][k].pc \in {"idle", "start"}

(* Each node's term and vote behave as the register they implement.        *)
Register == INSTANCE VoteRegister WITH term <- currentTerm, vote <- votedFor

(* The refinement: no interleaving of campaigns, vote requests, leaders    *)
(* and late replies makes a node change or withdraw the vote of its        *)
(* current term, or go back to an earlier one.                             *)
VoteRegisterSpec == Register!RegisterSpec

-----------------------------------------------------------------------------
(* Two properties that the repository states and the code breaks.          *)

(* tests/election_test.go:125, "If a node could vote twice in the same     *)
(* term, two leaders could exist simultaneously.  This verifies that       *)
(* invariant holds": no two nodes lead the same term.                      *)
ElectionSafety ==
  \A a, b \in Node :
    state[a] = "Leader" /\ state[b] = "Leader" /\ currentTerm[a] = currentTerm[b]
      => a = b

(* README.md:230, on a follower that rejects: "The leader skips back an    *)
(* entire term in one RTT".  So it reaches the point where the logs agree, *)
(* and what a leader holds is committed by every node for as long as it    *)
(* leads.  But a leader that has no entry of the follower's conflicting    *)
(* term takes the NUMBER of that term for an index (replication.go:240)    *)
(* and may stay where it is for ever.                                      *)
EventuallyCommitted ==
  \A n \in Node : \A i \in 1 .. MaxLogLen :
    (state[n] = "Leader" /\ Len(log[n]) >= i)
      ~> (state[n] # "Leader" \/ \A p \in Node : commitIndex[p] >= i)
=============================================================================

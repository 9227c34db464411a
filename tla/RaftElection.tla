---------------------------- MODULE RaftElection ----------------------------
(***************************************************************************)
(* Elections: raft/election.go and the election timer of run().            *)
(*                                                                         *)
(* A campaign is a goroutine.  It holds n.mu only while it starts and      *)
(* while it looks at one reply, so everything else can happen between its  *)
(* steps; pc says which critical section comes next:                       *)
(*                                                                         *)
(*   start  spawned by run(), or escalating from a pre-vote it won         *)
(*   tally  waiting for a reply on voteCh                                  *)
(*   won    quorum counted, the lock released (election.go:128) and not    *)
(*          yet taken again (election.go:136)                              *)
(*   lost   every reply counted, quorum missed                             *)
(*                                                                         *)
(* A node may have several campaigns alive at once, one per element of     *)
(* Slot.  A vote request is delivered late or never: the caller's 100 ms   *)
(* timeout only makes the caller stop waiting.  A pre-vote request changes *)
(* nothing at its receiver, so it is not kept once its caller gave up.     *)
(***************************************************************************)
EXTENDS RaftNode

CONSTANTS Slot,        \* bound: campaign goroutines alive at once per node
          Campaigners  \* bound: the nodes whose election timer may expire

ASSUME CampaignAssumption == Slot # {} /\ Campaigners \subseteq Node

VARIABLES campaigns,    \* campaigns[n][k]: the goroutine in slot k of node n
          voteRequests  \* RequestVote calls not handled yet

electionVars == <<campaigns, voteRequests>>

Reply == [from : Node, term : Nat, granted : BOOLEAN]

Campaign == [pc : {"idle", "start", "tally", "won", "lost"},
             preVote : BOOLEAN, term : Nat, lastIndex : Nat, lastTerm : Nat,
             awaiting : SUBSET Node, voteCh : SUBSET Reply, votes : Nat]

VoteRequest == [from : Node, slot : Slot, to : Node,
                term : Nat, lastIndex : Nat, lastTerm : Nat]

NoCampaign == [pc |-> "idle", preVote |-> FALSE, term |-> 0, lastIndex |-> 0,
               lastTerm |-> 0, awaiting |-> {}, voteCh |-> {}, votes |-> 0]

(* A campaign goroutine that is about to take the lock for the first time. *)
Spawned(preVote) == [NoCampaign EXCEPT !.pc = "start", !.preVote = preVote]

(* The goroutine moves on; whatever still arrives on voteCh is not read. *)
MovedTo(c, pc) == [NoCampaign EXCEPT !.pc = pc, !.preVote = c.preVote,
                                     !.term = c.term, !.votes = c.votes]

ElectionInit ==
  /\ campaigns    = [n \in Node |-> [k \in Slot |-> NoCampaign]]
  /\ voteRequests = {}

ElectionTypeOK ==
  /\ campaigns \in [Node -> [Slot -> Campaign]]
  /\ \A n \in Node, k \in Slot : campaigns[n][k].awaiting \subseteq Peers(n)
  /\ voteRequests \subseteq VoteRequest

SetCampaign(n, k, c) == campaigns' = [campaigns EXCEPT ![n][k] = c]

-----------------------------------------------------------------------------
(* run() receives from electionTimer.C, looks at the state under the lock  *)
(* and spawns a campaign; the campaign takes the lock later.               *)
ElectionTimeout(n, k) ==
  /\ timer[n]
  /\ state[n] # "Leader"
  /\ n \in Campaigners /\ currentTerm[n] < MaxTerm
  /\ campaigns[n][k].pc = "idle"
  /\ timer' = [timer EXCEPT ![n] = FALSE]
  /\ SetCampaign(n, k, Spawned(EnablePreVote))
  /\ UNCHANGED <<voteVars, state, leaderID, logVars, peerVars, voteRequests>>

StartedAskingAll(n, preVote, term) ==  \* mutant: the node asks itself too
  [pc |-> "tally", preVote |-> preVote, term |-> term,
   lastIndex |-> LastIndex(log[n]), lastTerm |-> LastTerm(log[n]),
   awaiting |-> Node, voteCh |-> {}, votes |-> 1]

(* The campaign as it stands when it has sent its requests. *)
Started(n, preVote, term) ==
  [pc |-> "tally", preVote |-> preVote, term |-> term,
   lastIndex |-> LastIndex(log[n]), lastTerm |-> LastTerm(log[n]),
   awaiting |-> Peers(n), voteCh |-> {}, votes |-> 1]

(* campaign: a node that became leader meanwhile bails out. *)
CampaignBailsOut(n, k) ==
  /\ campaigns[n][k].pc = "start"
  /\ state[n] = "Leader"
  /\ SetCampaign(n, k, NoCampaign)
  /\ UNCHANGED <<nodeVars, voteRequests>>

(* campaign(true): the node asks about term + 1 without entering it.  The  *)
(* election timer is not re-armed and leaderID is not cleared.             *)
StartPreVote(n, k) ==
  /\ campaigns[n][k].pc = "start"
  /\ campaigns[n][k].preVote
  /\ state[n] # "Leader"
  /\ state' = [state EXCEPT ![n] = "PreCandidate"]
  /\ IF Peers(n) = {}
     THEN SetCampaign(n, k, Spawned(FALSE))
     ELSE SetCampaign(n, k, Started(n, TRUE, currentTerm[n] + 1))
  /\ UNCHANGED <<voteVars, leaderID, timer, logVars, peerVars, voteRequests>>

(* campaign(false): becomeCandidate, then one request to every peer. *)
StartElection(n, k) ==
  /\ campaigns[n][k].pc = "start"
  /\ ~campaigns[n][k].preVote
  /\ state[n] # "Leader"
  /\ currentTerm[n] < MaxTerm
  /\ becomeCandidate(n)
  /\ LET c == Started(n, FALSE, currentTerm[n] + 1)
     IN  IF Peers(n) = {}
         THEN SetCampaign(n, k, MovedTo(c, "won")) /\ UNCHANGED voteRequests
         ELSE /\ SetCampaign(n, k, c)
              /\ voteRequests' = voteRequests \cup
                   {[from |-> n, slot |-> k, to |-> p, term |-> c.term,
                     lastIndex |-> c.lastIndex, lastTerm |-> c.lastTerm]
                    : p \in Peers(n)}
  /\ UNCHANGED <<logVars, peerVars>>

-----------------------------------------------------------------------------
(* The replies.  A call returns at most once; its goroutine then posts the *)
(* reply on voteCh, which the campaign may read much later.                *)

Answered(c, r) ==
  [c EXCEPT !.awaiting = @ \ {r.from}, !.voteCh = @ \cup {r}]

(* An error of the transport or the 100 ms timeout: a "no" with term 0.    *)
(* The request is lost, or it is late and still reaches the peer.          *)
VoteCallFails(n, k, p) ==
  /\ campaigns[n][k].pc = "tally"
  /\ p \in campaigns[n][k].awaiting
  /\ SetCampaign(n, k, Answered(campaigns[n][k],
                         [from |-> p, term |-> 0, granted |-> FALSE]))
  /\ \/ UNCHANGED voteRequests
     \/ voteRequests' = {m \in voteRequests :
                           ~(m.from = n /\ m.slot = k /\ m.to = p
                               /\ m.term = campaigns[n][k].term)}
  /\ UNCHANGED nodeVars

(* handlePreVote: denies a stale term, a node that knows a leader, and a   *)
(* log behind its own.  It changes nothing at p.                           *)
PreVoteGranted(p, c) ==
  /\ c.term >= currentTerm[p]
  /\ leaderID[p] = NoNode
  /\ UpToDate(c.lastTerm, c.lastIndex, log[p])

HandlePreVote(n, k, p) ==
  LET c == campaigns[n][k]
  IN  /\ c.pc = "tally" /\ c.preVote /\ p \in c.awaiting
      /\ SetCampaign(n, k, Answered(c, [from |-> p, term |-> currentTerm[p],
                                        granted |-> PreVoteGranted(p, c)]))
      /\ UNCHANGED <<nodeVars, voteRequests>>

(* handleRequestVote.  On a newer term it steps down with                  *)
(* becomeFollower(n.currentTerm, ""), so currentTerm stays what it was and *)
(* an earlier vote of this node is not cleared.                            *)
VoteGranted(m) ==
  /\ m.term >= currentTerm[m.to]
  /\ votedFor[m.to] \in {NoNode, m.from}
  /\ UpToDate(m.lastTerm, m.lastIndex, log[m.to])

(* The caller still waits for this reply. *)
CallerWaits(m) ==
  LET c == campaigns[m.from][m.slot]
  IN  /\ c.pc = "tally" /\ ~c.preVote
      /\ c.term = m.term /\ m.to \in c.awaiting

HandleRequestVote(m) ==
  LET n       == m.to
      newer   == m.term > currentTerm[n]
      granted == VoteGranted(m)
  IN  /\ m \in voteRequests
      /\ state'    = IF newer THEN [state EXCEPT ![n] = "Follower"] ELSE state
      /\ leaderID' = IF newer THEN [leaderID EXCEPT ![n] = NoNode] ELSE leaderID
      /\ votedFor' = IF granted THEN [votedFor EXCEPT ![n] = m.from] ELSE votedFor
      /\ timer'    = [timer EXCEPT ![n] = @ \/ newer \/ granted]
      /\ voteRequests' = voteRequests \ {m}
      /\ IF CallerWaits(m)
         THEN SetCampaign(m.from, m.slot,
                Answered(campaigns[m.from][m.slot],
                         [from |-> n, term |-> currentTerm[n],
                          granted |-> granted]))
         ELSE UNCHANGED campaigns
      /\ UNCHANGED <<currentTerm, logVars, peerVars>>

-----------------------------------------------------------------------------
(* One turn of the tally loop, under the lock until the reply is judged. *)

(* The campaign no longer owns the node's role: it returns silently. *)
Superseded(n, c) ==
  IF c.preVote THEN state[n] # "PreCandidate"
               ELSE state[n] # "Candidate" \/ currentTerm[n] # c.term

CountedNoExit(c, r) ==  \* mutant: waits on after the last reply
  LET c2 == [c EXCEPT !.votes = @ + (IF r.granted THEN 1 ELSE 0),
                      !.voteCh = @ \ {r}]
  IN  IF c2.votes >= Quorum THEN MovedTo(c2, "won") ELSE c2

(* The loop's next position once reply r is counted. *)
Counted(c, r) ==
  LET votes == c.votes + (IF r.granted THEN 1 ELSE 0)
      c2    == [c EXCEPT !.votes = votes, !.voteCh = @ \ {r}]
  IN  IF votes >= Quorum THEN MovedTo(c2, "won")
      ELSE IF c2.voteCh = {} /\ c2.awaiting = {} THEN MovedTo(c2, "lost")
      ELSE c2

TallyAbort(n, k, r) ==
  LET c == campaigns[n][k]
  IN  /\ c.pc = "tally" /\ r \in c.voteCh
      /\ Superseded(n, c)
      /\ SetCampaign(n, k, NoCampaign)
      /\ UNCHANGED <<nodeVars, voteRequests>>

TallyStepDown(n, k, r) ==
  LET c == campaigns[n][k]
  IN  /\ c.pc = "tally" /\ r \in c.voteCh
      /\ ~Superseded(n, c)
      /\ r.term > currentTerm[n]
      /\ becomeFollower(n, r.term, NoNode)
      /\ SetCampaign(n, k, NoCampaign)
      /\ UNCHANGED <<logVars, peerVars, voteRequests>>

TallyCount(n, k, r) ==
  LET c == campaigns[n][k]
  IN  /\ c.pc = "tally" /\ r \in c.voteCh
      /\ ~Superseded(n, c)
      /\ r.term <= currentTerm[n]
      /\ SetCampaign(n, k, Counted(c, r))
      /\ UNCHANGED <<nodeVars, voteRequests>>

(* A pre-vote won: campaign(false) in the same goroutine. *)
Escalate(n, k) ==
  /\ campaigns[n][k].pc = "won"
  /\ campaigns[n][k].preVote
  /\ SetCampaign(n, k, Spawned(FALSE))
  /\ UNCHANGED <<nodeVars, voteRequests>>

(* An election won: becomeLeader, with no look at what the node is now. *)
TakeLeadership(n, k) ==
  /\ campaigns[n][k].pc = "won"
  /\ ~campaigns[n][k].preVote
  /\ Len(log[n]) < MaxLogLen
  /\ becomeLeader(n)
  /\ SetCampaign(n, k, NoCampaign)
  /\ UNCHANGED voteRequests

GiveUpSilently(n, k) ==  \* mutant: returns without stepping back
  /\ campaigns[n][k].pc = "lost"
  /\ SetCampaign(n, k, NoCampaign)
  /\ UNCHANGED <<nodeVars, voteRequests>>

(* Quorum missed: back to follower, unless the role was lost already. *)
GiveUp(n, k) ==
  /\ campaigns[n][k].pc = "lost"
  /\ IF state[n] \in {"Candidate", "PreCandidate"}
     THEN becomeFollower(n, currentTerm[n], NoNode)
     ELSE UNCHANGED <<voteVars, roleVars>>
  /\ SetCampaign(n, k, NoCampaign)
  /\ UNCHANGED <<logVars, peerVars, voteRequests>>

-----------------------------------------------------------------------------
(* The steps of one campaign goroutine. *)
CampaignStep(n, k) ==
  \/ CampaignBailsOut(n, k)
  \/ StartPreVote(n, k)
  \/ StartElection(n, k)
  \/ \E r \in campaigns[n][k].voteCh :
       \/ TallyAbort(n, k, r)
       \/ TallyStepDown(n, k, r)
       \/ TallyCount(n, k, r)
  \/ Escalate(n, k)
  \/ TakeLeadership(n, k)
  \/ GiveUp(n, k)

ElectionNext ==
  \/ \E n \in Node, k \in Slot :
       \/ ElectionTimeout(n, k)
       \/ CampaignStep(n, k)
       \/ \E p \in Peers(n) : VoteCallFails(n, k, p) \/ HandlePreVote(n, k, p)
  \/ \E m \in voteRequests : HandleRequestVote(m)
=============================================================================

----------------------------- MODULE RaftProofs -----------------------------
(***************************************************************************)
(* Theorems about the Raft core, for any number of nodes, campaigns, calls *)
(* in flight and values, and for terms and logs of any length: types; each *)
(* node's term and vote implement VoteRegister; a node that does not lead  *)
(* can always wake up; logs stay well formed, commit indexes stay covered  *)
(* by logs and what a node has committed it keeps.  First for the core     *)
(* alone, then with nodes that crash and come back; at the end, logs that  *)
(* match, as long as elections give every term one leader.                 *)
(***************************************************************************)
EXTENDS RaftLogMatching, RaftLogProofs

-----------------------------------------------------------------------------
(* Types of what the operators of RaftLog return. *)

LEMMA LogTypes ==
  ASSUME NEW l \in Seq(Entry)
  PROVE  /\ LastIndex(l) \in Nat /\ LastTerm(l) \in Nat
         /\ \A i \in 0 .. Len(l) : EntryTerm(l, i) \in Nat
         /\ \A i \in 1 .. Len(l) : FirstOfTermRun(l, i) \in Nat
         /\ \A t \in Nat : AfterLastOfTerm(l, t) \in Nat
<1>0. \A e \in Entry : e.index \in Nat /\ e.term \in Nat
  BY DEF Entry
<1>1. \A i \in 1 .. Len(l) : l[i].index \in Nat /\ l[i].term \in Nat
  BY <1>0
<1>2. LastIndex(l) \in Nat /\ LastTerm(l) \in Nat
  <2>1. CASE l = <<>>
    BY <2>1 DEF LastIndex, LastTerm
  <2>2. CASE l # <<>>
    <3>1. Len(l) \in 1 .. Len(l)
      BY <2>2
    <3>. QED  BY <2>2, <3>1, <1>1 DEF LastIndex, LastTerm
  <2>. QED  BY <2>1, <2>2
<1>3. \A i \in 0 .. Len(l) : EntryTerm(l, i) \in Nat
  BY <1>1 DEF EntryTerm
<1>4. ASSUME NEW i \in 1 .. Len(l) PROVE FirstOfTermRun(l, i) \in Nat
  <2>. DEFINE S == {j \in 1 .. i : \A h \in j .. i : l[h].term = l[i].term}
  <2>1. i \in S /\ S \in SUBSET Nat
    OBVIOUS
  <2>. HIDE DEF S
  <2>2. Min(S) \in S
    BY <2>1, MinOfNaturals
  <2>. QED  BY <2>1, <2>2 DEF FirstOfTermRun, S
<1>5. ASSUME NEW t \in Nat PROVE AfterLastOfTerm(l, t) \in Nat
  <2>. DEFINE S == {i \in 1 .. Len(l) : l[i].term = t}
  <2>0. S \in SUBSET (0 .. Len(l)) /\ Len(l) \in Nat
    OBVIOUS
  <2>. HIDE DEF S
  <2>1. CASE S = {}
    BY <2>1 DEF AfterLastOfTerm, S
  <2>2. CASE S # {}
    <3>1. Max(S) \in S
      BY <2>0, <2>2, MaxOfBounded
    <3>2. Max(S) \in 0 .. Len(l)
      BY <3>1, <2>0, Zenon
    <3>3. Max(S) + 1 \in Nat
      BY <3>2, <2>0
    <3>. QED  BY <2>2, <3>3 DEF AfterLastOfTerm, S
  <2>. QED  BY <2>1, <2>2
<1>. QED  BY <1>2, <1>3, <1>4, <1>5

(* A new entry at the end of a log. *)
LEMMA AppendTypes ==
  ASSUME NEW l \in Seq(Entry), NEW t \in Nat, NEW v \in Value \cup {Noop}
  PROVE  /\ [index |-> LastIndex(l) + 1, term |-> t, data |-> v] \in Entry
         /\ Append(l, [index |-> LastIndex(l) + 1, term |-> t, data |-> v])
              \in Seq(Entry)
<1>1. [index |-> LastIndex(l) + 1, term |-> t, data |-> v] \in Entry
  <2>1. LastIndex(l) \in Nat
    BY LogTypes, SMTT(30)
  <2>2. LastIndex(l) + 1 \in Nat
    BY <2>1
  <2>. QED  BY <2>2 DEF Entry
<1>. QED  BY <1>1, AppendProperties

(* The suffix a leader sends. *)
LEMMA SuffixTypes ==
  ASSUME NEW l \in Seq(Entry), NEW i \in 1 .. Len(l) + 1
  PROVE  EntriesFrom(l, i) \in Seq(Entry) /\ Len(EntriesFrom(l, i)) = Len(l) - i + 1
BY Suffix DEF EntriesFrom

LEMMA CommitTypes ==
  ASSUME NEW l \in Seq(Entry), NEW c \in Nat
  PROVE  /\ \A i \in Nat : CommitTo(l, c, i) \in Nat
         /\ \A lc \in Nat : FollowerCommit(l, c, lc) \in Nat
BY LogTypes DEF CommitTo, FollowerCommit

LEMMA CommittedType ==
  ASSUME NodeTypeOK, NEW n \in Node, NEW match
  PROVE  Committed(n, match) \in Nat
<1>1. log[n] \in Seq(Entry) /\ commitIndex[n] \in Nat
  BY DEF NodeTypeOK
<1>2. HasEntry(log[n], QuorumMatchIndex(n, match))
        => QuorumMatchIndex(n, match) \in Nat
  BY <1>1 DEF HasEntry
<1>. QED  BY <1>1, <1>2 DEF Committed, CommitTo

-----------------------------------------------------------------------------
(* Types of the campaign records. *)

LEMMA CampaignTypes ==
  /\ NoCampaign \in Campaign
  /\ \A b \in BOOLEAN : Spawned(b) \in Campaign /\ Spawned(b).awaiting = {}
  /\ \A c \in Campaign, pc \in {"won", "lost"} :
       MovedTo(c, pc) \in Campaign /\ MovedTo(c, pc).awaiting = {}
  /\ \A c \in Campaign, r \in Reply :
       /\ Answered(c, r) \in Campaign
       /\ Answered(c, r).awaiting \subseteq c.awaiting
  /\ \A c \in Campaign, r \in Reply :
       /\ Counted(c, r) \in Campaign
       /\ Counted(c, r).awaiting \subseteq c.awaiting
<1>1. NoCampaign \in Campaign
  BY DEF NoCampaign, Campaign
<1>2. \A b \in BOOLEAN : Spawned(b) \in Campaign /\ Spawned(b).awaiting = {}
  BY DEF Spawned, NoCampaign, Campaign
<1>3. \A c \in Campaign, pc \in {"won", "lost"} :
        MovedTo(c, pc) \in Campaign /\ MovedTo(c, pc).awaiting = {}
  BY DEF MovedTo, NoCampaign, Campaign
<1>4. \A c \in Campaign, r \in Reply :
        /\ Answered(c, r) \in Campaign
        /\ Answered(c, r).awaiting \subseteq c.awaiting
  BY DEF Answered, Campaign, Reply
<1>5. ASSUME NEW c \in Campaign, NEW r \in Reply
      PROVE  /\ Counted(c, r) \in Campaign
             /\ Counted(c, r).awaiting \subseteq c.awaiting
  <2>. DEFINE v  == c.votes + (IF r.granted THEN 1 ELSE 0)
              c2 == [c EXCEPT !.votes = v, !.voteCh = @ \ {r}]
  <2>1. v \in Nat
    BY DEF Campaign, Reply
  <2>2. c2 \in Campaign /\ c2.awaiting = c.awaiting
    BY <2>1 DEF Campaign, Reply
  <2>3. \/ Counted(c, r) = MovedTo(c2, "won")
        \/ Counted(c, r) = MovedTo(c2, "lost")
        \/ Counted(c, r) = c2
    BY DEF Counted
  <2>. HIDE DEF c2
  <2>. QED  BY <2>2, <2>3, <1>3
<1>. QED  BY <1>1, <1>2, <1>3, <1>4, <1>5

LEMMA SetCampaignTypes ==
  ASSUME ElectionTypeOK, NEW n \in Node, NEW k \in Slot,
         NEW c \in Campaign, c.awaiting \subseteq Peers(n),
         SetCampaign(n, k, c)
  PROVE  /\ campaigns' \in [Node -> [Slot -> Campaign]]
         /\ \A m \in Node, j \in Slot : campaigns'[m][j].awaiting \subseteq Peers(m)
<1>1. campaigns' \in [Node -> [Slot -> Campaign]]
  BY DEF ElectionTypeOK, SetCampaign
<1>2. ASSUME NEW m \in Node, NEW j \in Slot
      PROVE  campaigns'[m][j] = IF m = n /\ j = k THEN c ELSE campaigns[m][j]
  BY DEF ElectionTypeOK, SetCampaign
<1>. QED  BY <1>1, <1>2 DEF ElectionTypeOK

-----------------------------------------------------------------------------
(* NodeTypeOK in three parts, by who changes them. *)

RoleTypeOK ==
  /\ currentTerm \in [Node -> Nat]
  /\ votedFor    \in [Node -> Node \cup {NoNode}]
  /\ state       \in [Node -> States]
  /\ leaderID    \in [Node -> Node \cup {NoNode}]
  /\ timer       \in [Node -> BOOLEAN]

LogTypeOK == log \in [Node -> Seq(Entry)] /\ commitIndex \in [Node -> Nat]

PeerTypeOK ==
  /\ DOMAIN nextIndex = Node /\ DOMAIN matchIndex = Node
  /\ \A n \in Node : /\ nextIndex[n]  \in [Peers(n) -> Nat]
                     /\ matchIndex[n] \in [Peers(n) -> Nat]

LEMMA NodeTypeParts == NodeTypeOK <=> RoleTypeOK /\ LogTypeOK /\ PeerTypeOK
BY DEF NodeTypeOK, RoleTypeOK, LogTypeOK, PeerTypeOK

LEMMA RoleChangeTypes ==
  ASSUME RoleTypeOK, NEW n \in Node
  PROVE  /\ \A t \in Nat, ld \in Node \cup {NoNode} :
              becomeFollower(n, t, ld) => RoleTypeOK'
         /\ becomeCandidate(n) => RoleTypeOK'
<1>1. ASSUME NEW t \in Nat, NEW ld \in Node \cup {NoNode},
             becomeFollower(n, t, ld)
      PROVE  RoleTypeOK'
  <2>1. state' \in [Node -> States] /\ leaderID' \in [Node -> Node \cup {NoNode}]
    BY <1>1 DEF becomeFollower, RoleTypeOK, States
  <2>2. timer' \in [Node -> BOOLEAN]
    BY <1>1 DEF becomeFollower, RoleTypeOK
  <2>3. /\ currentTerm' \in [Node -> Nat]
        /\ votedFor' \in [Node -> Node \cup {NoNode}]
    BY <1>1 DEF becomeFollower, RoleTypeOK, voteVars
  <2>. QED  BY <2>1, <2>2, <2>3 DEF RoleTypeOK
<1>2. ASSUME becomeCandidate(n) PROVE RoleTypeOK'
  BY <1>2 DEF becomeCandidate, RoleTypeOK, States
<1>. QED  BY <1>1, <1>2

LEMMA BecomeLeaderTypes ==
  ASSUME NodeTypeOK, NEW n \in Node, becomeLeader(n)
  PROVE  NodeTypeOK'
<1>0. RoleTypeOK /\ LogTypeOK /\ PeerTypeOK
  BY NodeTypeParts
<1>1. RoleTypeOK'
  BY <1>0 DEF becomeLeader, RoleTypeOK, States, voteVars
<1>2. LastIndex(log[n]) + 1 \in Nat
  <2>1. log[n] \in Seq(Entry)
    BY <1>0 DEF LogTypeOK
  <2>2. LastIndex(log[n]) \in Nat
    BY <2>1, LogTypes
  <2>. QED  BY <2>2
<1>3. LogTypeOK'
  <2>1. log[n] \in Seq(Entry) /\ currentTerm[n] \in Nat
    BY <1>0 DEF LogTypeOK, RoleTypeOK
  <2>2. Append(log[n], [index |-> LastIndex(log[n]) + 1,
                        term |-> currentTerm[n], data |-> Noop]) \in Seq(Entry)
    BY <2>1, AppendTypes
  <2>. QED  BY <1>0, <2>2 DEF becomeLeader, LogTypeOK
<1>4. PeerTypeOK'
  BY <1>0, <1>2 DEF becomeLeader, PeerTypeOK
<1>. QED
  <2>1. (RoleTypeOK /\ LogTypeOK /\ PeerTypeOK)' => NodeTypeOK'
    BY DEF NodeTypeOK, RoleTypeOK, LogTypeOK, PeerTypeOK
  <2>. QED  BY <1>1, <1>3, <1>4, <2>1

LEMMA Unchanged ==
  /\ UNCHANGED <<voteVars, roleVars>> => (RoleTypeOK' <=> RoleTypeOK)
  /\ UNCHANGED logVars => (LogTypeOK' <=> LogTypeOK)
  /\ UNCHANGED peerVars => (PeerTypeOK' <=> PeerTypeOK)
  /\ UNCHANGED nodeVars => (NodeTypeOK' <=> NodeTypeOK)
  /\ UNCHANGED appendVars => (ReplicationTypeOK' <=> ReplicationTypeOK)
  /\ UNCHANGED electionVars => (ElectionTypeOK' <=> ElectionTypeOK)
  /\ (RoleTypeOK /\ LogTypeOK /\ PeerTypeOK)' => NodeTypeOK'
BY DEF voteVars, roleVars, logVars, peerVars, nodeVars, appendVars, electionVars,
       RoleTypeOK, LogTypeOK, PeerTypeOK, NodeTypeOK, ReplicationTypeOK,
       ElectionTypeOK
-----------------------------------------------------------------------------
(* A campaign's step keeps the types. *)

LEMMA StartedType ==
  ASSUME NodeTypeOK, NEW n \in Node, NEW b \in BOOLEAN, NEW t \in Nat
  PROVE  Started(n, b, t) \in Campaign /\ Started(n, b, t).awaiting \subseteq Peers(n)
<1>1. log[n] \in Seq(Entry)
  BY DEF NodeTypeOK
<1>2. LastIndex(log[n]) \in Nat /\ LastTerm(log[n]) \in Nat
  BY <1>1, LogTypes
<1>. QED  BY <1>2 DEF Started, Campaign, Peers

LEMMA ReadCampaign ==
  ASSUME ElectionTypeOK, NEW n \in Node, NEW k \in Slot
  PROVE  /\ campaigns[n][k] \in Campaign
         /\ campaigns[n][k].awaiting \subseteq Peers(n)
         /\ campaigns[n][k].awaiting \subseteq Node
         /\ \A r \in campaigns[n][k].voteCh : r \in Reply
BY DEF ElectionTypeOK, Campaign, Peers

LEMMA ElectionStepTypes ==
  ASSUME NodeTypeOK, ElectionTypeOK, ElectionNext
  PROVE  NodeTypeOK' /\ ElectionTypeOK'
<1>. DEFINE NewCampaign(n, k, c) ==
       /\ c \in Campaign /\ c.awaiting \subseteq Peers(n) /\ SetCampaign(n, k, c)
<1>0. RoleTypeOK /\ LogTypeOK /\ PeerTypeOK
  BY NodeTypeParts
<1>1. ASSUME NEW n \in Node, NEW k \in Slot, NEW c, NewCampaign(n, k, c),
             UNCHANGED voteRequests
      PROVE  ElectionTypeOK'
  BY <1>1, SetCampaignTypes DEF ElectionTypeOK
<1>2. \A n \in Node : /\ NoCampaign.awaiting \subseteq Peers(n)
                     /\ {} \subseteq Peers(n)
  BY DEF NoCampaign
<1>3. ASSUME NEW n \in Node, NEW k \in Slot, ElectionTimeout(n, k)
      PROVE  NodeTypeOK' /\ ElectionTypeOK'
  <2>1. RoleTypeOK'
    BY <1>0, <1>3 DEF ElectionTimeout, RoleTypeOK, voteVars
  <2>2. NodeTypeOK'
    BY <1>0, <1>3, <2>1, Unchanged DEF ElectionTimeout
  <2>3. NewCampaign(n, k, Spawned(EnablePreVote))
    BY <1>3, CampaignTypes, PreVoteAssumption DEF ElectionTimeout
  <2>. QED  BY <1>1, <1>3, <2>2, <2>3 DEF ElectionTimeout
<1>4. ASSUME NEW n \in Node, NEW k \in Slot, CampaignBailsOut(n, k)
      PROVE  NodeTypeOK' /\ ElectionTypeOK'
  BY <1>1, <1>2, <1>4, Unchanged, CampaignTypes DEF CampaignBailsOut
<1>5. ASSUME NEW n \in Node, NEW k \in Slot, StartPreVote(n, k)
      PROVE  NodeTypeOK' /\ ElectionTypeOK'
  <2>1. RoleTypeOK'
    BY <1>0, <1>5 DEF StartPreVote, RoleTypeOK, voteVars, States
  <2>2. NodeTypeOK'
    BY <1>0, <1>5, <2>1, Unchanged DEF StartPreVote
  <2>3. currentTerm[n] + 1 \in Nat
    BY <1>0 DEF RoleTypeOK
  <2>4. \E c : NewCampaign(n, k, c)
    BY <1>5, <2>3, CampaignTypes, StartedType DEF StartPreVote
  <2>. QED  BY <1>1, <1>5, <2>2, <2>4 DEF StartPreVote
<1>6. ASSUME NEW n \in Node, NEW k \in Slot, StartElection(n, k)
      PROVE  NodeTypeOK' /\ ElectionTypeOK'
  <2>. DEFINE c == Started(n, FALSE, currentTerm[n] + 1)
  <2>1. RoleTypeOK'
    BY <1>0, <1>6, RoleChangeTypes DEF StartElection
  <2>2. NodeTypeOK'
    BY <1>0, <1>6, <2>1, Unchanged DEF StartElection
  <2>3. currentTerm[n] + 1 \in Nat
    BY <1>0 DEF RoleTypeOK
  <2>4. c \in Campaign /\ c.awaiting \subseteq Peers(n)
    BY <2>3, StartedType
  <2>5. CASE Peers(n) = {}
    <3>1. NewCampaign(n, k, MovedTo(c, "won")) /\ UNCHANGED voteRequests
      BY <1>6, <2>4, <2>5, CampaignTypes DEF StartElection
    <3>. QED  BY <1>1, <3>1, <2>2
  <2>6. CASE Peers(n) # {}
    <3>1. SetCampaign(n, k, c)
      BY <1>6, <2>6 DEF StartElection
    <3>2. /\ campaigns' \in [Node -> [Slot -> Campaign]]
          /\ \A m \in Node, j \in Slot :
               campaigns'[m][j].awaiting \subseteq Peers(m)
      BY <3>1, <2>4, SetCampaignTypes
    <3>3. c.term \in Nat /\ c.lastIndex \in Nat /\ c.lastTerm \in Nat
      BY <2>4 DEF Campaign
    <3>4. voteRequests' = voteRequests \cup
            {[from |-> n, slot |-> k, to |-> p, term |-> c.term,
              lastIndex |-> c.lastIndex, lastTerm |-> c.lastTerm] : p \in Peers(n)}
      BY <1>6, <2>6 DEF StartElection
    <3>. HIDE DEF c
    <3>5. voteRequests' \subseteq VoteRequest
      BY <3>3, <3>4 DEF VoteRequest, Peers, ElectionTypeOK
    <3>. QED  BY <2>2, <3>2, <3>5 DEF ElectionTypeOK
  <2>. QED  BY <2>5, <2>6
<1>7. ASSUME NEW n \in Node, NEW k \in Slot, NEW p \in Peers(n),
             VoteCallFails(n, k, p)
      PROVE  NodeTypeOK' /\ ElectionTypeOK'
  <2>1. [from |-> p, term |-> 0, granted |-> FALSE] \in Reply
    BY DEF Reply, Peers
  <2>2. \E c : NewCampaign(n, k, c)
    BY <1>7, <2>1, CampaignTypes, ReadCampaign DEF VoteCallFails
  <2>3. voteRequests' \subseteq voteRequests
    BY <1>7 DEF VoteCallFails
  <2>4. ElectionTypeOK'
    BY <2>2, <2>3, SetCampaignTypes DEF ElectionTypeOK
  <2>. QED  BY <1>7, <2>4, Unchanged DEF VoteCallFails
<1>8. ASSUME NEW n \in Node, NEW k \in Slot, NEW p \in Peers(n),
             HandlePreVote(n, k, p)
      PROVE  NodeTypeOK' /\ ElectionTypeOK'
  <2>. DEFINE g == PreVoteGranted(p, campaigns[n][k])
  <2>1. currentTerm[p] \in Nat /\ p \in Node /\ g \in BOOLEAN
    BY <1>0 DEF RoleTypeOK, Peers, PreVoteGranted
  <2>. HIDE DEF g
  <2>2. [from |-> p, term |-> currentTerm[p], granted |-> g] \in Reply
    BY <2>1 DEF Reply
  <2>3. \E c : NewCampaign(n, k, c)
    BY <1>8, <2>2, CampaignTypes, ReadCampaign DEF HandlePreVote, g
  <2>. QED  BY <1>1, <1>8, <2>3, Unchanged DEF HandlePreVote
<1>9. ASSUME NEW m \in voteRequests, HandleRequestVote(m)
      PROVE  NodeTypeOK' /\ ElectionTypeOK'
  <2>. DEFINE g == VoteGranted(m)
  <2>1. m \in VoteRequest
    BY DEF ElectionTypeOK
  <2>2. m.to \in Node /\ m.from \in Node /\ m.slot \in Slot /\ g \in BOOLEAN
    BY <2>1 DEF VoteRequest, VoteGranted
  <2>3. RoleTypeOK'
    BY <1>0, <1>9, <2>2 DEF HandleRequestVote, RoleTypeOK, States
  <2>4. NodeTypeOK'
    BY <1>0, <1>9, <2>3, Unchanged DEF HandleRequestVote
  <2>5. voteRequests' \subseteq VoteRequest
    BY <1>9 DEF HandleRequestVote, ElectionTypeOK
  <2>6. CASE CallerWaits(m)
    <3>. DEFINE r == [from |-> m.to, term |-> currentTerm[m.to], granted |-> g]
                c == Answered(campaigns[m.from][m.slot], r)
    <3>1. currentTerm[m.to] \in Nat
      BY <1>0, <2>2 DEF RoleTypeOK
    <3>2. r \in Reply
      BY <2>2, <3>1 DEF Reply
    <3>3. SetCampaign(m.from, m.slot, c)
      BY <1>9, <2>6 DEF HandleRequestVote
    <3>. HIDE DEF r, g
    <3>4. c \in Campaign /\ c.awaiting \subseteq Peers(m.from)
      BY <2>2, <3>2, CampaignTypes, ReadCampaign
    <3>. HIDE DEF c
    <3>5. /\ campaigns' \in [Node -> [Slot -> Campaign]]
          /\ \A n \in Node, k \in Slot :
               campaigns'[n][k].awaiting \subseteq Peers(n)
      BY <2>2, <3>3, <3>4, SetCampaignTypes
    <3>. QED  BY <2>4, <2>5, <3>5 DEF ElectionTypeOK
  <2>7. CASE ~CallerWaits(m)
    BY <1>9, <2>4, <2>5, <2>7 DEF HandleRequestVote, ElectionTypeOK
  <2>. QED  BY <2>6, <2>7
<1>10. ASSUME NEW n \in Node, NEW k \in Slot, NEW r \in campaigns[n][k].voteCh,
              TallyAbort(n, k, r)
       PROVE  NodeTypeOK' /\ ElectionTypeOK'
  BY <1>1, <1>2, <1>10, Unchanged, CampaignTypes DEF TallyAbort
<1>11. ASSUME NEW n \in Node, NEW k \in Slot, NEW r \in campaigns[n][k].voteCh,
              TallyStepDown(n, k, r)
       PROVE  NodeTypeOK' /\ ElectionTypeOK'
  <2>1. r.term \in Nat
    BY ReadCampaign DEF Reply
  <2>2. RoleTypeOK'
    BY <1>0, <1>11, <2>1, RoleChangeTypes DEF TallyStepDown
  <2>3. NodeTypeOK'
    BY <1>0, <1>11, <2>2, Unchanged DEF TallyStepDown
  <2>. QED  BY <1>1, <1>2, <1>11, <2>3, CampaignTypes DEF TallyStepDown
<1>12. ASSUME NEW n \in Node, NEW k \in Slot, NEW r \in campaigns[n][k].voteCh,
              TallyCount(n, k, r)
       PROVE  NodeTypeOK' /\ ElectionTypeOK'
  <2>1. \E c : NewCampaign(n, k, c)
    BY <1>12, CampaignTypes, ReadCampaign DEF TallyCount
  <2>. QED  BY <1>1, <1>12, <2>1, Unchanged DEF TallyCount
<1>13. ASSUME NEW n \in Node, NEW k \in Slot, Escalate(n, k)
       PROVE  NodeTypeOK' /\ ElectionTypeOK'
  <2>1. NewCampaign(n, k, Spawned(FALSE))
    BY <1>13, CampaignTypes DEF Escalate
  <2>. QED  BY <1>1, <1>13, <2>1, Unchanged DEF Escalate
<1>14. ASSUME NEW n \in Node, NEW k \in Slot, TakeLeadership(n, k)
       PROVE  NodeTypeOK' /\ ElectionTypeOK'
  BY <1>1, <1>2, <1>14, BecomeLeaderTypes, CampaignTypes DEF TakeLeadership
<1>15. ASSUME NEW n \in Node, NEW k \in Slot, GiveUp(n, k)
       PROVE  NodeTypeOK' /\ ElectionTypeOK'
  <2>1. currentTerm[n] \in Nat
    BY <1>0 DEF RoleTypeOK
  <2>2. RoleTypeOK'
    BY <1>0, <1>15, <2>1, RoleChangeTypes, Unchanged DEF GiveUp
  <2>3. NodeTypeOK'
    BY <1>0, <1>15, <2>2, Unchanged DEF GiveUp
  <2>. QED  BY <1>1, <1>2, <1>15, <2>3, CampaignTypes DEF GiveUp
<1>. QED
  BY <1>3, <1>4, <1>5, <1>6, <1>7, <1>8, <1>9, <1>10, <1>11, <1>12, <1>13,
     <1>14, <1>15 DEF ElectionNext, CampaignStep

-----------------------------------------------------------------------------
(* A step of the replication keeps the types. *)

LEMMA RequestType ==
  ASSUME NodeTypeOK, NEW n \in Node, NEW p \in Peers(n), NEW s \in CallSlot,
         HasEntry(log[n], nextIndex[n][p] - 1)
  PROVE  RequestTo(n, p, s) \in AppendRequest
<1>. DEFINE next == nextIndex[n][p]
            es == IF next <= LastIndex(log[n]) THEN EntriesFrom(log[n], next)
                                               ELSE <<>>
<1>1. /\ log[n] \in Seq(Entry) /\ next \in Nat /\ p \in Node
      /\ currentTerm[n] \in Nat /\ commitIndex[n] \in Nat
  BY DEF NodeTypeOK, Peers
<1>2. next - 1 \in 0 .. Len(log[n])
  BY DEF HasEntry
<1>. HIDE DEF next
<1>3. next - 1 \in Nat /\ EntryTerm(log[n], next - 1) \in Nat
  BY <1>1, <1>2, LogTypes
<1>4. next \in 1 .. Len(log[n]) + 1
  BY <1>1, <1>2
<1>5. EntriesFrom(log[n], next) \in Seq(Entry)
  BY <1>1, <1>4, SuffixTypes
<1>6. es \in Seq(Entry)
  BY <1>5
<1>7. RequestTo(n, p, s) =
        [from |-> n, to |-> p, slot |-> s, term |-> currentTerm[n],
         prevIndex |-> next - 1, prevTerm |-> EntryTerm(log[n], next - 1),
         entries |-> es, leaderCommit |-> commitIndex[n]]
  BY DEF RequestTo, next
<1>. HIDE DEF es
<1>. QED  BY <1>1, <1>3, <1>6, <1>7 DEF AppendRequest

LEMMA RespondTypes ==
  ASSUME ReplicationTypeOK, NEW m \in appendRequests, NEW t \in Nat,
         NEW b \in BOOLEAN, NEW ci \in Nat, NEW ct \in Nat,
         Respond(m, t, b, ci, ct)
  PROVE  ReplicationTypeOK'
<1>1. m \in AppendRequest /\ m.to # m.from
  BY DEF ReplicationTypeOK
<1>2. /\ m.from \in Node /\ m.to \in Node /\ m.slot \in CallSlot /\ m.term \in Nat
      /\ m.prevIndex \in Nat /\ m.entries \in Seq(Entry)
  BY <1>1 DEF AppendRequest
<1>3. m.prevIndex + Len(m.entries) \in Nat
  BY <1>2
<1>. DEFINE r == [from |-> m.from, to |-> m.to, slot |-> m.slot,
                  reqTerm |-> m.term, prevIndex |-> m.prevIndex,
                  match |-> m.prevIndex + Len(m.entries), term |-> t,
                  success |-> b, conflictIndex |-> ci, conflictTerm |-> ct]
<1>4. r \in AppendResponse /\ r.to # r.from
  BY <1>1, <1>2, <1>3 DEF AppendResponse
<1>5. appendRequests' \subseteq appendRequests
      /\ appendResponses' = appendResponses \cup {r}
  BY DEF Respond
<1>. HIDE DEF r
<1>. QED  BY <1>4, <1>5 DEF ReplicationTypeOK

LEMMA MergeType ==
  ASSUME NEW l \in Seq(Entry), NEW es \in Seq(Entry)
  PROVE  Merge(l, es) \in Seq(Entry)
<1>1. CASE Differing(l, es) = {}
  BY <1>1 DEF Merge
<1>2. CASE Differing(l, es) # {}
  <2>. DEFINE k == FirstDiffering(l, es)
              kept == IF Conflicts(l, es) THEN TruncateFrom(l, es[k].index) ELSE l
  <2>1. k \in 1 .. Len(es)
    BY <1>2, FirstDifferingIsFirst
  <2>2. SubSeq(es, k, Len(es)) \in Seq(Entry)
    BY <2>1, Suffix
  <2>3. CASE Conflicts(l, es)
    <3>. DEFINE i == es[k].index
    <3>1. i \in 0 .. Len(l)
      BY <2>3 DEF Conflicts, HasEntry
    <3>. HIDE DEF i
    <3>2. SubSeq(l, 1, i - 1) \in Seq(Entry)
      BY <3>1, SubSeqProperties
    <3>. QED  BY <1>2, <2>2, <2>3, <3>2, ConcatProperties DEF Merge, TruncateFrom, i
  <2>4. CASE ~Conflicts(l, es)
    BY <1>2, <2>2, <2>4, ConcatProperties DEF Merge
  <2>. QED  BY <2>3, <2>4
<1>. QED  BY <1>1, <1>2

LEMMA ReplicationStepTypes ==
  ASSUME NodeTypeOK, ReplicationTypeOK, ReplicationNext
  PROVE  NodeTypeOK' /\ ReplicationTypeOK'
<1>0. RoleTypeOK /\ LogTypeOK /\ PeerTypeOK
  BY NodeTypeParts
<1>1. ASSUME NEW n \in Node, NEW v \in Value, Propose(n, v)
      PROVE  NodeTypeOK' /\ ReplicationTypeOK'
  <2>1. log[n] \in Seq(Entry) /\ currentTerm[n] \in Nat
    BY <1>0 DEF LogTypeOK, RoleTypeOK
  <2>2. Append(log[n], [index |-> LastIndex(log[n]) + 1,
                        term |-> currentTerm[n], data |-> v]) \in Seq(Entry)
    BY <2>1, AppendTypes
  <2>3. LogTypeOK'
    BY <1>0, <1>1, <2>2 DEF Propose, LogTypeOK
  <2>. QED  BY <1>0, <1>1, <2>3, Unchanged DEF Propose
<1>2. ASSUME NEW n \in Node, HeartbeatTick(n)
      PROVE  NodeTypeOK' /\ ReplicationTypeOK'
  <2>1. Committed(n, matchIndex[n]) \in Nat
    BY CommittedType
  <2>2. LogTypeOK'
    BY <1>0, <1>2, <2>1 DEF HeartbeatTick, LogTypeOK
  <2>. QED  BY <1>0, <1>2, <2>2, Unchanged DEF HeartbeatTick
<1>3. ASSUME NEW n \in Node, NEW p \in Peers(n), NEW s \in CallSlot,
             ReplicateTo(n, p, s)
      PROVE  NodeTypeOK' /\ ReplicationTypeOK'
  <2>1. RequestTo(n, p, s) \in AppendRequest
    BY <1>3, RequestType DEF ReplicateTo
  <2>2. RequestTo(n, p, s).to = p /\ RequestTo(n, p, s).from = n /\ p # n
    BY DEF RequestTo, Peers
  <2>3. ReplicationTypeOK'
    BY <1>3, <2>1, <2>2 DEF ReplicateTo, ReplicationTypeOK
  <2>. QED  BY <1>3, <2>3, Unchanged DEF ReplicateTo
<1>4. ASSUME NEW m \in appendRequests, HandleAppendEntries(m)
      PROVE  NodeTypeOK' /\ ReplicationTypeOK'
  <2>. DEFINE n == m.to
  <2>1. m \in AppendRequest
    BY DEF ReplicationTypeOK
  <2>2. /\ n \in Node /\ m.from \in Node \cup {NoNode} /\ m.term \in Nat
        /\ m.prevIndex \in Nat /\ m.entries \in Seq(Entry) /\ m.leaderCommit \in Nat
    BY <2>1 DEF AppendRequest
  <2>3. /\ log[n] \in Seq(Entry) /\ commitIndex[n] \in Nat
        /\ currentTerm[n] \in Nat
    BY <1>0, <2>2 DEF LogTypeOK, RoleTypeOK
  <2>4. FollowLeader(m) => RoleTypeOK' /\ PeerTypeOK'
    BY <1>0, <2>2, RoleChangeTypes, Unchanged DEF FollowLeader
  <2>. HIDE DEF n
  <2>5. CASE RejectStaleLeader(m)
    BY <2>3, <2>5, RespondTypes, Unchanged DEF RejectStaleLeader, n
  <2>6. CASE RejectMissing(m)
    <3>0. LastIndex(log[n]) \in Nat
      BY <2>3, LogTypes
    <3>1. LastIndex(log[n]) + 1 \in Nat
      BY <3>0
    <3>. QED  BY <1>0, <2>2, <2>4, <2>6, <3>1, RespondTypes, Unchanged
              DEF RejectMissing, n
  <2>7. CASE RejectMismatch(m)
    <3>1. m.prevIndex \in 1 .. Len(log[n])
      BY <2>2, <2>3, <2>7 DEF RejectMismatch, HasEntry, n
    <3>2. /\ \A i \in 0 .. Len(log[n]) : EntryTerm(log[n], i) \in Nat
          /\ \A i \in 1 .. Len(log[n]) : FirstOfTermRun(log[n], i) \in Nat
      BY <2>3, LogTypes
    <3>3. /\ FirstOfTermRun(log[n], m.prevIndex) \in Nat
          /\ EntryTerm(log[n], m.prevIndex) \in Nat
      BY <2>3, <3>1, <3>2
    <3>. QED  BY <1>0, <2>2, <2>4, <2>7, <3>3, RespondTypes, Unchanged
              DEF RejectMismatch, n
  <2>8. CASE RefuseTruncation(m)
    BY <1>0, <2>2, <2>4, <2>8, RespondTypes, Unchanged DEF RefuseTruncation
  <2>9. CASE AcceptEntries(m)
    <3>. DEFINE l == Merge(log[n], m.entries)
    <3>1. l \in Seq(Entry)
      BY <2>2, <2>3, MergeType
    <3>2. /\ log' = [log EXCEPT ![n] = l]
          /\ commitIndex' = [commitIndex EXCEPT
               ![n] = FollowerCommit(l, commitIndex[n], m.leaderCommit)]
      BY <2>9 DEF AcceptEntries, n
    <3>. HIDE DEF l
    <3>3. FollowerCommit(l, commitIndex[n], m.leaderCommit) \in Nat
      BY <2>2, <2>3, <3>1, CommitTypes
    <3>4. LogTypeOK'
      BY <1>0, <3>1, <3>2, <3>3 DEF LogTypeOK
    <3>5. ReplicationTypeOK'
      BY <2>2, <2>9, RespondTypes DEF AcceptEntries
    <3>. QED  BY <2>4, <2>9, <3>4, <3>5, Unchanged DEF AcceptEntries
  <2>. QED  BY <1>4, <2>5, <2>6, <2>7, <2>8, <2>9 DEF HandleAppendEntries
<1>5. ASSUME NEW r \in appendResponses, HandleAppendResponse(r)
      PROVE  NodeTypeOK' /\ ReplicationTypeOK'
  <2>. DEFINE n == r.from
  <2>1. r \in AppendResponse /\ r.to # r.from
    BY DEF ReplicationTypeOK
  <2>2. /\ n \in Node /\ r.to \in Peers(n) /\ r.term \in Nat /\ r.match \in Nat
        /\ r.conflictIndex \in Nat /\ r.conflictTerm \in Nat
    BY <2>1 DEF AppendResponse, Peers
  <2>3. ReplicationTypeOK'
    BY <1>5 DEF HandleAppendResponse, ReplicationTypeOK
  <2>. HIDE DEF n
  <2>4. CASE DiscardResponse(r)
    BY <2>3, <2>4, Unchanged DEF DiscardResponse
  <2>5. CASE StepDownOnResponse(r)
    <3>1. RoleTypeOK'
      BY <1>0, <2>2, <2>5, RoleChangeTypes DEF StepDownOnResponse, n
    <3>. QED  BY <1>0, <2>3, <2>5, <3>1, Unchanged DEF StepDownOnResponse
  <2>6. CASE AdvancePeer(r)
    <3>. DEFINE match == IF r.match > matchIndex[n][r.to] THEN r.match
                                                        ELSE matchIndex[n][r.to]
                c == Committed(n, [matchIndex[n] EXCEPT ![r.to] = match])
    <3>1. match \in Nat
      BY <1>0, <2>2 DEF PeerTypeOK
    <3>2. c \in Nat
      BY <2>2, CommittedType
    <3>3. /\ matchIndex' = [matchIndex EXCEPT ![n][r.to] = match]
          /\ nextIndex' = [nextIndex EXCEPT ![n][r.to] = match + 1]
          /\ commitIndex' = [commitIndex EXCEPT ![n] = c]
          /\ UNCHANGED log /\ UNCHANGED <<voteVars, roleVars>>
      BY <2>6 DEF AdvancePeer, n
    <3>. HIDE DEF match, c
    <3>4. PeerTypeOK'
      BY <1>0, <2>2, <3>1, <3>3 DEF PeerTypeOK
    <3>5. LogTypeOK'
      BY <1>0, <2>2, <3>2, <3>3 DEF LogTypeOK
    <3>. QED  BY <1>0, <2>3, <3>3, <3>4, <3>5, Unchanged
  <2>7. CASE BackUpPeer(r)
    <3>1. log[n] \in Seq(Entry)
      BY <1>0, <2>2 DEF LogTypeOK
    <3>2. BackedUp(log[n], r) \in Nat
      BY <2>2, <3>1, LogTypes DEF BackedUp
    <3>3. /\ nextIndex' = [nextIndex EXCEPT ![n][r.to] = BackedUp(log[n], r)]
          /\ UNCHANGED matchIndex
          /\ UNCHANGED <<voteVars, roleVars>> /\ UNCHANGED logVars
      BY <2>7 DEF BackUpPeer, n
    <3>4. PeerTypeOK'
      BY <1>0, <2>2, <3>2, <3>3 DEF PeerTypeOK
    <3>. QED  BY <1>0, <2>3, <3>3, <3>4, Unchanged
  <2>. QED  BY <1>5, <2>4, <2>5, <2>6, <2>7 DEF HandleAppendResponse
<1>6. ASSUME LoseAppend
      PROVE  NodeTypeOK' /\ ReplicationTypeOK'
  BY <1>6, Unchanged DEF LoseAppend, ReplicationTypeOK
<1>. QED
  BY <1>1, <1>2, <1>3, <1>4, <1>5, <1>6 DEF ReplicationNext

-----------------------------------------------------------------------------
LEMMA TypesInitially == Init => TypeOK
<1>1. <<>> \in Seq(Entry)
  OBVIOUS
<1>2. Init => NodeTypeOK
  BY <1>1 DEF Init, NodeInit, NodeTypeOK, States
<1>3. Init => ElectionTypeOK
  BY CampaignTypes DEF Init, ElectionInit, ElectionTypeOK, NoCampaign
<1>. QED  BY <1>2, <1>3 DEF Init, ReplicationInit, ReplicationTypeOK, TypeOK

LEMMA TypesKept == TypeOK /\ [Next]_vars => TypeOK'
<1>1. TypeOK /\ Next => TypeOK'
  <2>1. TypeOK /\ ElectionNext /\ UNCHANGED appendVars => TypeOK'
    BY ElectionStepTypes, Unchanged DEF TypeOK
  <2>2. TypeOK /\ ReplicationNext /\ UNCHANGED electionVars => TypeOK'
    BY ReplicationStepTypes, Unchanged DEF TypeOK
  <2>. QED  BY <2>1, <2>2 DEF Next
<1>2. TypeOK /\ UNCHANGED vars => TypeOK'
  <2>1. UNCHANGED vars => UNCHANGED nodeVars /\ UNCHANGED electionVars
                                             /\ UNCHANGED appendVars
    BY DEF vars
  <2>. QED  BY <2>1, Unchanged DEF TypeOK
<1>. QED  BY <1>1, <1>2

(* Type correctness, of every node's fields, of every campaign goroutine   *)
(* (a campaign never waits for its own node) and of every call in flight.  *)
THEOREM TypeCorrect == Spec => []TypeOK
BY TypesInitially, TypesKept, PTL DEF Spec

-----------------------------------------------------------------------------
(* What a step does to terms and votes. *)

VoteUnchanged == UNCHANGED <<currentTerm, votedFor>>

LEMMA FollowerRegister ==
  ASSUME NodeTypeOK, NEW n \in Node, NEW t \in Nat, NEW ld,
         becomeFollower(n, t, ld)
  PROVE  Register!EnterTerm(n) \/ VoteUnchanged
<1>1. CASE t > currentTerm[n]
  <2>1. /\ currentTerm' = [currentTerm EXCEPT ![n] = t]
        /\ votedFor' = [votedFor EXCEPT ![n] = NoNode]
    BY <1>1 DEF becomeFollower
  <2>2. currentTerm'[n] = t
    BY <2>1 DEF NodeTypeOK
  <2>. QED  BY <1>1, <2>1, <2>2 DEF Register!EnterTerm
<1>2. CASE ~(t > currentTerm[n])
  BY <1>2 DEF becomeFollower, voteVars, VoteUnchanged
<1>. QED  BY <1>1, <1>2

LEMMA ElectionRegister ==
  ASSUME NodeTypeOK, ElectionTypeOK, ElectionNext
  PROVE  Register!RegisterNext \/ VoteUnchanged
<1>1. ASSUME NEW n \in Node, NEW k \in Slot, StartElection(n, k)
      PROVE  Register!RegisterNext
  BY <1>1 DEF StartElection, becomeCandidate, Register!Stand, Register!RegisterNext
<1>2. ASSUME NEW m \in voteRequests, HandleRequestVote(m)
      PROVE  Register!RegisterNext \/ VoteUnchanged
  <2>1. m.to \in Node /\ m.from \in Node
    BY DEF ElectionTypeOK, VoteRequest
  <2>2. CASE ~VoteGranted(m)
    BY <1>2, <2>2 DEF HandleRequestVote, VoteUnchanged
  <2>3. CASE VoteGranted(m) /\ votedFor[m.to] = NoNode
    <3>1. Register!Cast(m.to, m.from)
      BY <1>2, <2>3 DEF HandleRequestVote, Register!Cast
    <3>. QED  BY <2>1, <3>1 DEF Register!RegisterNext
  <2>4. CASE VoteGranted(m) /\ votedFor[m.to] = m.from
    BY <1>2, <2>1, <2>4 DEF HandleRequestVote, VoteUnchanged, NodeTypeOK
  <2>. QED  BY <2>2, <2>3, <2>4 DEF VoteGranted
<1>3. ASSUME NEW n \in Node, NEW k \in Slot, NEW r \in campaigns[n][k].voteCh,
             TallyStepDown(n, k, r)
      PROVE  Register!RegisterNext \/ VoteUnchanged
  <2>1. r.term \in Nat
    BY ReadCampaign DEF Reply
  <2>. QED  BY <1>3, <2>1, FollowerRegister DEF TallyStepDown, Register!RegisterNext
<1>4. ASSUME NEW n \in Node, NEW k \in Slot, GiveUp(n, k)
      PROVE  Register!RegisterNext \/ VoteUnchanged
  <2>1. currentTerm[n] \in Nat
    BY DEF NodeTypeOK
  <2>. QED  BY <1>4, <2>1, FollowerRegister
            DEF GiveUp, voteVars, VoteUnchanged, Register!RegisterNext
<1>5. ASSUME NEW n \in Node, NEW k \in Slot,
             \/ ElectionTimeout(n, k) \/ CampaignBailsOut(n, k)
             \/ StartPreVote(n, k) \/ Escalate(n, k) \/ TakeLeadership(n, k)
             \/ \E r \in campaigns[n][k].voteCh :
                  TallyAbort(n, k, r) \/ TallyCount(n, k, r)
             \/ \E p \in Peers(n) : VoteCallFails(n, k, p) \/ HandlePreVote(n, k, p)
      PROVE  VoteUnchanged
  BY <1>5 DEF ElectionTimeout, CampaignBailsOut, StartPreVote, Escalate,
              TakeLeadership, becomeLeader, TallyAbort, TallyCount, VoteCallFails,
              HandlePreVote, nodeVars, voteVars, VoteUnchanged
<1>. QED  BY <1>1, <1>2, <1>3, <1>4, <1>5 DEF ElectionNext, CampaignStep

LEMMA ReplicationRegister ==
  ASSUME NodeTypeOK, ReplicationTypeOK, ReplicationNext
  PROVE  Register!RegisterNext \/ VoteUnchanged
<1>1. ASSUME NEW m \in appendRequests, HandleAppendEntries(m)
      PROVE  Register!RegisterNext \/ VoteUnchanged
  <2>1. m.to \in Node /\ m.term \in Nat
    BY DEF ReplicationTypeOK, AppendRequest
  <2>2. FollowLeader(m) => Register!RegisterNext \/ VoteUnchanged
    BY <2>1, FollowerRegister DEF FollowLeader, Register!RegisterNext
  <2>3. RejectStaleLeader(m) => VoteUnchanged
    BY DEF RejectStaleLeader, nodeVars, voteVars, VoteUnchanged
  <2>. QED  BY <1>1, <2>2, <2>3 DEF HandleAppendEntries, RejectMissing,
              RejectMismatch, RefuseTruncation, AcceptEntries
<1>2. ASSUME NEW r \in appendResponses, HandleAppendResponse(r)
      PROVE  Register!RegisterNext \/ VoteUnchanged
  <2>1. r.from \in Node /\ r.term \in Nat
    BY DEF ReplicationTypeOK, AppendResponse
  <2>2. StepDownOnResponse(r) => Register!RegisterNext \/ VoteUnchanged
    BY <2>1, FollowerRegister DEF StepDownOnResponse, Register!RegisterNext
  <2>3. DiscardResponse(r) \/ AdvancePeer(r) \/ BackUpPeer(r) => VoteUnchanged
    BY DEF DiscardResponse, AdvancePeer, BackUpPeer, nodeVars, voteVars,
           VoteUnchanged
  <2>. QED  BY <1>2, <2>2, <2>3 DEF HandleAppendResponse
<1>3. ASSUME \/ \E n \in Node :
                  \/ \E v \in Value : Propose(n, v)
                  \/ HeartbeatTick(n)
                  \/ \E p \in Peers(n), s \in CallSlot : ReplicateTo(n, p, s)
             \/ LoseAppend
      PROVE  VoteUnchanged
  BY <1>3 DEF Propose, HeartbeatTick, ReplicateTo, LoseAppend, nodeVars, voteVars,
              VoteUnchanged
<1>. QED  BY <1>1, <1>2, <1>3 DEF ReplicationNext

LEMMA RegisterStep ==
  ASSUME TypeOK, [Next]_vars
  PROVE  [Register!RegisterNext]_<<currentTerm, votedFor>>
<1>1. CASE Next
  BY <1>1, ElectionRegister, ReplicationRegister DEF Next, TypeOK, VoteUnchanged
<1>2. CASE UNCHANGED vars
  BY <1>2 DEF vars, nodeVars, voteVars
<1>. QED  BY <1>1, <1>2

(* Every node's term and vote implement the register of VoteRegister: the  *)
(* term never goes back and the vote of the current term, once cast, is    *)
(* never changed or withdrawn, whatever campaigns, vote requests, leaders  *)
(* and late replies interleave.                                            *)
THEOREM VoteRegisterImplemented == Spec => VoteRegisterSpec
<1>1. Init => Register!RegisterInit
  BY DEF Init, NodeInit, Register!RegisterInit
<1>2. TypeOK /\ [Next]_vars => [Register!RegisterNext]_<<currentTerm, votedFor>>
  BY RegisterStep
<1>. QED
  BY <1>1, <1>2, TypeCorrect, PTL DEF Spec, VoteRegisterSpec, Register!RegisterSpec

(* The consequence the logs rest on: no step lowers a term. *)
LEMMA TermsGrow ==
  ASSUME TypeOK, TypeOK', [Next]_vars, NEW n \in Node
  PROVE  currentTerm[n] <= currentTerm'[n]
<1>1. /\ currentTerm \in [Node -> Nat] /\ currentTerm' \in [Node -> Nat]
  BY DEF TypeOK, NodeTypeOK
<1>2. CASE Register!RegisterNext
  <2>1. PICK x \in Node : \/ Register!EnterTerm(x)
                          \/ Register!Stand(x)
                          \/ \E c \in Node : Register!Cast(x, c)
    BY <1>2 DEF Register!RegisterNext
  <2>. QED  BY <1>1, <2>1 DEF Register!EnterTerm, Register!Stand, Register!Cast
<1>3. CASE UNCHANGED <<currentTerm, votedFor>>
  BY <1>1, <1>3
<1>. QED  BY <1>2, <1>3, RegisterStep

-----------------------------------------------------------------------------
(* Nobody falls asleep.  NoStall is inductive as it stands: the pre-vote   *)
(* campaigns it counts on lose their claim only in a step that arms the    *)
(* timer or moves the claim on.                                            *)

Awake(n) == state[n] # "Leader" => timer[n] \/ \E k \in Slot : WakesUp(n, k)

LEMMA RoleChangeAwake ==
  ASSUME NodeTypeOK, NEW n \in Node
  PROVE  /\ \A t \in Nat : \A ld : becomeFollower(n, t, ld) =>
              /\ timer'[n]
              /\ \A x \in Node \ {n} : state'[x] = state[x] /\ timer'[x] = timer[x]
         /\ becomeCandidate(n) =>
              /\ timer'[n]
              /\ \A x \in Node \ {n} : state'[x] = state[x] /\ timer'[x] = timer[x]
BY DEF becomeFollower, becomeCandidate, NodeTypeOK

(* A node whose role, timer and campaigns did not change stays awake; one  *)
(* of its campaigns may have been answered.                                *)
LEMMA SameAwake ==
  ASSUME NEW n \in Node, Awake(n), state'[n] = state[n],
         timer[n] => timer'[n],
         \A k \in Slot : /\ campaigns'[n][k].pc = campaigns[n][k].pc
                         /\ campaigns'[n][k].preVote = campaigns[n][k].preVote
  PROVE  Awake(n)'
BY DEF Awake, WakesUp

LEMMA AnsweredFields ==
  ASSUME NEW c \in Campaign, NEW r
  PROVE  Answered(c, r).pc = c.pc /\ Answered(c, r).preVote = c.preVote
BY DEF Answered, Campaign

LEMMA CountedFields ==
  ASSUME NEW c \in Campaign, c.pc = "tally", NEW r
  PROVE  /\ Counted(c, r).pc \in {"tally", "won", "lost"}
         /\ Counted(c, r).preVote = c.preVote
BY DEF Counted, MovedTo, NoCampaign, Campaign

LEMMA SetOne ==
  ASSUME ElectionTypeOK, NEW n \in Node, NEW k \in Slot, NEW c, SetCampaign(n, k, c)
  PROVE  /\ campaigns'[n][k] = c
         /\ \A j \in Slot \ {k} : campaigns'[n][j] = campaigns[n][j]
         /\ \A x \in Node \ {n}, j \in Slot : campaigns'[x][j] = campaigns[x][j]
BY DEF SetCampaign, ElectionTypeOK

LEMMA ElectionAwake ==
  ASSUME NodeTypeOK, ElectionTypeOK, NoStall, ElectionNext, NEW x \in Node
  PROVE  Awake(x)'
<1>0. Awake(x)
  BY DEF NoStall, Awake
<1>1. ASSUME NEW n \in Node, NEW k \in Slot, ElectionTimeout(n, k)
      PROVE  Awake(x)'
  <2>0. Spawned(EnablePreVote).pc = "start"
    BY DEF Spawned, NoCampaign
  <2>1. campaigns'[n][k].pc = "start"
    BY <1>1, <2>0, SetOne DEF ElectionTimeout
  <2>2. CASE x = n
    BY <2>1, <2>2 DEF Awake, WakesUp
  <2>3. CASE x # n
    <3>1. state'[x] = state[x] /\ timer'[x] = timer[x]
      BY <1>1, <2>3 DEF ElectionTimeout, NodeTypeOK
    <3>2. \A j \in Slot : campaigns'[x][j] = campaigns[x][j]
      BY <1>1, <2>3, SetOne DEF ElectionTimeout
    <3>. QED  BY <1>0, <3>1, <3>2, SameAwake
  <2>. QED  BY <2>2, <2>3
<1>2. ASSUME NEW n \in Node, NEW k \in Slot, CampaignBailsOut(n, k)
      PROVE  Awake(x)'
  <2>1. state' = state /\ timer' = timer /\ state[n] = "Leader"
    BY <1>2 DEF CampaignBailsOut, nodeVars, roleVars
  <2>2. CASE x = n
    BY <2>1, <2>2 DEF Awake
  <2>3. CASE x # n
    <3>2. \A j \in Slot : campaigns'[x][j] = campaigns[x][j]
      BY <1>2, <2>3, SetOne DEF CampaignBailsOut
    <3>. QED  BY <1>0, <2>1, <3>2, SameAwake
  <2>. QED  BY <2>2, <2>3
<1>3. ASSUME NEW n \in Node, NEW k \in Slot, StartPreVote(n, k)
      PROVE  Awake(x)'
  <2>1. PICK c : /\ SetCampaign(n, k, c)
                 /\ \/ c.pc = "start"
                    \/ c.pc = "tally" /\ c.preVote
    <3>. DEFINE c1 == Spawned(FALSE)
                c2 == Started(n, TRUE, currentTerm[n] + 1)
    <3>1. c1.pc = "start"
      BY DEF Spawned, NoCampaign
    <3>2. c2.pc = "tally" /\ c2.preVote
      BY DEF Started
    <3>3. SetCampaign(n, k, c1) \/ SetCampaign(n, k, c2)
      BY <1>3 DEF StartPreVote
    <3>. HIDE DEF c1, c2
    <3>. QED  BY <3>1, <3>2, <3>3
  <2>2. state'[n] = "PreCandidate"
    BY <1>3 DEF StartPreVote, NodeTypeOK
  <2>3. CASE x = n
    <3>1. WakesUp(n, k)'
      BY <2>1, <2>2, SetOne DEF WakesUp
    <3>. QED  BY <2>3, <3>1 DEF Awake
  <2>4. CASE x # n
    <3>1. state'[x] = state[x] /\ timer'[x] = timer[x]
      BY <1>3, <2>4 DEF StartPreVote, NodeTypeOK
    <3>2. \A j \in Slot : campaigns'[x][j] = campaigns[x][j]
      BY <2>1, <2>4, SetOne
    <3>. QED  BY <1>0, <3>1, <3>2, SameAwake
  <2>. QED  BY <2>3, <2>4
<1>4. ASSUME NEW n \in Node, NEW k \in Slot, StartElection(n, k)
      PROVE  Awake(x)'
  <2>1. /\ timer'[n]
        /\ \A y \in Node \ {n} : state'[y] = state[y] /\ timer'[y] = timer[y]
    BY <1>4, RoleChangeAwake DEF StartElection
  <2>2. CASE x = n
    BY <2>1, <2>2 DEF Awake
  <2>3. CASE x # n
    <3>1. \E c : SetCampaign(n, k, c)
      BY <1>4 DEF StartElection
    <3>2. \A j \in Slot : campaigns'[x][j] = campaigns[x][j]
      BY <2>3, <3>1, SetOne
    <3>. QED  BY <1>0, <2>1, <2>3, <3>2, SameAwake
  <2>. QED  BY <2>2, <2>3
<1>5. ASSUME NEW n \in Node, NEW k \in Slot, NEW p \in Peers(n),
             VoteCallFails(n, k, p) \/ HandlePreVote(n, k, p)
      PROVE  Awake(x)'
  <2>1. state' = state /\ timer' = timer
    BY <1>5 DEF VoteCallFails, HandlePreVote, nodeVars, roleVars
  <2>2. PICK r : SetCampaign(n, k, Answered(campaigns[n][k], r))
    BY <1>5 DEF VoteCallFails, HandlePreVote
  <2>3. \A j \in Slot : /\ campaigns'[x][j].pc = campaigns[x][j].pc
                        /\ campaigns'[x][j].preVote = campaigns[x][j].preVote
    BY <2>2, SetOne, AnsweredFields, ReadCampaign
  <2>. QED  BY <1>0, <2>1, <2>3, SameAwake
<1>6. ASSUME NEW m \in voteRequests, HandleRequestVote(m)
      PROVE  Awake(x)'
  <2>1. m.to \in Node /\ m.from \in Node /\ m.slot \in Slot
    BY DEF ElectionTypeOK, VoteRequest
  <2>2. \A j \in Slot : /\ campaigns'[x][j].pc = campaigns[x][j].pc
                        /\ campaigns'[x][j].preVote = campaigns[x][j].preVote
    <3>1. CASE CallerWaits(m)
      <4>1. PICK r : SetCampaign(m.from, m.slot,
                                 Answered(campaigns[m.from][m.slot], r))
        BY <1>6, <3>1 DEF HandleRequestVote
      <4>. QED  BY <2>1, <4>1, SetOne, AnsweredFields, ReadCampaign
    <3>2. CASE ~CallerWaits(m)
      BY <1>6, <3>2 DEF HandleRequestVote
    <3>. QED  BY <3>1, <3>2
  <2>3. (timer[x] => timer'[x]) /\ (state'[x] = state[x] \/ timer'[x])
    BY <1>6, <2>1 DEF HandleRequestVote, NodeTypeOK
  <2>4. CASE state'[x] = state[x]
    BY <1>0, <2>2, <2>3, <2>4, SameAwake
  <2>5. CASE timer'[x]
    BY <2>5 DEF Awake
  <2>. QED  BY <2>3, <2>4, <2>5
<1>7. ASSUME NEW n \in Node, NEW k \in Slot, NEW r \in campaigns[n][k].voteCh,
             TallyAbort(n, k, r)
      PROVE  Awake(x)'
  <2>1. /\ state' = state /\ timer' = timer /\ ~WakesUp(n, k)
    BY <1>7 DEF TallyAbort, nodeVars, roleVars, WakesUp, Superseded
  <2>2. /\ \A j \in Slot \ {k} : campaigns'[n][j] = campaigns[n][j]
        /\ \A y \in Node \ {n}, j \in Slot : campaigns'[y][j] = campaigns[y][j]
    BY <1>7, SetOne DEF TallyAbort
  <2>. QED  BY <1>0, <2>1, <2>2 DEF Awake, WakesUp
<1>8. ASSUME NEW n \in Node, NEW k \in Slot, NEW r \in campaigns[n][k].voteCh,
             TallyStepDown(n, k, r)
      PROVE  Awake(x)'
  <2>0. r.term \in Nat
    BY ReadCampaign DEF Reply
  <2>1. /\ timer'[n]
        /\ \A y \in Node \ {n} : state'[y] = state[y] /\ timer'[y] = timer[y]
    BY <1>8, <2>0, RoleChangeAwake DEF TallyStepDown
  <2>2. \A y \in Node \ {n}, j \in Slot : campaigns'[y][j] = campaigns[y][j]
    BY <1>8, SetOne DEF TallyStepDown
  <2>3. CASE x = n
    BY <2>1, <2>3 DEF Awake
  <2>4. CASE x # n
    BY <1>0, <2>1, <2>2, <2>4, SameAwake
  <2>. QED  BY <2>3, <2>4
<1>9. ASSUME NEW n \in Node, NEW k \in Slot, NEW r \in campaigns[n][k].voteCh,
             TallyCount(n, k, r)
      PROVE  Awake(x)'
  <2>1. state' = state /\ timer' = timer /\ campaigns[n][k].pc = "tally"
        /\ SetCampaign(n, k, Counted(campaigns[n][k], r))
    BY <1>9 DEF TallyCount, nodeVars, roleVars
  <2>2. /\ campaigns'[n][k].pc \in {"tally", "won", "lost"}
        /\ campaigns'[n][k].preVote = campaigns[n][k].preVote
    BY <2>1, SetOne, CountedFields, ReadCampaign
  <2>3. /\ \A j \in Slot \ {k} : campaigns'[n][j] = campaigns[n][j]
        /\ \A y \in Node \ {n}, j \in Slot : campaigns'[y][j] = campaigns[y][j]
    BY <2>1, SetOne
  <2>. QED  BY <1>0, <2>1, <2>2, <2>3 DEF Awake, WakesUp
<1>10. ASSUME NEW n \in Node, NEW k \in Slot, Escalate(n, k)
       PROVE  Awake(x)'
  <2>. DEFINE c == Spawned(FALSE)
  <2>0. c.pc = "start"
    BY DEF Spawned, NoCampaign
  <2>1. state' = state /\ timer' = timer /\ SetCampaign(n, k, c)
    BY <1>10 DEF Escalate, nodeVars, roleVars
  <2>. HIDE DEF c
  <2>2. campaigns'[n][k].pc = "start"
    BY <2>0, <2>1, SetOne
  <2>3. \A y \in Node \ {n}, j \in Slot : campaigns'[y][j] = campaigns[y][j]
    BY <2>1, SetOne
  <2>4. CASE x = n
    BY <2>2, <2>4 DEF Awake, WakesUp
  <2>5. CASE x # n
    BY <1>0, <2>1, <2>3, <2>5, SameAwake
  <2>. QED  BY <2>4, <2>5
<1>11. ASSUME NEW n \in Node, NEW k \in Slot, TakeLeadership(n, k)
       PROVE  Awake(x)'
  <2>1. /\ state'[n] = "Leader"
        /\ \A y \in Node \ {n} : state'[y] = state[y] /\ timer'[y] = timer[y]
    BY <1>11 DEF TakeLeadership, becomeLeader, NodeTypeOK
  <2>2. \A y \in Node \ {n}, j \in Slot : campaigns'[y][j] = campaigns[y][j]
    BY <1>11, SetOne DEF TakeLeadership
  <2>3. CASE x = n
    BY <2>1, <2>3 DEF Awake
  <2>4. CASE x # n
    BY <1>0, <2>1, <2>2, <2>4, SameAwake
  <2>. QED  BY <2>3, <2>4
<1>12. ASSUME NEW n \in Node, NEW k \in Slot, GiveUp(n, k)
       PROVE  Awake(x)'
  <2>0. currentTerm[n] \in Nat
    BY DEF NodeTypeOK
  <2>1. /\ \A j \in Slot \ {k} : campaigns'[n][j] = campaigns[n][j]
        /\ \A y \in Node \ {n}, j \in Slot : campaigns'[y][j] = campaigns[y][j]
    BY <1>12, SetOne DEF GiveUp
  <2>2. CASE state[n] \in {"Candidate", "PreCandidate"}
    <3>1. /\ timer'[n]
          /\ \A y \in Node \ {n} : state'[y] = state[y] /\ timer'[y] = timer[y]
      BY <1>12, <2>0, <2>2, RoleChangeAwake DEF GiveUp
    <3>2. CASE x = n
      BY <3>1, <3>2 DEF Awake
    <3>3. CASE x # n
      BY <1>0, <2>1, <3>1, <3>3, SameAwake
    <3>. QED  BY <3>2, <3>3
  <2>3. CASE state[n] \notin {"Candidate", "PreCandidate"}
    <3>1. state' = state /\ timer' = timer /\ ~WakesUp(n, k)
      BY <1>12, <2>3 DEF GiveUp, roleVars, WakesUp
    <3>. QED  BY <1>0, <2>1, <3>1 DEF Awake, WakesUp
  <2>. QED  BY <2>2, <2>3
<1>. QED  BY <1>1, <1>2, <1>3, <1>4, <1>5, <1>6, <1>7, <1>8, <1>9, <1>10, <1>11,
             <1>12 DEF ElectionNext, CampaignStep

LEMMA ReplicationAwake ==
  ASSUME NodeTypeOK, ReplicationTypeOK, NoStall, ReplicationNext,
         UNCHANGED electionVars, NEW x \in Node
  PROVE  Awake(x)'
<1>0. Awake(x) /\ campaigns' = campaigns
  BY DEF NoStall, Awake, electionVars
<1>1. ASSUME state'[x] = state[x] /\ timer'[x] = timer[x]
      PROVE  Awake(x)'
  BY <1>0, <1>1, SameAwake
<1>2. ASSUME NEW n \in Node, NEW t \in Nat, NEW ld, becomeFollower(n, t, ld)
      PROVE  Awake(x)'
  <2>1. /\ timer'[n]
        /\ \A y \in Node \ {n} : state'[y] = state[y] /\ timer'[y] = timer[y]
    BY <1>2, RoleChangeAwake
  <2>2. CASE x = n
    BY <2>1, <2>2 DEF Awake
  <2>3. CASE x # n
    BY <1>1, <2>1, <2>3
  <2>. QED  BY <2>2, <2>3
<1>3. ASSUME NEW m \in appendRequests, HandleAppendEntries(m)
      PROVE  Awake(x)'
  <2>1. m.to \in Node /\ m.term \in Nat
    BY DEF ReplicationTypeOK, AppendRequest
  <2>2. FollowLeader(m) => Awake(x)'
    BY <1>2, <2>1 DEF FollowLeader
  <2>3. RejectStaleLeader(m) => Awake(x)'
    BY <1>1 DEF RejectStaleLeader, nodeVars, roleVars
  <2>. QED  BY <1>3, <2>2, <2>3 DEF HandleAppendEntries, RejectMissing,
              RejectMismatch, RefuseTruncation, AcceptEntries
<1>4. ASSUME NEW r \in appendResponses, HandleAppendResponse(r)
      PROVE  Awake(x)'
  <2>1. r.from \in Node /\ r.term \in Nat
    BY DEF ReplicationTypeOK, AppendResponse
  <2>2. StepDownOnResponse(r) => Awake(x)'
    BY <1>2, <2>1 DEF StepDownOnResponse
  <2>3. DiscardResponse(r) \/ AdvancePeer(r) \/ BackUpPeer(r) => Awake(x)'
    BY <1>1 DEF DiscardResponse, AdvancePeer, BackUpPeer, nodeVars, roleVars
  <2>. QED  BY <1>4, <2>2, <2>3 DEF HandleAppendResponse
<1>5. ASSUME \/ \E n \in Node :
                  \/ \E v \in Value : Propose(n, v)
                  \/ HeartbeatTick(n)
                  \/ \E p \in Peers(n), s \in CallSlot : ReplicateTo(n, p, s)
             \/ LoseAppend
      PROVE  Awake(x)'
  BY <1>1, <1>5 DEF Propose, HeartbeatTick, ReplicateTo, LoseAppend, nodeVars,
                    roleVars
<1>. QED  BY <1>3, <1>4, <1>5 DEF ReplicationNext

LEMMA NoStallKept == TypeOK /\ NoStall /\ [Next]_vars => NoStall'
<1>1. ASSUME TypeOK, NoStall, Next, NEW x \in Node PROVE Awake(x)'
  BY <1>1, ElectionAwake, ReplicationAwake DEF TypeOK, Next
<1>2. TypeOK /\ NoStall /\ Next => NoStall'
  BY <1>1 DEF NoStall, Awake
<1>3. NoStall /\ UNCHANGED vars => NoStall'
  BY DEF NoStall, WakesUp, vars, nodeVars, roleVars, electionVars
<1>. QED  BY <1>2, <1>3

(* No interleaving leaves a follower, candidate or pre-candidate without   *)
(* an election timer or a campaign that will arm it: no such node is ever  *)
(* stuck in its role for good.                                             *)
THEOREM NobodySleeps == Spec => []NoStall
<1>1. Init => NoStall
  BY DEF Init, NodeInit, NoStall
<1>. QED  BY <1>1, NoStallKept, TypeCorrect, PTL DEF Spec

-----------------------------------------------------------------------------
(***************************************************************************)
(* Safety of the logs.  The inductive invariant LogInv adds to the two     *)
(* invariants it is for what the requests in flight guarantee: a request   *)
(* continues a well-formed log at its prevIndex, whenever it arrives and   *)
(* in whatever order.                                                      *)
(***************************************************************************)

RequestsContinue ==
  \A m \in appendRequests :
    /\ Continues(m.entries, m.prevIndex, m.prevTerm, m.term)
    /\ m.prevIndex = 0 => m.prevTerm = 0

LogInv == LogShape /\ CommitCovered /\ RequestsContinue

-----------------------------------------------------------------------------
(* Facts about well-formed logs. *)

LEMMA EntriesTermed == Termed(Entry)
BY DEF Termed, Entry

LEMMA EntryFields ==
  ASSUME NEW l \in Seq(Entry), NEW i \in 1 .. Len(l)
  PROVE  l[i].term \in Nat /\ l[i].index \in Nat
<1>1. l[i] \in Entry
  OBVIOUS
<1>. QED  BY <1>1 DEF Entry

LEMMA LastIndexIsLen ==
  ASSUME NEW l \in Seq(Entry), NEW t, WellFormed(l, t)
  PROVE  LastIndex(l) = Len(l)
<1>1. CASE l = <<>>
  BY <1>1 DEF LastIndex
<1>2. CASE l # <<>>
  <2>1. Len(l) \in 1 .. Len(l)
    BY <1>2
  <2>. QED  BY <1>2, <2>1 DEF LastIndex, WellFormed
<1>. QED  BY <1>1, <1>2

LEMMA WellFormedLater ==
  ASSUME NEW l \in Seq(Entry), NEW t \in Nat, NEW u \in Nat, t <= u,
         WellFormed(l, t)
  PROVE  WellFormed(l, u)
<1>1. \A i \in 1 .. Len(l) : l[i].term \in Nat
  BY EntryFields
<1>2. \A i \in 1 .. Len(l) : l[i].index = i /\ l[i].term <= u
  BY <1>1 DEF WellFormed
<1>. QED  BY <1>2 DEF WellFormed

LEMMA WellFormedAppend ==
  ASSUME NEW l \in Seq(Entry), NEW t \in Nat, WellFormed(l, t),
         NEW e \in Entry, e.index = LastIndex(l) + 1, e.term = t
  PROVE  WellFormed(Append(l, e), t) /\ Len(Append(l, e)) = Len(l) + 1
         /\ \A i \in 1 .. Len(l) : Append(l, e)[i] = l[i]
<1>. DEFINE r == Append(l, e)
<1>1. /\ r \in Seq(Entry) /\ Len(r) = Len(l) + 1 /\ r[Len(l) + 1] = e
      /\ \A i \in 1 .. Len(l) : r[i] = l[i]
  BY AppendProperties
<1>2. e.index = Len(l) + 1
  BY LastIndexIsLen
<1>. HIDE DEF r
<1>3. ASSUME NEW i \in 1 .. Len(r)
      PROVE  r[i].index = i /\ r[i].term <= t
  <2>1. CASE i = Len(l) + 1
    BY <1>1, <1>2, <2>1
  <2>2. CASE i \in 1 .. Len(l)
    BY <1>1, <2>2 DEF WellFormed
  <2>. QED  BY <1>1, <2>1, <2>2
<1>4. ASSUME NEW i \in 1 .. Len(r), NEW j \in 1 .. Len(r), i <= j
      PROVE  r[i].term <= r[j].term
  <2>1. CASE j = Len(l) + 1
    BY <1>1, <1>3, <2>1
  <2>2. CASE j \in 1 .. Len(l)
    <3>1. i \in 1 .. Len(l)
      BY <1>4, <2>2
    <3>. QED  BY <1>1, <1>4, <2>2, <3>1 DEF WellFormed
  <2>. QED  BY <1>1, <2>1, <2>2
<1>. QED  BY <1>1, <1>3, <1>4 DEF WellFormed, r

LEMMA SuffixContinues ==
  ASSUME NEW l \in Seq(Entry), NEW t \in Nat, WellFormed(l, t),
         NEW i \in 1 .. Len(l) + 1
  PROVE  Continues(EntriesFrom(l, i), i - 1, EntryTerm(l, i - 1), t)
<1>. DEFINE es == EntriesFrom(l, i)
            pt == EntryTerm(l, i - 1)
<1>1. /\ es \in Seq(Entry) /\ Len(es) = Len(l) - i + 1
      /\ \A k \in 1 .. Len(l) - i + 1 : es[k] = l[i + k - 1]
  BY Suffix DEF EntriesFrom
<1>2. \A j \in 1 .. Len(l) : l[j].term \in Nat
  BY EntryFields
<1>. HIDE DEF es
<1>3. Indexed(es, i - 1)
  <2>0. \A k \in 1 .. Len(es) : i + k - 1 \in 1 .. Len(l) /\ es[k] = l[i + k - 1]
    BY <1>1
  <2>1. \A k \in 1 .. Len(es) : es[k].index = i + k - 1
    BY <2>0 DEF WellFormed
  <2>2. \A k \in 1 .. Len(es) : es[k].index = i - 1 + k
    BY <1>1, <2>1
  <2>. QED  BY <2>2 DEF Indexed
<1>4. ASSUME NEW k \in 1 .. Len(es)
      PROVE  pt <= es[k].term /\ es[k].term <= t
  <2>1. i + k - 1 \in 1 .. Len(l) /\ es[k] = l[i + k - 1]
    BY <1>1
  <2>2. CASE i = 1
    BY <1>2, <2>1, <2>2 DEF EntryTerm, WellFormed
  <2>3. CASE i # 1
    <3>1. i - 1 \in 1 .. Len(l) /\ i - 1 <= i + k - 1 /\ pt = l[i - 1].term
      BY <2>3 DEF EntryTerm
    <3>. QED  BY <2>1, <3>1 DEF WellFormed
  <2>. QED  BY <2>2, <2>3
<1>5. ASSUME NEW j \in 1 .. Len(es), NEW k \in 1 .. Len(es), j <= k
      PROVE  es[j].term <= es[k].term
  <2>1. /\ i + k - 1 \in 1 .. Len(l) /\ es[k] = l[i + k - 1]
        /\ i + j - 1 \in 1 .. Len(l) /\ es[j] = l[i + j - 1]
        /\ i + j - 1 <= i + k - 1
    BY <1>1, <1>5
  <2>. QED  BY <2>1 DEF WellFormed
<1>. HIDE DEF pt
<1>6. Continues(es, i - 1, pt, t)
  BY <1>3, <1>4, <1>5 DEF Continues
<1>. QED  BY <1>6 DEF es, pt

-----------------------------------------------------------------------------
(* What a step may do to the logs. *)

CommittedKept ==
  \A n \in Node :
    /\ commitIndex[n] <= commitIndex'[n]
    /\ commitIndex[n] <= Len(log'[n])
    /\ \A i \in 1 .. commitIndex[n] : log'[n][i] = log[n][i]

LogStep == LogInv' /\ CommittedKept

LEMMA LogTyped ==
  ASSUME TypeOK, NEW n \in Node
  PROVE  /\ log[n] \in Seq(Entry) /\ commitIndex[n] \in Nat
         /\ currentTerm[n] \in Nat /\ Len(log[n]) \in Nat
BY DEF TypeOK, NodeTypeOK

(* Logs, commit indexes and requests stay, or requests disappear. *)
LEMMA FrameStep ==
  ASSUME TypeOK, TypeOK', LogInv, [Next]_vars, UNCHANGED logVars,
         appendRequests' \subseteq appendRequests
  PROVE  LogStep
<1>1. log' = log /\ commitIndex' = commitIndex
  BY DEF logVars
<1>2. ASSUME NEW n \in Node PROVE WellFormed(log[n], currentTerm'[n])
  <2>1. currentTerm[n] <= currentTerm'[n]
    BY TermsGrow
  <2>2. log[n] \in Seq(Entry) /\ currentTerm[n] \in Nat /\ currentTerm'[n] \in Nat
    BY DEF TypeOK, NodeTypeOK
  <2>3. WellFormed(log[n], currentTerm[n])
    BY DEF LogInv, LogShape
  <2>. QED  BY <2>1, <2>2, <2>3, WellFormedLater
<1>3. LogShape'
  BY <1>1, <1>2 DEF LogShape
<1>4. CommitCovered' /\ RequestsContinue'
  BY <1>1 DEF LogInv, CommitCovered, RequestsContinue
<1>5. CommittedKept
  <2>1. ASSUME NEW n \in Node PROVE commitIndex[n] <= Len(log[n])
                                    /\ commitIndex[n] <= commitIndex[n]
    BY LogTyped DEF LogInv, CommitCovered
  <2>. QED  BY <1>1, <2>1 DEF CommittedKept
<1>. QED  BY <1>3, <1>4, <1>5 DEF LogStep, LogInv

(* A node appends an entry of its own term. *)
LEMMA AppendStep ==
  ASSUME TypeOK, LogInv, NEW n \in Node, NEW v \in Value \cup {Noop},
         log' = [log EXCEPT ![n] = Append(@, [index |-> LastIndex(@) + 1,
                                              term  |-> currentTerm[n],
                                              data  |-> v])],
         commitIndex' = commitIndex, currentTerm' = currentTerm,
         appendRequests' = appendRequests
  PROVE  LogStep
<1>. DEFINE e == [index |-> LastIndex(log[n]) + 1, term |-> currentTerm[n],
                  data |-> v]
<1>1. /\ log[n] \in Seq(Entry) /\ currentTerm[n] \in Nat
      /\ WellFormed(log[n], currentTerm[n])
  BY LogTyped DEF LogInv, LogShape
<1>2. e \in Entry /\ e.index = LastIndex(log[n]) + 1 /\ e.term = currentTerm[n]
  BY <1>1, AppendTypes
<1>3. log' = [log EXCEPT ![n] = Append(log[n], e)]
  OBVIOUS
<1>. HIDE DEF e
<1>4. /\ WellFormed(Append(log[n], e), currentTerm[n])
      /\ Len(Append(log[n], e)) = Len(log[n]) + 1
      /\ \A i \in 1 .. Len(log[n]) : Append(log[n], e)[i] = log[n][i]
  BY <1>1, <1>2, WellFormedAppend
<1>5. /\ log'[n] = Append(log[n], e)
      /\ \A x \in Node \ {n} : log'[x] = log[x]
  BY <1>3 DEF TypeOK, NodeTypeOK
<1>6. LogShape'
  BY <1>4, <1>5 DEF LogInv, LogShape
<1>7. ASSUME NEW x \in Node
      PROVE  /\ commitIndex[x] <= Len(log'[x])
             /\ \A i \in 1 .. commitIndex[x] : log'[x][i] = log[x][i]
  <2>1. commitIndex[x] \in Nat /\ Len(log[x]) \in Nat
        /\ commitIndex[x] <= Len(log[x])
    BY LogTyped DEF LogInv, CommitCovered
  <2>2. CASE x = n
    BY <1>4, <1>5, <2>1, <2>2
  <2>3. CASE x # n
    BY <1>5, <2>1, <2>3
  <2>. QED  BY <2>2, <2>3
<1>8. CommitCovered' /\ RequestsContinue'
  BY <1>7 DEF LogInv, CommitCovered, RequestsContinue
<1>9. CommittedKept
  BY <1>7, LogTyped DEF CommittedKept
<1>. QED  BY <1>6, <1>8, <1>9 DEF LogStep, LogInv

(* A leader commits what its log holds. *)
LEMMA CommittedBounds ==
  ASSUME TypeOK, LogInv, NEW n \in Node, NEW match
  PROVE  /\ commitIndex[n] <= Committed(n, match)
         /\ Committed(n, match) <= Len(log[n])
<1>. DEFINE q == QuorumMatchIndex(n, match)
<1>1. /\ commitIndex[n] \in Nat /\ Len(log[n]) \in Nat
      /\ commitIndex[n] <= Len(log[n])
  BY LogTyped DEF LogInv, CommitCovered
<1>2. \/ Committed(n, match) = commitIndex[n]
      \/ Committed(n, match) = q /\ q \in 0 .. Len(log[n]) /\ q > commitIndex[n]
  BY DEF Committed, CommitTo, HasEntry
<1>. HIDE DEF q
<1>. QED  BY <1>1, <1>2

LEMMA CommitStep ==
  ASSUME TypeOK, LogInv, NEW n \in Node, NEW c,
         commitIndex[n] <= c, c <= Len(log[n]),
         commitIndex' = [commitIndex EXCEPT ![n] = c],
         log' = log, currentTerm' = currentTerm, appendRequests' = appendRequests
  PROVE  LogStep
<1>1. /\ commitIndex'[n] = c
      /\ \A x \in Node \ {n} : commitIndex'[x] = commitIndex[x]
  BY DEF TypeOK, NodeTypeOK
<1>2. ASSUME NEW x \in Node
      PROVE  /\ commitIndex[x] <= commitIndex'[x] /\ commitIndex'[x] <= Len(log[x])
             /\ commitIndex[x] <= Len(log[x])
  BY <1>1, LogTyped DEF LogInv, CommitCovered
<1>3. LogShape' /\ RequestsContinue'
  BY DEF LogInv, LogShape, RequestsContinue
<1>4. CommitCovered'
  BY <1>2 DEF LogInv, CommitCovered
<1>5. CommittedKept
  BY <1>2 DEF CommittedKept
<1>. QED  BY <1>3, <1>4, <1>5 DEF LogStep, LogInv

(* A leader sends the suffix of its log that starts at nextIndex. *)
LEMMA SendStep ==
  ASSUME TypeOK, TypeOK', LogInv, [Next]_vars, NEW n \in Node, NEW p \in Peers(n),
         NEW s \in CallSlot, ReplicateTo(n, p, s)
  PROVE  LogStep
<1>. DEFINE m == RequestTo(n, p, s)
            i == nextIndex[n][p]
            l == log[n]
<1>1. /\ l \in Seq(Entry) /\ currentTerm[n] \in Nat /\ Len(l) \in Nat
      /\ WellFormed(l, currentTerm[n]) /\ commitIndex[n] <= Len(l)
      /\ commitIndex[n] \in Nat
  BY LogTyped DEF LogInv, LogShape, CommitCovered
<1>2. i \in Nat /\ i - 1 \in 0 .. Len(l)
  BY DEF ReplicateTo, HasEntry, TypeOK, NodeTypeOK
<1>3. LastIndex(l) = Len(l)
  BY <1>1, LastIndexIsLen
<1>4. /\ m.prevIndex = i - 1 /\ m.prevTerm = EntryTerm(l, i - 1)
      /\ m.term = currentTerm[n] /\ m.leaderCommit = commitIndex[n]
      /\ m.entries = IF i <= LastIndex(l) THEN EntriesFrom(l, i) ELSE <<>>
  BY DEF RequestTo
<1>5. UNCHANGED logVars /\ currentTerm' = currentTerm
      /\ appendRequests' = appendRequests \cup {m}
  BY DEF ReplicateTo, nodeVars, voteVars
<1>. HIDE DEF m, i, l
<1>6. i \in 1 .. Len(l) + 1
  BY <1>1, <1>2
<1>7. ASSUME i <= Len(l)
      PROVE  /\ Continues(m.entries, m.prevIndex, m.prevTerm, m.term)
             /\ m.leaderCommit <= m.prevIndex + Len(m.entries)
  <2>1. m.entries = EntriesFrom(l, i)
    BY <1>3, <1>4, <1>7
  <2>2. Continues(m.entries, m.prevIndex, m.prevTerm, m.term)
    BY <1>1, <1>4, <1>6, <2>1, SuffixContinues
  <2>3. Len(m.entries) = Len(l) - i + 1
    BY <1>1, <1>6, <2>1, SuffixTypes
  <2>4. m.leaderCommit <= m.prevIndex + Len(m.entries)
    <3>1. m.prevIndex + Len(m.entries) = Len(l)
      BY <1>1, <1>2, <1>4, <2>3
    <3>. QED  BY <1>1, <1>4, <3>1
  <2>. QED  BY <2>2, <2>4
<1>8. ASSUME i > Len(l)
      PROVE  /\ Continues(m.entries, m.prevIndex, m.prevTerm, m.term)
             /\ m.leaderCommit <= m.prevIndex + Len(m.entries)
  <2>1. m.entries = <<>> /\ Len(m.entries) = 0
    BY <1>2, <1>1, <1>3, <1>4, <1>8
  <2>2. Continues(m.entries, m.prevIndex, m.prevTerm, m.term)
    BY <2>1 DEF Continues, Indexed
  <2>3. m.leaderCommit <= m.prevIndex + Len(m.entries)
    BY <1>1, <1>2, <1>4, <1>8, <2>1
  <2>. QED  BY <2>2, <2>3
<1>9. /\ Continues(m.entries, m.prevIndex, m.prevTerm, m.term)
      /\ m.leaderCommit <= m.prevIndex + Len(m.entries)
  BY <1>1, <1>2, <1>7, <1>8
<1>10. m.prevIndex = 0 => m.prevTerm = 0
  BY <1>2, <1>4 DEF EntryTerm
<1>11. RequestsContinue'
  BY <1>5, <1>9, <1>10 DEF LogInv, RequestsContinue
<1>12. log' = log /\ commitIndex' = commitIndex
  BY <1>5 DEF logVars
<1>13. CommitCovered'
  BY <1>5, <1>9, <1>12 DEF LogInv, CommitCovered
<1>14. LogShape'
  BY <1>5, <1>12 DEF LogInv, LogShape
<1>15. CommittedKept
  BY <1>12, LogTyped DEF CommittedKept, LogInv, CommitCovered
<1>. QED  BY <1>11, <1>13, <1>14, <1>15 DEF LogStep, LogInv

(* A follower accepts a request.  The log it merges into is well formed    *)
(* for the request's term, which becomes the follower's.                   *)
LEMMA AcceptStep ==
  ASSUME TypeOK, TypeOK', LogInv, NEW m \in appendRequests, AcceptEntries(m)
  PROVE  LogStep
<1>. DEFINE n == m.to
            l == log[n]
            r == Merge(l, m.entries)
            c == commitIndex[n]
            d == FollowerCommit(r, c, m.leaderCommit)
<1>1. m \in AppendRequest
  BY DEF TypeOK, ReplicationTypeOK
<1>2. /\ n \in Node /\ m.term \in Nat /\ m.prevIndex \in Nat /\ m.prevTerm \in Nat
      /\ m.entries \in Seq(Entry) /\ m.leaderCommit \in Nat
  BY <1>1 DEF AppendRequest
<1>3. /\ l \in Seq(Entry) /\ c \in Nat /\ currentTerm[n] \in Nat /\ Len(l) \in Nat
      /\ WellFormed(l, currentTerm[n]) /\ c <= Len(l)
  BY <1>2, LogTyped DEF LogInv, LogShape, CommitCovered
<1>4. /\ Continues(m.entries, m.prevIndex, m.prevTerm, m.term)
      /\ m.prevIndex = 0 => m.prevTerm = 0
  BY DEF LogInv, RequestsContinue
<1>5. /\ m.term >= currentTerm[n]
      /\ becomeFollower(n, m.term, m.from)
      /\ PrevMatches(l, m)
      /\ ~TruncationRefused(l, c, m.entries)
      /\ log' = [log EXCEPT ![n] = r]
      /\ commitIndex' = [commitIndex EXCEPT ![n] = d]
      /\ appendRequests' \subseteq appendRequests
  BY DEF AcceptEntries, FollowLeader, Respond
<1>6. /\ currentTerm'[n] = m.term
      /\ \A x \in Node \ {n} : currentTerm'[x] = currentTerm[x]
  BY <1>2, <1>3, <1>5 DEF becomeFollower, voteVars, TypeOK, NodeTypeOK
<1>7. m.prevIndex <= Len(l) /\ EntryTerm(l, m.prevIndex) = m.prevTerm
  BY <1>2, <1>3, <1>4, <1>5 DEF PrevMatches, HasEntry, EntryTerm
<1>8. Conflicts(l, m.entries)
        => MayTruncate(c, m.entries[FirstDiffering(l, m.entries)].index)
  BY <1>5 DEF TruncationRefused
<1>9. Indexed(m.entries, m.prevIndex)
  BY <1>4 DEF Continues
<1>. HIDE DEF n, l, c
<1>10. WellFormed(l, m.term)
  BY <1>2, <1>3, <1>5, WellFormedLater
<1>11. WellFormed(r, m.term)
  BY <1>2, <1>3, <1>4, <1>7, <1>10, MergeWellFormed, EntriesTermed
<1>12. c <= Len(r) /\ \A i \in 1 .. c : r[i] = l[i]
  BY <1>2, <1>3, <1>7, <1>8, <1>9, MergeKeepsCommitted
<1>13. r \in Seq(Entry)
  BY <1>2, <1>3, MergeType
<1>. HIDE DEF r
<1>14. c <= d /\ d <= Len(r)
  <2>1. LastIndex(r) = Len(r) /\ Len(r) \in Nat
    BY <1>11, <1>13, LastIndexIsLen
  <2>. QED  BY <1>2, <1>3, <1>12, <2>1 DEF FollowerCommit, CommitTo
<1>. HIDE DEF d
<1>15. /\ log'[n] = r /\ commitIndex'[n] = d
       /\ \A x \in Node \ {n} : log'[x] = log[x] /\ commitIndex'[x] = commitIndex[x]
  BY <1>2, <1>5 DEF TypeOK, NodeTypeOK
<1>16. LogShape'
  BY <1>6, <1>11, <1>15 DEF LogInv, LogShape
<1>17. \A x \in Node : commitIndex'[x] <= Len(log'[x])
  BY <1>14, <1>15 DEF LogInv, CommitCovered
<1>18. CommitCovered' /\ RequestsContinue'
  BY <1>5, <1>17 DEF LogInv, CommitCovered, RequestsContinue
<1>19. ASSUME NEW x \in Node
       PROVE  /\ commitIndex[x] <= commitIndex'[x]
              /\ commitIndex[x] <= Len(log'[x])
              /\ \A i \in 1 .. commitIndex[x] : log'[x][i] = log[x][i]
  <2>1. CASE x = n
    BY <1>12, <1>14, <1>15, <2>1 DEF c, l
  <2>2. CASE x # n
    <3>1. /\ commitIndex[x] \in Nat /\ commitIndex[x] <= Len(log[x])
      BY LogTyped DEF LogInv, CommitCovered
    <3>. QED  BY <1>15, <2>2, <3>1
  <2>. QED  BY <2>1, <2>2
<1>20. CommittedKept
  BY <1>19 DEF CommittedKept
<1>. QED  BY <1>16, <1>18, <1>20 DEF LogStep, LogInv

-----------------------------------------------------------------------------
LEMMA ElectionLogStep ==
  ASSUME TypeOK, TypeOK', LogInv, [Next]_vars, ElectionNext, UNCHANGED appendVars
  PROVE  LogStep
<1>0. appendRequests' = appendRequests
  BY DEF appendVars
<1>1. CASE UNCHANGED logVars
  BY <1>0, <1>1, FrameStep
<1>2. ASSUME NEW n \in Node, NEW k \in Slot, TakeLeadership(n, k)
      PROVE  LogStep
  <2>1. Noop \in Value \cup {Noop}
    OBVIOUS
  <2>. QED  BY <1>0, <1>2, <2>1, AppendStep DEF TakeLeadership, becomeLeader, voteVars
<1>3. ASSUME NEW n \in Node, NEW k \in Slot, CampaignStep(n, k),
             ~TakeLeadership(n, k)
      PROVE  UNCHANGED logVars
  BY <1>3 DEF CampaignStep, CampaignBailsOut, StartPreVote, StartElection,
              TallyAbort, TallyStepDown, TallyCount, Escalate, GiveUp, nodeVars
<1>4. ASSUME NEW n \in Node, NEW k \in Slot,
             \/ ElectionTimeout(n, k)
             \/ \E p \in Peers(n) : VoteCallFails(n, k, p) \/ HandlePreVote(n, k, p)
      PROVE  UNCHANGED logVars
  BY <1>4 DEF ElectionTimeout, VoteCallFails, HandlePreVote, nodeVars
<1>5. ASSUME NEW m \in voteRequests, HandleRequestVote(m)
      PROVE  UNCHANGED logVars
  BY <1>5 DEF HandleRequestVote
<1>. QED  BY <1>1, <1>2, <1>3, <1>4, <1>5 DEF ElectionNext

LEMMA ReplicationLogStep ==
  ASSUME TypeOK, TypeOK', LogInv, [Next]_vars, ReplicationNext
  PROVE  LogStep
<1>1. ASSUME NEW n \in Node, NEW v \in Value, Propose(n, v) PROVE LogStep
  <2>1. v \in Value \cup {Noop}
    OBVIOUS
  <2>. QED  BY <1>1, <2>1, AppendStep DEF Propose, voteVars, appendVars
<1>2. ASSUME NEW n \in Node, HeartbeatTick(n) PROVE LogStep
  <2>. DEFINE c == Committed(n, matchIndex[n])
  <2>1. commitIndex[n] <= c /\ c <= Len(log[n])
    BY CommittedBounds
  <2>2. /\ commitIndex' = [commitIndex EXCEPT ![n] = c] /\ log' = log
        /\ currentTerm' = currentTerm /\ appendRequests' = appendRequests
    BY <1>2 DEF HeartbeatTick, voteVars, appendVars
  <2>. HIDE DEF c
  <2>. QED  BY <2>1, <2>2, CommitStep
<1>3. ASSUME NEW n \in Node, NEW p \in Peers(n), NEW s \in CallSlot,
             ReplicateTo(n, p, s)
      PROVE  LogStep
  BY <1>3, SendStep
<1>4. ASSUME NEW m \in appendRequests, HandleAppendEntries(m) PROVE LogStep
  <2>1. CASE AcceptEntries(m)
    BY <2>1, AcceptStep
  <2>2. CASE \/ RejectStaleLeader(m) \/ RejectMissing(m)
             \/ RejectMismatch(m) \/ RefuseTruncation(m)
    <3>1. UNCHANGED logVars /\ appendRequests' \subseteq appendRequests
      BY <2>2 DEF RejectStaleLeader, RejectMissing, RejectMismatch,
                  RefuseTruncation, Respond, nodeVars
    <3>. QED  BY <3>1, FrameStep
  <2>. QED  BY <1>4, <2>1, <2>2 DEF HandleAppendEntries
<1>5. ASSUME NEW r \in appendResponses, HandleAppendResponse(r) PROVE LogStep
  <2>0. r.from \in Node /\ appendRequests' = appendRequests
    BY <1>5 DEF HandleAppendResponse, TypeOK, ReplicationTypeOK, AppendResponse
  <2>1. CASE AdvancePeer(r)
    <3>1. PICK match : commitIndex' = [commitIndex EXCEPT
                                         ![r.from] = Committed(r.from, match)]
      BY <2>1 DEF AdvancePeer
    <3>2. log' = log /\ currentTerm' = currentTerm
      BY <2>1 DEF AdvancePeer, voteVars
    <3>. DEFINE c == Committed(r.from, match)
    <3>3. commitIndex[r.from] <= c /\ c <= Len(log[r.from])
      BY <2>0, CommittedBounds
    <3>4. commitIndex' = [commitIndex EXCEPT ![r.from] = c]
      BY <3>1
    <3>. HIDE DEF c
    <3>. QED  BY <2>0, <3>2, <3>3, <3>4, CommitStep
  <2>2. CASE DiscardResponse(r) \/ StepDownOnResponse(r) \/ BackUpPeer(r)
    <3>1. UNCHANGED logVars
      BY <2>2 DEF DiscardResponse, StepDownOnResponse, BackUpPeer, nodeVars
    <3>. QED  BY <2>0, <3>1, FrameStep
  <2>. QED  BY <1>5, <2>1, <2>2 DEF HandleAppendResponse
<1>6. ASSUME LoseAppend PROVE LogStep
  <2>1. UNCHANGED logVars /\ appendRequests' \subseteq appendRequests
    BY <1>6 DEF LoseAppend, nodeVars
  <2>. QED  BY <2>1, FrameStep
<1>. QED  BY <1>1, <1>2, <1>3, <1>4, <1>5, <1>6 DEF ReplicationNext

LEMMA LogInvInitially == Init => LogInv
BY DEF Init, NodeInit, ReplicationInit, LogInv, LogShape, WellFormed,
       CommitCovered, RequestsContinue

LEMMA LogInvStep == TypeOK /\ TypeOK' /\ LogInv /\ [Next]_vars => LogStep
<1>. SUFFICES ASSUME TypeOK, TypeOK', LogInv, [Next]_vars PROVE LogStep
  OBVIOUS
<1>1. CASE UNCHANGED vars
  <2>1. UNCHANGED logVars /\ appendRequests' \subseteq appendRequests
    BY <1>1 DEF vars, nodeVars, appendVars
  <2>. QED  BY <2>1, FrameStep
<1>2. CASE Next
  BY <1>2, ElectionLogStep, ReplicationLogStep DEF Next
<1>. QED  BY <1>1, <1>2

(* The inductive invariant of the logs and of the requests in flight. *)
THEOREM LogInvariant == Spec => []LogInv
<1>1. LogStep => LogInv'
  BY DEF LogStep
<1>. QED  BY <1>1, LogInvInitially, LogInvStep, TypeCorrect, PTL DEF Spec

(* However requests of several leaders are delayed and reordered, every    *)
(* log keeps its shape: positions are indexes and terms never decrease.    *)
THEOREM LogsWellFormed == Spec => []LogShape
BY LogInvariant, PTL DEF LogInv

(* A commit index is always covered by the log that justifies it, at every *)
(* node and in every request: the min(LeaderCommit, last index) of         *)
(* handleAppendEntries never commits an entry no leader vouched for.       *)
THEOREM CommitsCovered == Spec => []CommitCovered
BY LogInvariant, PTL DEF LogInv

(* No step of any node moves a commit index back or changes an entry at or *)
(* below it, although handleAppendEntries truncates and overwrites.        *)
THEOREM CommittedEntriesStay == Spec => CommittedPrefixStable
<1>1. TypeOK /\ TypeOK' /\ LogInv /\ [Next]_vars =>
        [\A n \in Node :
           /\ commitIndex[n] <= commitIndex'[n]
           /\ commitIndex[n] <= Len(log'[n])
           /\ \A i \in 1 .. commitIndex[n] : log'[n][i] = log[n][i]]_vars
  BY LogInvStep DEF LogStep, CommittedKept
<1>. QED  BY <1>1, TypeCorrect, LogInvariant, PTL DEF Spec, CommittedPrefixStable

-----------------------------------------------------------------------------
(* Crashes and restarts.  A step of RestartSpec is a step of the core, for *)
(* which the lemmas above stand, or a restart, which is shown here to keep *)
(* the same invariants although it forgets roles, campaigns, peers and the *)
(* commit index.                                                           *)

(* A step is one of the core, or a restart of some node. *)
LEMMA StepCases ==
  ASSUME [RestartNext]_restartVars
  PROVE  \/ [Next]_vars /\ UNCHANGED restarts
         \/ \E n \in Node : Restart(n)
BY RestartAssumption DEF RestartNext, restartVars

-----------------------------------------------------------------------------
(* Types. *)

LEMMA RestartTypes ==
  ASSUME TypeOK, NEW n \in Node, Restart(n)
  PROVE  TypeOK'
<1>1. NodeTypeOK'
  <2>1. /\ currentTerm' = currentTerm /\ votedFor' = votedFor /\ log' = log
    BY DEF Restart, voteVars
  <2>2. /\ state' \in [Node -> States] /\ leaderID' \in [Node -> Node \cup {NoNode}]
        /\ commitIndex' \in [Node -> Nat] /\ timer' \in [Node -> BOOLEAN]
    BY DEF Restart, TypeOK, NodeTypeOK, States
  <2>3. /\ DOMAIN nextIndex' = Node /\ DOMAIN matchIndex' = Node
        /\ \A x \in Node : /\ nextIndex'[x]  \in [Peers(x) -> Nat]
                           /\ matchIndex'[x] \in [Peers(x) -> Nat]
    BY DEF Restart, TypeOK, NodeTypeOK
  <2>. QED  BY <2>1, <2>2, <2>3 DEF TypeOK, NodeTypeOK
<1>2. ElectionTypeOK'
  <2>1. campaigns' = [campaigns EXCEPT ![n] = [k \in Slot |-> NoCampaign]]
    BY DEF Restart
  <2>2. NoCampaign \in Campaign /\ NoCampaign.awaiting = {}
    BY CampaignTypes DEF NoCampaign
  <2>3. campaigns' \in [Node -> [Slot -> Campaign]]
    BY <2>1, <2>2 DEF TypeOK, ElectionTypeOK
  <2>4. \A x \in Node, k \in Slot : campaigns'[x][k].awaiting \subseteq Peers(x)
    BY <2>1, <2>2 DEF TypeOK, ElectionTypeOK
  <2>5. voteRequests' = voteRequests
    BY DEF Restart
  <2>. QED  BY <2>3, <2>4, <2>5 DEF TypeOK, ElectionTypeOK
<1>3. ReplicationTypeOK'
  BY DEF Restart, TypeOK, ReplicationTypeOK
<1>. QED  BY <1>1, <1>2, <1>3 DEF TypeOK

LEMMA RestartTypesKept == TypeOK /\ [RestartNext]_restartVars => TypeOK'
BY StepCases, TypesKept, RestartTypes

(* Every reachable state of a cluster whose nodes crash and come back is   *)
(* well typed.                                                             *)
THEOREM RestartTypeCorrect == RestartSpec => []TypeOK
<1>1. RestartInit => TypeOK
  BY TypesInitially DEF RestartInit
<1>. QED  BY <1>1, RestartTypesKept, PTL DEF RestartSpec

-----------------------------------------------------------------------------
(* Roles, terms and votes. *)

LEMMA RestartAwake ==
  ASSUME TypeOK, NoStall, NEW n \in Node, Restart(n)
  PROVE  NoStall'
<1>. SUFFICES ASSUME NEW x \in Node PROVE Awake(x)'
  BY DEF NoStall, Awake
<1>1. CASE x = n
  BY <1>1 DEF Restart, TypeOK, NodeTypeOK, Awake
<1>2. CASE x # n
  <2>1. /\ state'[x] = state[x] /\ timer'[x] = timer[x]
        /\ campaigns'[x] = campaigns[x]
    BY <1>2 DEF Restart, TypeOK, NodeTypeOK, ElectionTypeOK
  <2>2. Awake(x)
    BY DEF NoStall, Awake
  <2>. QED  BY <2>1, <2>2, SameAwake
<1>. QED  BY <1>1, <1>2

(* A node that crashes in any role comes back with a running election      *)
(* timer, and no restart takes the timer or the campaign of another node:  *)
(* nobody falls asleep.                                                    *)
THEOREM RestartNobodySleeps == RestartSpec => []NoStall
<1>1. RestartInit => NoStall
  BY DEF RestartInit, Init, NodeInit, NoStall
<1>2. TypeOK /\ NoStall /\ [RestartNext]_restartVars => NoStall'
  BY StepCases, NoStallKept, RestartAwake
<1>. QED  BY <1>1, <1>2, RestartTypeCorrect, PTL DEF RestartSpec

(* Term and vote implement the register across crashes as well: the        *)
(* restart reads both back, so that a node does not vote a second time in  *)
(* the term it is in.                                                      *)
THEOREM RestartVoteRegister == RestartSpec => VoteRegisterSpec
<1>1. RestartInit => Register!RegisterInit
  BY DEF RestartInit, Init, NodeInit, Register!RegisterInit
<1>2. TypeOK /\ [RestartNext]_restartVars
        => [Register!RegisterNext]_<<currentTerm, votedFor>>
  <2>1. \A n \in Node : Restart(n) => UNCHANGED <<currentTerm, votedFor>>
    BY DEF Restart, voteVars
  <2>. QED  BY <2>1, StepCases, RegisterStep
<1>. QED
  BY <1>1, <1>2, RestartTypeCorrect, PTL
     DEF RestartSpec, VoteRegisterSpec, Register!RegisterSpec

-----------------------------------------------------------------------------
(* Logs. *)

LEMMA RestartLogInv ==
  ASSUME TypeOK, LogInv, NEW n \in Node, Restart(n)
  PROVE  LogInv'
<1>1. /\ log' = log /\ currentTerm' = currentTerm /\ appendRequests' = appendRequests
  BY DEF Restart, voteVars
<1>2. LogShape' /\ RequestsContinue'
  BY <1>1 DEF LogInv, LogShape, RequestsContinue
<1>3. \A x \in Node : commitIndex'[x] = 0 \/ commitIndex'[x] = commitIndex[x]
  BY DEF Restart, TypeOK, NodeTypeOK
<1>4. \A x \in Node : Len(log[x]) \in Nat
  BY LogTyped
<1>5. CommitCovered'
  BY <1>1, <1>3, <1>4 DEF LogInv, CommitCovered
<1>. QED  BY <1>2, <1>5 DEF LogInv

LEMMA RestartLogInvKept ==
  TypeOK /\ TypeOK' /\ LogInv /\ [RestartNext]_restartVars => LogInv'
BY StepCases, LogInvStep, RestartLogInv DEF LogStep

(* The inductive invariant of logs and requests holds with restarts too.   *)
THEOREM RestartLogInvariant == RestartSpec => []LogInv
<1>1. RestartInit => LogInv
  BY LogInvInitially DEF RestartInit
<1>. QED  BY <1>1, RestartLogInvKept, RestartTypeCorrect, PTL DEF RestartSpec

(* Logs keep their shape whoever crashes: requests of a leader that has    *)
(* restarted meanwhile still continue a well-formed log.                   *)
THEOREM RestartLogsWellFormed == RestartSpec => []LogShape
BY RestartLogInvariant, PTL DEF LogInv

(* No commit index runs past the log that justifies it, although restarted *)
(* nodes come back with commit index 0 and learn it again from requests.   *)
THEOREM RestartCommitsCovered == RestartSpec => []CommitCovered
BY RestartLogInvariant, PTL DEF LogInv

(* A node keeps every entry it has committed, in a crash as in any other   *)
(* step, and only a crash moves a commit index back.                       *)
THEOREM CommittedSurvivesCrash == RestartSpec => CommittedPrefixKept
<1>. DEFINE Kept ==
       \A n \in Node :
         /\ commitIndex[n] <= Len(log'[n])
         /\ \A i \in 1 .. commitIndex[n] : log'[n][i] = log[n][i]
         /\ commitIndex'[n] < commitIndex[n] => restarts' > restarts
<1>1. TypeOK /\ TypeOK' /\ LogInv /\ restarts \in Nat /\ [RestartNext]_restartVars
        => [Kept]_restartVars
  <2>1. ASSUME TypeOK, TypeOK', LogInv, [Next]_vars PROVE Kept
    <3>1. CommittedKept
      BY <2>1, LogInvStep DEF LogStep
    <3>2. \A n \in Node : commitIndex[n] \in Nat /\ commitIndex'[n] \in Nat
      BY <2>1 DEF TypeOK, NodeTypeOK
    <3>. QED  BY <3>1, <3>2 DEF CommittedKept
  <2>2. ASSUME LogInv, restarts \in Nat, NEW n \in Node, Restart(n) PROVE Kept
    BY <2>2 DEF Restart, LogInv, CommitCovered
  <2>. QED  BY <2>1, <2>2, StepCases
<1>2. RestartInit => restarts \in Nat
  BY DEF RestartInit
<1>3. restarts \in Nat /\ [RestartNext]_restartVars => (restarts \in Nat)'
  BY StepCases DEF Restart
<1>. QED
  BY <1>1, <1>2, <1>3, RestartTypeCorrect, RestartLogInvariant, PTL
     DEF RestartSpec, CommittedPrefixKept

-----------------------------------------------------------------------------
(***************************************************************************)
(* Log matching.  As long as a term has one leader, all entries of the     *)
(* term come from one log that only grows, the log of that leader.  The    *)
(* invariant says that there is such a log C[t] for every term t: whatever *)
(* holds an entry of term t, a log or a request, agrees with C[t] up to    *)
(* that entry.                                                             *)
(***************************************************************************)

(* Terms that have one leader, as have all terms before them. *)
Sound == {t \in Nat : OneLeaderUpTo(t)}

(* Terms that have a leader. *)
LedTerms == {x[1] : x \in led}

(* Log l is, up to each of its entries, the log of that entry's leader. *)
OfLeaders(l, C, S) ==
  \A i \in 1 .. Len(l) : l[i].term \in S =>
    /\ i <= Len(C[l[i].term])
    /\ \A j \in 1 .. i : l[j] = C[l[i].term][j]

(* So are the entries es of a request: they follow an entry of term pt at *)
(* prev there.                                                            *)
PieceOfLeaders(es, prev, pt, C, S) ==
  \A k \in 1 .. Len(es) : es[k].term \in S =>
    /\ prev + k <= Len(C[es[k].term])
    /\ EntryTerm(C[es[k].term], prev) = pt
    /\ \A j \in 1 .. k : es[j] = C[es[k].term][prev + j]

RequestOfLeaders(m, C, S) == PieceOfLeaders(m.entries, m.prevIndex, m.prevTerm, C, S)

TermsIn(l, T) == \A i \in 1 .. Len(l) : l[i].term \in T

LedInv ==
  /\ led \subseteq Nat \X Node
  /\ \A t \in Nat, n \in Node : <<t, n>> \in led => t <= currentTerm[n]
  /\ \A n \in Node : state[n] = "Leader" => <<currentTerm[n], n>> \in led
  /\ \A n \in Node : TermsIn(log[n], LedTerms)
  /\ \A m \in appendRequests : <<m.term, m.from>> \in led /\ TermsIn(m.entries, LedTerms)

LeaderLogs(C) ==
  /\ \A n \in Node : OfLeaders(log[n], C, Sound)
  /\ \A m \in appendRequests : RequestOfLeaders(m, C, Sound)
  /\ \A t \in Sound : /\ OfLeaders(C[t], C, Sound)
                      /\ TermsIn(C[t], LedTerms \cap (0 .. t))
  /\ \A n \in Node : <<currentTerm[n], n>> \in led /\ currentTerm[n] \in Sound
                       => log[n] = C[currentTerm[n]]

MatchInv == LedInv /\ \E C \in [Nat -> Seq(Entry)] : LeaderLogs(C)

LEMMA SoundDownward ==
  ASSUME NEW t \in Sound, NEW u \in Nat, u <= t, led \subseteq Nat \X Node
  PROVE  u \in Sound
BY DEF Sound, OneLeaderUpTo

LEMMA MatchInitially == HistoryInit => MatchInv
<1>. SUFFICES ASSUME HistoryInit PROVE MatchInv
  OBVIOUS
<1>1. /\ led = {} /\ appendRequests = {} /\ state = [n \in Node |-> "Follower"]
      /\ \A n \in Node : log[n] = <<>>
  BY DEF HistoryInit, RestartInit, Init, NodeInit, ReplicationInit
<1>2. LedInv
  BY <1>1 DEF LedInv, TermsIn
<1>. DEFINE C == [t \in Nat |-> <<>>]
<1>3. C \in [Nat -> Seq(Entry)] /\ \A t \in Nat : C[t] = <<>>
  OBVIOUS
<1>. HIDE DEF C
<1>4. LeaderLogs(C)
  BY <1>1, <1>3 DEF LeaderLogs, OfLeaders, TermsIn, Sound
<1>. QED  BY <1>2, <1>3, <1>4 DEF MatchInv

(* Nobody new leads. *)
LEMMA LedStays ==
  ASSUME LedInv, TypeOK, HistoryNext,
         \A n \in Node : state'[n] = "Leader" =>
                           state[n] = "Leader" /\ currentTerm'[n] = currentTerm[n]
  PROVE  led' = led
<1>1. led' = led \cup {<<currentTerm'[n], n>> : n \in {x \in Node : state'[x] = "Leader"}}
  BY DEF HistoryNext
<1>2. \A n \in {x \in Node : state'[x] = "Leader"} : <<currentTerm'[n], n>> \in led
  BY DEF LedInv
<1>. QED  BY <1>1, <1>2

(* Logs stay and requests disappear. *)
LEMMA MatchFrame ==
  ASSUME TypeOK, TypeOK', MatchInv, led' = led, log' = log,
         appendRequests' \subseteq appendRequests,
         \A n \in Node : currentTerm[n] <= currentTerm'[n],
         \A n \in Node : state'[n] = "Leader" =>
                           state[n] = "Leader" /\ currentTerm'[n] = currentTerm[n]
  PROVE  MatchInv'
<1>1. Sound' = Sound /\ LedTerms' = LedTerms
  BY DEF Sound, OneLeaderUpTo, LedTerms
<1>2. \A n \in Node : currentTerm[n] \in Nat /\ currentTerm'[n] \in Nat
  BY DEF TypeOK, NodeTypeOK
<1>4. LedInv'
  <2>0. \A t \in Nat, n \in Node : <<t, n>> \in led => t <= currentTerm[n]
    BY DEF MatchInv, LedInv
  <2>1. \A t \in Nat, n \in Node : <<t, n>> \in led => t <= currentTerm'[n]
    BY <1>2, <2>0
  <2>. QED  BY <1>1, <2>1 DEF MatchInv, LedInv
<1>5. PICK C \in [Nat -> Seq(Entry)] : LeaderLogs(C)
  BY DEF MatchInv
<1>6. ASSUME NEW n \in Node, <<currentTerm'[n], n>> \in led
      PROVE  currentTerm'[n] = currentTerm[n]
  <2>1. currentTerm'[n] <= currentTerm[n]
    BY <1>2, <1>6 DEF MatchInv, LedInv
  <2>. QED  BY <1>2, <2>1
<1>7. LeaderLogs(C)'
  BY <1>1, <1>5, <1>6 DEF LeaderLogs
<1>. QED  BY <1>4, <1>5, <1>7 DEF MatchInv

-----------------------------------------------------------------------------
(* A leader appends: the log of its term grows by an entry, or begins.     *)

(* c takes the place of C[t] and what q knows of C[t] stays. *)
LEMMA NewLeaderLog ==
  ASSUME NEW C \in [Nat -> Seq(Entry)], NEW S \in SUBSET Nat, NEW q, NEW t \in Nat,
         NEW c \in Seq(Entry), OfLeaders(q, C, S),
         t \in S => \/ /\ Len(C[t]) <= Len(c)
                       /\ \A j \in 1 .. Len(C[t]) : c[j] = C[t][j]
                    \/ \A i \in 1 .. Len(q) : q[i].term # t
  PROVE  OfLeaders(q, [C EXCEPT ![t] = c], S)
<1>. DEFINE D == [C EXCEPT ![t] = c]
<1>1. D[t] = c /\ \A u \in Nat \ {t} : D[u] = C[u]
  OBVIOUS
<1>. HIDE DEF D
<1>2. ASSUME NEW i \in 1 .. Len(q), q[i].term \in S
      PROVE  i <= Len(D[q[i].term]) /\ \A j \in 1 .. i : q[j] = D[q[i].term][j]
  <2>1. i <= Len(C[q[i].term]) /\ \A j \in 1 .. i : q[j] = C[q[i].term][j]
    BY <1>2 DEF OfLeaders
  <2>2. CASE q[i].term # t
    BY <1>1, <1>2, <2>1, <2>2
  <2>3. CASE q[i].term = t
    <3>1. /\ Len(C[t]) <= Len(c)
          /\ \A j \in 1 .. Len(C[t]) : c[j] = C[t][j]
      <4>1. t \in S /\ ~(\A h \in 1 .. Len(q) : q[h].term # t)
        BY <1>2, <2>3
      <4>. QED  BY <4>1
    <3>2. Len(C[t]) \in Nat /\ Len(c) \in Nat /\ i <= Len(C[t]) /\ i \in Int
      <4>1. C[t] \in Seq(Entry)
        OBVIOUS
      <4>2. Len(C[t]) \in Nat /\ Len(c) \in Nat
        BY <4>1, LenProperties, Zenon
      <4>. QED  BY <2>1, <2>3, <4>2
    <3>3. i <= Len(c) /\ \A j \in 1 .. i : j \in 1 .. Len(C[t])
      <4>. DEFINE x == Len(C[t])
                  y == Len(c)
      <4>1. x \in Nat /\ y \in Nat /\ i <= x /\ i \in Int /\ x <= y
        BY <3>1, <3>2
      <4>. HIDE DEF x, y
      <4>2. i <= y /\ \A j \in 1 .. i : j \in 1 .. x
        BY <4>1
      <4>. QED  BY <4>2 DEF x, y
    <3>. QED  BY <1>1, <2>1, <2>3, <3>1, <3>3
  <2>. QED  BY <2>2, <2>3
<1>. QED  BY <1>2 DEF OfLeaders, D

LEMMA NewLeaderLogPiece ==
  ASSUME NEW C \in [Nat -> Seq(Entry)], NEW S \in SUBSET Nat, NEW es \in Seq(Entry),
         NEW p \in Nat, NEW pt, NEW t \in Nat, NEW c \in Seq(Entry),
         PieceOfLeaders(es, p, pt, C, S),
         t \in S => \/ /\ Len(C[t]) <= Len(c)
                       /\ \A j \in 1 .. Len(C[t]) : c[j] = C[t][j]
                    \/ \A i \in 1 .. Len(es) : es[i].term # t
  PROVE  PieceOfLeaders(es, p, pt, [C EXCEPT ![t] = c], S)
<1>. DEFINE D == [C EXCEPT ![t] = c]
<1>1. D[t] = c /\ \A u \in Nat \ {t} : D[u] = C[u]
  OBVIOUS
<1>2. ASSUME NEW k \in 1 .. Len(es), es[k].term \in S
      PROVE  /\ p + k <= Len(D[es[k].term])
             /\ EntryTerm(D[es[k].term], p) = pt
             /\ \A j \in 1 .. k : es[j] = D[es[k].term][p + j]
  <2>1. /\ p + k <= Len(C[es[k].term])
        /\ EntryTerm(C[es[k].term], p) = pt
        /\ \A j \in 1 .. k : es[j] = C[es[k].term][p + j]
    BY <1>2 DEF PieceOfLeaders
  <2>. HIDE DEF D
  <2>2. CASE es[k].term # t
    BY <1>1, <1>2, <2>1, <2>2
  <2>3. CASE es[k].term = t
    <3>1. /\ Len(C[t]) <= Len(c)
          /\ \A j \in 1 .. Len(C[t]) : c[j] = C[t][j]
      <4>1. t \in S /\ ~(\A h \in 1 .. Len(es) : es[h].term # t)
        BY <1>2, <2>3
      <4>. QED  BY <4>1
    <3>2. Len(C[t]) \in Nat /\ Len(c) \in Nat /\ p + k <= Len(C[t]) /\ k \in Int
      <4>1. C[t] \in Seq(Entry)
        OBVIOUS
      <4>2. Len(C[t]) \in Nat /\ Len(c) \in Nat
        BY <4>1, LenProperties, Zenon
      <4>. QED  BY <2>1, <2>3, <4>2
    <3>3. /\ p + k <= Len(c) /\ \A j \in 1 .. k : p + j \in 1 .. Len(C[t])
          /\ p # 0 => p \in 1 .. Len(C[t])
      <4>. DEFINE x == Len(C[t])
                  y == Len(c)
      <4>0. k \in Nat \ {0}
        OBVIOUS
      <4>1. x \in Nat /\ y \in Nat /\ p + k <= x /\ x <= y
        BY <3>1, <3>2
      <4>. HIDE DEF x, y
      <4>2. p + k <= y
        BY <4>0, <4>1
      <4>3. \A j \in 1 .. k : p + j \in 1 .. x
        BY <4>0, <4>1
      <4>4. p # 0 => p \in 1 .. x
        BY <4>0, <4>1
      <4>. QED  BY <4>2, <4>3, <4>4 DEF x, y
    <3>5. EntryTerm(c, p) = EntryTerm(C[t], p)
      BY <3>1, <3>3 DEF EntryTerm
    <3>. QED  BY <1>1, <2>1, <2>3, <3>1, <3>3, <3>5
  <2>. QED  BY <2>2, <2>3
<1>. QED  BY <1>2 DEF PieceOfLeaders, D

LEMMA LeaderAppends ==
  ASSUME TypeOK, LogInv, MatchInv, NEW n \in Node, NEW e \in Entry,
         e.term = currentTerm[n],
         log' = [log EXCEPT ![n] = Append(log[n], e)], currentTerm' = currentTerm,
         appendRequests' = appendRequests, led' = led \cup {<<currentTerm[n], n>>},
         \A x \in Node : state'[x] = "Leader" => state[x] = "Leader" \/ x = n
  PROVE  MatchInv'
<1>. DEFINE t == currentTerm[n]
            l == log[n]
            c == Append(l, e)
<1>1. /\ t \in Nat /\ l \in Seq(Entry) /\ WellFormed(l, t) /\ Len(l) \in Nat
      /\ \A x \in Node : currentTerm[x] \in Nat
  BY LogTyped DEF LogInv, LogShape
<1>2. /\ c \in Seq(Entry) /\ Len(c) = Len(l) + 1 /\ c[Len(l) + 1] = e
      /\ \A i \in 1 .. Len(l) : c[i] = l[i]
  BY <1>1, AppendProperties
<1>3. log'[n] = c /\ \A x \in Node \ {n} : log'[x] = log[x]
  <2>1. log' = [log EXCEPT ![n] = c] /\ DOMAIN log = Node
    BY DEF TypeOK, NodeTypeOK
  <2>. HIDE DEF c
  <2>. QED  BY <2>1
<1>4. /\ led \subseteq Nat \X Node /\ led' \subseteq Nat \X Node /\ <<t, n>> \in led'
      /\ \A x \in led : x \in led'
  <2>1. led \subseteq Nat \X Node
    BY DEF MatchInv, LedInv
  <2>2. led' = led \cup {<<t, n>>} /\ <<t, n>> \in Nat \X Node
    BY <1>1
  <2>. HIDE DEF t
  <2>. QED  BY <2>1, <2>2
<1>5. /\ Sound' \subseteq Sound /\ Sound' \in SUBSET Nat /\ Sound \in SUBSET Nat
  BY <1>4 DEF Sound, OneLeaderUpTo
<1>6. LedTerms \subseteq LedTerms' /\ t \in LedTerms'
  <2>1. LedTerms \subseteq LedTerms'
    BY <1>4 DEF LedTerms
  <2>2. <<t, n>>[1] = t
    OBVIOUS
  <2>3. t \in LedTerms'
    BY <1>4, <2>2 DEF LedTerms
  <2>. QED  BY <2>1, <2>3
<1>. HIDE DEF t, c, l
<1>7. TermsIn(l, LedTerms) /\ TermsIn(c, LedTerms')
  <2>1. TermsIn(l, LedTerms)
    BY DEF MatchInv, LedInv, l
  <2>2. e.term = t
    BY DEF t
  <2>3. ASSUME NEW i \in 1 .. Len(c) PROVE c[i].term \in LedTerms'
    <3>1. CASE i \in 1 .. Len(l)
      BY <1>2, <1>6, <2>1, <3>1 DEF TermsIn
    <3>2. CASE i = Len(l) + 1
      BY <1>2, <1>6, <2>2, <3>2
    <3>. QED  BY <1>1, <1>2, <3>1, <3>2
  <2>. QED  BY <2>1, <2>3 DEF TermsIn
<1>8. LedInv'
  <2>1. \A u \in Nat, x \in Node : <<u, x>> \in led' => u <= currentTerm[x]
    <3>1. ASSUME NEW u \in Nat, NEW x \in Node, <<u, x>> \in led' PROVE u <= currentTerm[x]
      <4>1. CASE <<u, x>> \in led
        BY <4>1 DEF MatchInv, LedInv
      <4>2. CASE <<u, x>> = <<t, n>>
        <5>1. u = t /\ x = n
          BY <4>2
        <5>. QED  BY <1>1, <5>1 DEF t
      <4>. QED  BY <3>1, <4>1, <4>2 DEF t
    <3>. QED  BY <3>1
  <2>2. \A x \in Node : state'[x] = "Leader" => <<currentTerm[x], x>> \in led'
    BY <1>4 DEF MatchInv, LedInv, t
  <2>3. ASSUME NEW x \in Node PROVE TermsIn(log'[x], LedTerms')
    <3>1. CASE x = n
      BY <1>3, <1>7, <3>1
    <3>2. CASE x # n
      BY <1>3, <1>6, <3>2 DEF MatchInv, LedInv, TermsIn
    <3>. QED  BY <3>1, <3>2
  <2>4. \A m \in appendRequests : <<m.term, m.from>> \in led' /\ TermsIn(m.entries, LedTerms')
    BY <1>4, <1>6 DEF MatchInv, LedInv, TermsIn
  <2>. QED  BY <1>4, <2>1, <2>2, <2>3, <2>4 DEF LedInv
<1>9. PICK C \in [Nat -> Seq(Entry)] : LeaderLogs(C)
  BY DEF MatchInv
<1>0. PICK D : D = [C EXCEPT ![t] = c]
  OBVIOUS
<1>10. /\ D \in [Nat -> Seq(Entry)] /\ D[t] = c
       /\ \A u \in Nat \ {t} : D[u] = C[u]
  BY <1>0, <1>1, <1>2
<1>11. ASSUME t \in Sound' PROVE l = C[t] \/ t \notin LedTerms
  <2>1. CASE <<t, n>> \in led
    <3>1. t \in Sound
      BY <1>5, <1>11
    <3>. QED  BY <1>9, <2>1, <3>1 DEF LeaderLogs, t, l
  <2>2. CASE <<t, n>> \notin led
    <3>1. SUFFICES ASSUME NEW x \in led, x[1] = t PROVE FALSE
      BY DEF LedTerms
    <3>2. x \in Nat \X Node /\ x \in led'
      BY <1>4
    <3>7. x = <<x[1], x[2]>>
      BY <3>2
    <3>3. OneLeaderUpTo(t)'
      BY <1>11 DEF Sound, t
    <3>4. <<t, n>>[1] = t /\ <<t, n>>[2] = n
      OBVIOUS
    <3>6. t <= t
      BY <1>1
    <3>5. x[2] = n
      BY <1>4, <3>1, <3>2, <3>3, <3>4, <3>6 DEF OneLeaderUpTo, t
    <3>. QED  BY <2>2, <3>1, <3>5, <3>7
  <2>. QED  BY <2>1, <2>2
<1>12. ASSUME t \in Sound', t \in LedTerms
       PROVE  Len(C[t]) <= Len(c) /\ \A j \in 1 .. Len(C[t]) : c[j] = C[t][j]
  <2>1. l = C[t]
    BY <1>11, <1>12
  <2>2. Len(l) <= Len(c) /\ \A j \in 1 .. Len(l) : c[j] = l[j]
    <3>. DEFINE x == Len(l)
                y == Len(c)
    <3>1. x \in Nat /\ y = x + 1
      BY <1>1, <1>2
    <3>2. x <= y
      <4>. HIDE DEF x, y
      <4>. QED  BY <3>1
    <3>. QED  BY <1>2, <3>2
  <2>. QED  BY <2>1, <2>2
<1>13. ASSUME NEW q, OfLeaders(q, C, Sound), TermsIn(q, LedTerms)
       PROVE  OfLeaders(q, D, Sound')
  <2>1. OfLeaders(q, C, Sound')
    BY <1>5, <1>13 DEF OfLeaders
  <2>2. t \in Sound' => \/ /\ Len(C[t]) <= Len(c)
                           /\ \A j \in 1 .. Len(C[t]) : c[j] = C[t][j]
                        \/ \A i \in 1 .. Len(q) : q[i].term # t
    BY <1>12, <1>13 DEF TermsIn
  <2>. QED  BY <1>0, <1>1, <1>2, <1>5, <2>1, <2>2, NewLeaderLog
<1>14. OfLeaders(c, D, Sound')
  <2>1. OfLeaders(l, D, Sound')
    BY <1>7, <1>9, <1>13 DEF LeaderLogs, l
  <2>2. ASSUME NEW i \in 1 .. Len(c), c[i].term \in Sound'
        PROVE  i <= Len(D[c[i].term]) /\ \A j \in 1 .. i : c[j] = D[c[i].term][j]
    <3>1. CASE i \in 1 .. Len(l)
      <4>0. \A j \in 1 .. i : j \in 1 .. Len(l)
        BY <1>1, <3>1
      <4>1. c[i] = l[i] /\ \A j \in 1 .. i : c[j] = l[j]
        BY <1>2, <3>1, <4>0
      <4>2. i <= Len(D[l[i].term]) /\ \A j \in 1 .. i : l[j] = D[l[i].term][j]
        BY <2>1, <2>2, <3>1, <4>1 DEF OfLeaders
      <4>. QED  BY <4>1, <4>2
    <3>2. CASE i = Len(l) + 1
      <4>1. c[i].term = t
        BY <1>2, <3>2 DEF t
      <4>2. i <= Len(c)
        BY <1>1, <1>2, <3>2
      <4>. QED  BY <1>10, <4>1, <4>2
    <3>. QED  BY <1>1, <1>2, <3>1, <3>2
  <2>. QED  BY <2>2 DEF OfLeaders
<1>15. ASSUME NEW x \in Node PROVE OfLeaders(log'[x], D, Sound')
  <2>1. CASE x = n
    BY <1>3, <1>14, <2>1
  <2>2. CASE x # n
    BY <1>3, <1>9, <1>13, <2>2 DEF LeaderLogs, MatchInv, LedInv
  <2>. QED  BY <2>1, <2>2
<1>16. ASSUME NEW m \in appendRequests PROVE RequestOfLeaders(m, D, Sound')
  <2>1. m.entries \in Seq(Entry) /\ m.prevIndex \in Nat
    BY DEF TypeOK, ReplicationTypeOK, AppendRequest
  <2>2. RequestOfLeaders(m, C, Sound')
    BY <1>5, <1>9 DEF LeaderLogs, RequestOfLeaders, PieceOfLeaders
  <2>3. t \in Sound' => \/ /\ Len(C[t]) <= Len(c)
                           /\ \A j \in 1 .. Len(C[t]) : c[j] = C[t][j]
                        \/ \A i \in 1 .. Len(m.entries) : m.entries[i].term # t
    BY <1>12 DEF MatchInv, LedInv, TermsIn
  <2>. QED  BY <1>1, <1>2, <1>5, <2>1, <2>2, <2>3, <1>0, NewLeaderLogPiece
             DEF RequestOfLeaders
<1>17. ASSUME NEW u \in Sound'
       PROVE  OfLeaders(D[u], D, Sound') /\ TermsIn(D[u], LedTerms' \cap (0 .. u))
  <2>1. CASE u = t
    <3>1. ASSUME NEW i \in 1 .. Len(c) PROVE c[i].term \in 0 .. t
      <4>1. CASE i \in 1 .. Len(l)
        <5>1. l[i].term \in Nat /\ l[i].term <= t
          BY <1>1, <4>1, EntryFields DEF WellFormed
        <5>2. l[i].term \in 0 .. t
          <6>. DEFINE x == l[i].term
          <6>1. x \in Nat /\ x <= t
            BY <5>1
          <6>. HIDE DEF x
          <6>2. x \in 0 .. t
            BY <1>1, <6>1
          <6>. QED  BY <6>2 DEF x
        <5>. QED  BY <1>2, <4>1, <5>2
      <4>2. CASE i = Len(l) + 1
        <5>1. t \in 0 .. t
          BY <1>1
        <5>2. c[i].term = t
          BY <1>2, <4>2 DEF t
        <5>. QED  BY <5>1, <5>2
      <4>. QED  BY <1>1, <1>2, <4>1, <4>2
    <3>. QED  BY <1>7, <1>10, <1>14, <2>1, <3>1 DEF TermsIn
  <2>2. CASE u # t
    <3>1. D[u] = C[u] /\ u \in Sound
      BY <1>5, <1>10, <2>2
    <3>2. OfLeaders(C[u], C, Sound) /\ TermsIn(C[u], LedTerms \cap (0 .. u))
      BY <1>9, <3>1 DEF LeaderLogs
    <3>3. TermsIn(C[u], LedTerms) /\ TermsIn(C[u], LedTerms' \cap (0 .. u))
      BY <1>6, <3>2 DEF TermsIn
    <3>. QED  BY <1>13, <3>1, <3>2, <3>3
  <2>. QED  BY <2>1, <2>2
<1>18. ASSUME NEW x \in Node, <<currentTerm[x], x>> \in led', currentTerm[x] \in Sound'
       PROVE  log'[x] = D[currentTerm[x]]
  <2>1. CASE x = n
    BY <1>3, <1>10, <2>1 DEF t
  <2>2. CASE x # n
    <3>. DEFINE u == currentTerm[x]
    <3>0. u <= u
      <4>1. u \in Nat
        BY <1>1
      <4>. HIDE DEF u
      <4>. QED  BY <4>1
    <3>1. <<u, x>>[1] = u /\ <<u, x>>[2] = x /\ <<t, n>>[1] = t /\ <<t, n>>[2] = n
      OBVIOUS
    <3>2. OneLeaderUpTo(u)'
      BY <1>18 DEF Sound
    <3>3. u # t
      BY <1>4, <1>18, <2>2, <3>0, <3>1, <3>2 DEF OneLeaderUpTo
    <3>4. <<u, x>> \in led
      <4>1. <<u, x>> # <<t, n>>
        BY <3>3
      <4>. QED  BY <1>18, <4>1 DEF t
    <3>5. u \in Nat \ {t} /\ u \in Sound
      BY <1>1, <1>5, <1>18, <3>3
    <3>6. log[x] = C[u]
      BY <1>9, <3>4, <3>5 DEF LeaderLogs
    <3>. QED  BY <1>3, <1>10, <2>2, <3>5, <3>6
  <2>. QED  BY <2>1, <2>2
<1>19. LeaderLogs(D)'
  BY <1>15, <1>16, <1>17, <1>18 DEF LeaderLogs
<1>. QED  BY <1>8, <1>10, <1>19 DEF MatchInv

-----------------------------------------------------------------------------
(* A leader sends: a suffix of its log, and the term before it. *)
LEMMA SuffixOfLeaders ==
  ASSUME NEW l \in Seq(Entry), NEW C, NEW S, OfLeaders(l, C, S),
         NEW i \in 1 .. Len(l) + 1, NEW es, Len(es) = Len(l) - i + 1,
         \A k \in 1 .. Len(l) - i + 1 : es[k] = l[i + k - 1]
  PROVE  PieceOfLeaders(es, i - 1, EntryTerm(l, i - 1), C, S)
<1>0. Len(l) \in Nat /\ i \in Nat \ {0}
  OBVIOUS
<1>1. ASSUME NEW k \in 1 .. Len(es), es[k].term \in S
      PROVE  /\ i - 1 + k <= Len(C[es[k].term])
             /\ EntryTerm(C[es[k].term], i - 1) = EntryTerm(l, i - 1)
             /\ \A j \in 1 .. k : es[j] = C[es[k].term][i - 1 + j]
  <2>. DEFINE h == i + k - 1
  <2>1. /\ h \in 1 .. Len(l) /\ h = i - 1 + k /\ k \in 1 .. Len(l) - i + 1
        /\ i - 1 # 0 => i - 1 \in 1 .. h
    BY <1>0
  <2>2. \A j \in 1 .. k : /\ j \in 1 .. Len(l) - i + 1 /\ i + j - 1 = i - 1 + j
                          /\ i - 1 + j \in 1 .. h
    BY <1>0
  <2>3. es[k] = l[h]
    BY <2>1
  <2>. HIDE DEF h
  <2>4. h <= Len(C[l[h].term]) /\ \A j \in 1 .. h : l[j] = C[l[h].term][j]
    BY <1>1, <2>1, <2>3 DEF OfLeaders
  <2>5. EntryTerm(C[l[h].term], i - 1) = EntryTerm(l, i - 1)
    BY <2>1, <2>4 DEF EntryTerm
  <2>6. ASSUME NEW j \in 1 .. k PROVE es[j] = C[l[h].term][i - 1 + j]
    <3>1. es[j] = l[i - 1 + j]
      BY <2>2
    <3>. QED  BY <2>2, <2>4, <3>1
  <2>. QED  BY <2>1, <2>3, <2>4, <2>5, <2>6
<1>. QED  BY <1>1 DEF PieceOfLeaders

LEMMA MatchSend ==
  ASSUME TypeOK, LogInv, MatchInv, led' = led, NEW n \in Node, NEW p \in Peers(n),
         NEW s \in CallSlot, ReplicateTo(n, p, s)
  PROVE  MatchInv'
<1>. DEFINE m == RequestTo(n, p, s)
            i == nextIndex[n][p]
            l == log[n]
<1>1. l \in Seq(Entry) /\ Len(l) \in Nat /\ WellFormed(l, currentTerm[n])
  BY LogTyped DEF LogInv, LogShape
<1>2. i \in Nat /\ i - 1 \in 0 .. Len(l) /\ state[n] = "Leader"
  BY DEF ReplicateTo, HasEntry, TypeOK, NodeTypeOK
<1>3. LastIndex(l) = Len(l)
  BY <1>1, LastIndexIsLen
<1>4. /\ m.prevIndex = i - 1 /\ m.prevTerm = EntryTerm(l, i - 1)
      /\ m.term = currentTerm[n] /\ m.from = n
      /\ m.entries = IF i <= LastIndex(l) THEN EntriesFrom(l, i) ELSE <<>>
  BY DEF RequestTo
<1>5. /\ log' = log /\ currentTerm' = currentTerm /\ state' = state
      /\ appendRequests' = appendRequests \cup {m}
  BY DEF ReplicateTo, nodeVars, voteVars, logVars, roleVars
<1>6. Sound' = Sound /\ LedTerms' = LedTerms
  BY DEF Sound, OneLeaderUpTo, LedTerms
<1>. HIDE DEF m, i, l
<1>7. i \in 1 .. Len(l) + 1
  BY <1>1, <1>2
<1>8. /\ Len(m.entries) = Len(l) - i + 1
      /\ \A k \in 1 .. Len(l) - i + 1 : m.entries[k] = l[i + k - 1]
  <2>1. CASE i <= Len(l)
    BY <1>1, <1>3, <1>4, <1>7, <2>1, Suffix DEF EntriesFrom
  <2>2. CASE i = Len(l) + 1
    <3>1. m.entries = <<>> /\ Len(l) - i + 1 = 0
      BY <1>1, <1>3, <1>4, <2>2
    <3>. QED  BY <3>1
  <2>. QED  BY <1>1, <1>7, <2>1, <2>2
<1>9. PICK C \in [Nat -> Seq(Entry)] : LeaderLogs(C)
  BY DEF MatchInv
<1>10. RequestOfLeaders(m, C, Sound)
  <2>1. OfLeaders(l, C, Sound)
    BY <1>9 DEF LeaderLogs, l
  <2>. QED  BY <1>1, <1>4, <1>7, <1>8, <2>1, SuffixOfLeaders DEF RequestOfLeaders
<1>11. TermsIn(m.entries, LedTerms)
  <2>1. TermsIn(l, LedTerms)
    BY DEF MatchInv, LedInv, l
  <2>2. ASSUME NEW k \in 1 .. Len(m.entries) PROVE m.entries[k].term \in LedTerms
    <3>1. k \in 1 .. Len(l) - i + 1 /\ i + k - 1 \in 1 .. Len(l)
      BY <1>1, <1>7, <1>8
    <3>. QED  BY <1>8, <2>1, <3>1 DEF TermsIn
  <2>. QED  BY <2>2 DEF TermsIn
<1>12. <<m.term, m.from>> \in led
  BY <1>2, <1>4 DEF MatchInv, LedInv
<1>13. LedInv'
  BY <1>5, <1>6, <1>11, <1>12 DEF MatchInv, LedInv
<1>14. LeaderLogs(C)'
  BY <1>5, <1>6, <1>9, <1>10 DEF LeaderLogs
<1>. QED  BY <1>9, <1>13, <1>14 DEF MatchInv

-----------------------------------------------------------------------------
(* A follower accepts.  Its own entries before the first that differs are  *)
(* those of the request's leader: the last of them has the term that the   *)
(* leader's log has there, and so both follow the log of that term.        *)
DownClosed(S) == \A t \in S : \A u \in 0 .. t : u \in S

Consistent(C, S) == \A t \in S : OfLeaders(C[t], C, S) /\ TermsIn(C[t], 0 .. t)

(* Merging leaves a log alone, or is its entries up to the first one that   *)
(* differs and then those of the message.                                  *)
MergeShape(l, es, prev) ==
  \/ Differing(l, es) = {}
  \/ /\ Len(Merge(l, es)) = prev + Len(es)
     /\ prev + FirstDiffering(l, es) - 1 <= Len(l)
     /\ \A i \in 1 .. prev + Len(es) :
          Merge(l, es)[i] = IF i < prev + FirstDiffering(l, es) THEN l[i]
                            ELSE es[i - prev]

LEMMA MergeIs ==
  ASSUME NEW l \in Seq(Entry), NEW es \in Seq(Entry), NEW prev \in Nat,
         prev <= Len(l), Indexed(es, prev)
  PROVE  MergeShape(l, es, prev)
BY MergeResult, SMTT(30) DEF MergeShape

LEMMA MergeOfLeaders ==
  ASSUME NEW l \in Seq(Entry), NEW C \in [Nat -> Seq(Entry)], NEW S \in SUBSET Nat,
         DownClosed(S), Consistent(C, S), OfLeaders(l, C, S), NEW es \in Seq(Entry), NEW prev \in Nat, NEW pt,
         PieceOfLeaders(es, prev, pt, C, S),
         prev <= Len(l), EntryTerm(l, prev) = pt, Indexed(es, prev)
  PROVE  OfLeaders(Merge(l, es), C, S)
<1>1. CASE Differing(l, es) = {}
  BY <1>1 DEF Merge
<1>2. CASE Differing(l, es) # {}
  <2>0. \/ Differing(l, es) = {}
        \/ /\ Len(Merge(l, es)) = prev + Len(es)
           /\ prev + FirstDiffering(l, es) - 1 <= Len(l)
           /\ \A i \in 1 .. prev + Len(es) :
                Merge(l, es)[i] = IF i < prev + FirstDiffering(l, es) THEN l[i]
                                  ELSE es[i - prev]
    <3>1. MergeShape(l, es, prev)
      BY MergeIs
    <3>. QED  BY <3>1 DEF MergeShape
  <2>. DEFINE r == Merge(l, es)
              f == FirstDiffering(l, es)
              x == Len(es)
              y == Len(l)
              b == prev + f - 1
  <2>1. /\ Len(r) = prev + x /\ b <= y
        /\ \A i \in 1 .. prev + x : r[i] = IF i < prev + f THEN l[i] ELSE es[i - prev]
    BY <1>2, <2>0
  <2>2. /\ f \in 1 .. x
        /\ \A j \in 1 .. x : j < f => ~Differs(l, es[j])
    BY <1>2, FirstDifferingIsFirst
  <2>a. x \in Nat /\ y \in Nat /\ prev <= y /\ b = prev + f - 1
    BY LenProperties
  <2>. HIDE DEF r, f, b, x, y
  <2>b. f \in Int /\ f >= 1 /\ f <= x
    BY <2>2, <2>a
  <2>3. b \in 0 .. y /\ f \in Nat \ {0} /\ b < prev + f /\ b <= prev + x
    BY <2>1, <2>a, <2>b
  <2>4. ASSUME NEW j \in 1 .. x, j < f PROVE l[prev + j].term = es[j].term
    <3>1. ~Differs(l, es[j]) /\ es[j].index = prev + j /\ prev + j # 0
      BY <2>a, <2>2, <2>4 DEF Indexed, x
    <3>. QED  BY <3>1 DEF Differs, EntryTerm
  <2>5. ASSUME NEW i \in 1 .. Len(r), r[i].term \in S
        PROVE  i <= Len(C[r[i].term]) /\ \A j \in 1 .. i : r[j] = C[r[i].term][j]
    <3>0. i \in Nat \ {0} /\ i \in 1 .. prev + x /\ b = prev + f - 1
      BY <2>a, <2>1 DEF b
    <3>1. CASE i <= b
      <4>0. i \in 1 .. y
        BY <2>a, <2>3, <3>0, <3>1
      <4>1. \A j \in 1 .. i : j \in 1 .. prev + x /\ j < prev + f
        <5>. TAKE j \in 1 .. i
        <5>1. j \in Int /\ 1 <= j /\ j <= b
          BY <2>3, <2>a, <3>0, <3>1
        <5>2. j < prev + f
          BY <2>a, <2>b, <5>1
        <5>. QED  BY <2>3, <2>a, <2>b, <5>1, <5>2
      <4>2. \A j \in 1 .. i : r[j] = l[j]
        BY <2>1, <4>1
      <4>3. r[i] = l[i]
        BY <3>0, <4>2
      <4>. QED  BY <2>5, <4>0, <4>2, <4>3 DEF OfLeaders, y
    <3>2. CASE i > b
      <4>. DEFINE k == i - prev
                  u == es[k].term
                  c == C[u]
      <4>1. k \in f .. x /\ k \in 1 .. x /\ prev + k = i /\ ~(i < prev + f)
        BY <2>a, <2>2, <2>3, <3>0, <3>2
      <4>2. r[i] = es[k]
        BY <2>1, <3>0, <4>1
      <4>3. u \in S /\ u \in Nat /\ c \in Seq(Entry)
        BY <2>5, <4>2
      <4>. HIDE DEF k
      <4>4. /\ i <= Len(c) /\ EntryTerm(c, prev) = pt
            /\ \A j \in 1 .. k : es[j] = c[prev + j]
        BY <4>1, <4>3 DEF PieceOfLeaders, x
      <4>. HIDE DEF u, c
      <4>5. ASSUME NEW j \in b + 1 .. i PROVE r[j] = c[j]
        <5>0. j \in Int /\ prev + f <= j /\ j <= i /\ i <= prev + x
          BY <2>a, <2>b, <2>3, <3>0
        <5>a. j \in 1 .. prev + x /\ ~(j < prev + f)
          BY <2>a, <2>b, <5>0
        <5>b. prev + (j - prev) = j
          BY <5>0
        <5>c. k \in Int /\ prev + k = i
          BY <2>a, <2>b, <4>1
        <5>d. j - prev \in 1 .. k
          BY <2>a, <2>b, <5>0, <5>c
        <5>1. /\ j \in 1 .. prev + x /\ ~(j < prev + f) /\ j - prev \in 1 .. k
              /\ prev + (j - prev) = j
          BY <5>a, <5>b, <5>d
        <5>2. r[j] = es[j - prev]
          BY <2>1, <5>1
        <5>. QED  BY <4>4, <5>1, <5>2
      <4>6. ASSUME NEW j \in 1 .. b PROVE r[j] = c[j]
        <5>0. b \in 1 .. y /\ b \in 1 .. Len(c) /\ b # 0
          <6>1. Len(c) \in Nat
            BY <4>3, LenProperties DEF c, u
          <6>. QED  BY <2>3, <3>0, <3>2, <4>4, <6>1
        <5>1. l[b].term = c[b].term
          <6>1. CASE f = 1
            <7>1. b = prev
              BY <2>a, <3>0, <6>1
            <7>. QED  BY <2>a, <4>4, <5>0, <7>1 DEF EntryTerm
          <6>2. CASE f # 1
            <7>1. f - 1 \in 1 .. x /\ f - 1 < f /\ prev + (f - 1) = b /\ f - 1 \in 1 .. k
              BY <2>a, <2>2, <2>3, <3>0, <4>1, <6>2
            <7>2. l[b].term = es[f - 1].term
              BY <2>4, <7>1
            <7>3. es[f - 1] = c[b]
              BY <4>4, <7>1
            <7>. QED  BY <7>2, <7>3
          <6>. QED  BY <6>1, <6>2
        <5>2. c[b].term \in S
          <6>1. c[b].term \in 0 .. u
            BY <4>3, <5>0 DEF Consistent, TermsIn, c
          <6>. QED  BY <4>3, <6>1 DEF DownClosed
        <5>3. \A h \in 1 .. b : c[h] = C[c[b].term][h]
          BY <4>3, <5>0, <5>2 DEF Consistent, OfLeaders, c
        <5>4. \A h \in 1 .. b : l[h] = C[l[b].term][h]
          BY <5>0, <5>1, <5>2 DEF OfLeaders, y
        <5>5. r[j] = l[j]
          <6>1. j \in 1 .. prev + x /\ j < prev + f
            BY <2>a, <2>2, <2>3, <3>0, <3>2
          <6>. QED  BY <2>1, <6>1
        <5>. QED  BY <5>1, <5>3, <5>4, <5>5
      <4>7. \A j \in 1 .. i : j \in 1 .. b \/ j \in b + 1 .. i
        BY <2>3, <3>0
      <4>8. r[i].term = u
        BY <4>2 DEF u
      <4>. QED  BY <4>4, <4>5, <4>6, <4>7, <4>8 DEF c
    <3>. QED  BY <2>3, <3>0, <3>1, <3>2
  <2>. QED  BY <2>5 DEF OfLeaders, r
<1>. QED  BY <1>1, <1>2

LEMMA MergeTerms ==
  ASSUME NEW l \in Seq(Entry), NEW es \in Seq(Entry), NEW prev \in Nat, prev <= Len(l),
         Indexed(es, prev), NEW T, TermsIn(l, T), TermsIn(es, T)
  PROVE  TermsIn(Merge(l, es), T)
<1>1. CASE Differing(l, es) = {}
  BY <1>1 DEF Merge
<1>2. CASE Differing(l, es) # {}
  <2>0. \/ Differing(l, es) = {}
        \/ /\ Len(Merge(l, es)) = prev + Len(es)
           /\ prev + FirstDiffering(l, es) - 1 <= Len(l)
           /\ \A i \in 1 .. prev + Len(es) :
                Merge(l, es)[i] = IF i < prev + FirstDiffering(l, es) THEN l[i]
                                  ELSE es[i - prev]
    <3>1. MergeShape(l, es, prev)
      BY MergeIs
    <3>. QED  BY <3>1 DEF MergeShape
  <2>. DEFINE r == Merge(l, es)
              f == FirstDiffering(l, es)
              x == Len(es)
              y == Len(l)
  <2>1. /\ Len(r) = prev + x /\ prev + f - 1 <= y
        /\ \A i \in 1 .. prev + x : r[i] = IF i < prev + f THEN l[i] ELSE es[i - prev]
    BY <1>2, <2>0
  <2>2. f \in 1 .. x
    BY <1>2, FirstDifferingIsFirst
  <2>3. x \in Nat /\ y \in Nat
    BY LenProperties
  <2>. HIDE DEF r, f, x, y
  <2>4. ASSUME NEW i \in 1 .. Len(r) PROVE r[i].term \in T
    <3>0. i \in Int /\ 1 <= i /\ i <= prev + x /\ i \in 1 .. prev + x
      BY <2>1, <2>3
    <3>1. CASE i < prev + f
      <4>1. i \in 1 .. y
        BY <2>1, <2>2, <2>3, <3>0, <3>1
      <4>2. r[i] = l[i]
        BY <2>1, <3>0, <3>1
      <4>. QED  BY <4>1, <4>2 DEF TermsIn, y
    <3>2. CASE ~(i < prev + f)
      <4>1. i - prev \in 1 .. x
        BY <2>2, <2>3, <3>0, <3>2
      <4>2. r[i] = es[i - prev]
        BY <2>1, <3>0, <3>2
      <4>. QED  BY <4>1, <4>2 DEF TermsIn, x
    <3>. QED  BY <3>1, <3>2
  <2>. QED  BY <2>4 DEF TermsIn, r
<1>. QED  BY <1>1, <1>2

LEMMA MatchAccept ==
  ASSUME TypeOK, TypeOK', LogInv, MatchInv, led' = led,
         NEW m \in appendRequests, AcceptEntries(m)
  PROVE  MatchInv'
<1>. DEFINE n == m.to
            l == log[n]
            es == m.entries
            prev == m.prevIndex
            r == Merge(l, es)
<1>1. /\ n \in Node /\ m.from \in Node /\ m.from # n /\ m.term \in Nat
      /\ prev \in Nat /\ es \in Seq(Entry)
  BY DEF TypeOK, ReplicationTypeOK, AppendRequest
<1>2. /\ l \in Seq(Entry) /\ Len(l) \in Nat /\ currentTerm[n] \in Nat
  BY <1>1, LogTyped
<1>3. /\ Continues(es, prev, m.prevTerm, m.term) /\ (prev = 0 => m.prevTerm = 0)
  BY DEF LogInv, RequestsContinue
<1>4. /\ m.term >= currentTerm[n] /\ becomeFollower(n, m.term, m.from)
      /\ PrevMatches(l, m) /\ log' = [log EXCEPT ![n] = r]
      /\ appendRequests' \subseteq appendRequests
  BY DEF AcceptEntries, FollowLeader, Respond
<1>5. /\ currentTerm'[n] = m.term /\ state'[n] = "Follower"
      /\ \A x \in Node \ {n} : currentTerm'[x] = currentTerm[x] /\ state'[x] = state[x]
  BY <1>1, <1>2, <1>4 DEF becomeFollower, voteVars, TypeOK, NodeTypeOK
<1>6. prev <= Len(l) /\ EntryTerm(l, prev) = m.prevTerm
  BY <1>1, <1>2, <1>3, <1>4 DEF PrevMatches, HasEntry, EntryTerm
<1>7. Indexed(es, prev)
  BY <1>3 DEF Continues
<1>8. Sound' = Sound /\ LedTerms' = LedTerms
  BY DEF Sound, OneLeaderUpTo, LedTerms
<1>9. PICK C \in [Nat -> Seq(Entry)] : LeaderLogs(C)
  BY DEF MatchInv
<1>10. log'[n] = r /\ \A x \in Node \ {n} : log'[x] = log[x]
  <2>1. DOMAIN log = Node
    BY DEF TypeOK, NodeTypeOK
  <2>. HIDE DEF r
  <2>. QED  BY <1>1, <1>4, <2>1
<1>11. <<m.term, m.from>> \in led /\ TermsIn(es, LedTerms) /\ TermsIn(l, LedTerms)
  BY <1>1 DEF MatchInv, LedInv
<1>. HIDE DEF n, l, es, prev
<1>12. OfLeaders(r, C, Sound)
  <2>1. DownClosed(Sound) /\ Sound \in SUBSET Nat
    <3>1. led \subseteq Nat \X Node
      BY DEF MatchInv, LedInv
    <3>2. ASSUME NEW t \in Sound, NEW u \in 0 .. t PROVE u \in Sound
      <4>1. t \in Nat
        BY DEF Sound
      <4>2. u \in Nat /\ u <= t
        BY <4>1
      <4>. QED  BY <3>1, <4>2, SoundDownward
    <3>3. Sound \in SUBSET Nat
      BY DEF Sound
    <3>. QED  BY <3>2, <3>3 DEF DownClosed
  <2>2. Consistent(C, Sound)
    BY <1>9 DEF LeaderLogs, Consistent, TermsIn
  <2>3. OfLeaders(l, C, Sound) /\ PieceOfLeaders(es, prev, m.prevTerm, C, Sound)
    BY <1>1, <1>9 DEF LeaderLogs, RequestOfLeaders, es, prev, l
  <2>. QED  BY <1>1, <1>2, <1>6, <1>7, <2>1, <2>2, <2>3, MergeOfLeaders
<1>13. TermsIn(r, LedTerms)
  BY <1>1, <1>2, <1>6, <1>7, <1>11, MergeTerms
<1>. HIDE DEF r
<1>14. LedInv'
  <2>1. \A t \in Nat, x \in Node : <<t, x>> \in led => t <= currentTerm[x]
    BY DEF MatchInv, LedInv
  <2>2. ASSUME NEW t \in Nat, NEW x \in Node, <<t, x>> \in led PROVE t <= currentTerm'[x]
    <3>1. t <= currentTerm[x]
      BY <2>1, <2>2
    <3>2. CASE x = n
      <4>. DEFINE u == m.term
                  v == currentTerm[n]
      <4>1. u \in Nat /\ v \in Nat /\ u >= v /\ t <= v /\ currentTerm'[x] = u
        BY <1>1, <1>2, <1>4, <1>5, <3>1, <3>2
      <4>. HIDE DEF u, v
      <4>2. t <= u
        BY <4>1
      <4>. QED  BY <4>1, <4>2
    <3>3. CASE x # n
      BY <1>5, <3>1, <3>3
    <3>. QED  BY <3>2, <3>3
  <2>3. ASSUME NEW x \in Node, state'[x] = "Leader" PROVE <<currentTerm'[x], x>> \in led
    BY <1>5, <2>3 DEF MatchInv, LedInv
  <2>4. ASSUME NEW x \in Node PROVE TermsIn(log'[x], LedTerms)
    BY <1>10, <1>13 DEF MatchInv, LedInv
  <2>. QED  BY <1>4, <1>8, <2>2, <2>3, <2>4 DEF MatchInv, LedInv
<1>15. ASSUME NEW x \in Node, <<currentTerm'[x], x>> \in led, currentTerm'[x] \in Sound
       PROVE  log'[x] = C[currentTerm'[x]]
  <2>1. CASE x = n
    <3>1. <<m.term, n>> \in led /\ m.term \in Sound
      BY <1>5, <1>15, <2>1
    <3>2. OneLeaderUpTo(m.term)
      BY <3>1 DEF Sound
    <3>5. m.term <= m.term
      BY <1>1
    <3>3. /\ <<m.term, n>>[1] = m.term /\ <<m.term, n>>[2] = n
          /\ <<m.term, m.from>>[1] = m.term /\ <<m.term, m.from>>[2] = m.from
      OBVIOUS
    <3>4. m.from = n
      BY <1>11, <3>1, <3>2, <3>3, <3>5 DEF OneLeaderUpTo
    <3>. QED  BY <1>1, <3>4
  <2>2. CASE x # n
    BY <1>5, <1>9, <1>10, <1>15, <2>2 DEF LeaderLogs
  <2>. QED  BY <2>1, <2>2
<1>16. \A x \in Node : OfLeaders(log'[x], C, Sound)
  BY <1>9, <1>10, <1>12 DEF LeaderLogs
<1>17. LeaderLogs(C)'
  BY <1>4, <1>8, <1>9, <1>15, <1>16 DEF LeaderLogs
<1>. QED  BY <1>9, <1>14, <1>17 DEF MatchInv

-----------------------------------------------------------------------------
(* The steps that make nobody a leader. *)
LeadersStay ==
  \A n \in Node : state'[n] = "Leader" =>
                    state[n] = "Leader" /\ currentTerm'[n] = currentTerm[n]

LEMMA NobodyRises ==
  ASSUME TypeOK, [Next]_vars,
         \A n \in Node, k \in Slot : ~TakeLeadership(n, k)
  PROVE  LeadersStay
<1>1. state \in [Node -> States] /\ currentTerm \in [Node -> Nat]
  BY DEF TypeOK, NodeTypeOK
<1>2. CASE UNCHANGED <<state, currentTerm>>
  BY <1>2 DEF LeadersStay
<1>3. ASSUME NEW n \in Node, NEW t, NEW x, becomeFollower(n, t, x) PROVE LeadersStay
  <2>1. state' = [state EXCEPT ![n] = "Follower"]
        /\ \A y \in Node \ {n} : currentTerm'[y] = currentTerm[y]
    BY <1>1, <1>3 DEF becomeFollower, voteVars
  <2>. QED  BY <1>1, <2>1 DEF LeadersStay
<1>4. ASSUME NEW n \in Node, NEW k \in Slot, CampaignStep(n, k) PROVE LeadersStay
  <2>1. CASE StartPreVote(n, k)
    BY <1>1, <2>1 DEF StartPreVote, voteVars, LeadersStay
  <2>2. CASE StartElection(n, k)
    BY <1>1, <2>2 DEF StartElection, becomeCandidate, LeadersStay
  <2>3. CASE \E r \in campaigns[n][k].voteCh : TallyStepDown(n, k, r)
    BY <1>3, <2>3 DEF TallyStepDown
  <2>4. CASE GiveUp(n, k)
    BY <1>2, <1>3, <2>4 DEF GiveUp, voteVars, roleVars
  <2>5. CASE \/ CampaignBailsOut(n, k) \/ Escalate(n, k)
             \/ \E r \in campaigns[n][k].voteCh : TallyAbort(n, k, r) \/ TallyCount(n, k, r)
    BY <1>2, <2>5 DEF CampaignBailsOut, Escalate, TallyAbort, TallyCount, nodeVars,
                      voteVars, roleVars
  <2>. QED  BY <1>4, <2>1, <2>2, <2>3, <2>4, <2>5 DEF CampaignStep
<1>5. CASE ElectionNext
  <2>1. ASSUME NEW n \in Node, NEW k \in Slot,
               \/ ElectionTimeout(n, k)
               \/ \E p \in Peers(n) : VoteCallFails(n, k, p) \/ HandlePreVote(n, k, p)
        PROVE  LeadersStay
    BY <1>2, <2>1 DEF ElectionTimeout, VoteCallFails, HandlePreVote, nodeVars, voteVars,
                      roleVars
  <2>2. ASSUME NEW m \in voteRequests, HandleRequestVote(m) PROVE LeadersStay
    <3>1. /\ currentTerm' = currentTerm
          /\ state' \in {state, [state EXCEPT ![m.to] = "Follower"]}
      BY <2>2 DEF HandleRequestVote
    <3>2. \A n \in Node : state'[n] = "Leader" => state[n] = "Leader"
      BY <1>1, <3>1
    <3>. QED  BY <3>1, <3>2 DEF LeadersStay
  <2>. QED  BY <1>4, <1>5, <2>1, <2>2 DEF ElectionNext
<1>6. CASE ReplicationNext
  <2>1. ASSUME NEW m \in appendRequests, HandleAppendEntries(m) PROVE LeadersStay
    <3>1. m.to \in Node
      BY DEF TypeOK, ReplicationTypeOK, AppendRequest
    <3>2. CASE RejectStaleLeader(m)
      BY <1>2, <3>2 DEF RejectStaleLeader, nodeVars, voteVars, roleVars
    <3>3. CASE FollowLeader(m)
      BY <1>3, <3>1, <3>3 DEF FollowLeader
    <3>. QED  BY <2>1, <3>2, <3>3 DEF HandleAppendEntries, RejectMissing, RejectMismatch,
                                      RefuseTruncation, AcceptEntries
  <2>2. ASSUME NEW r \in appendResponses, HandleAppendResponse(r) PROVE LeadersStay
    <3>1. r.from \in Node
      BY DEF TypeOK, ReplicationTypeOK, AppendResponse
    <3>2. CASE StepDownOnResponse(r)
      BY <1>3, <3>1, <3>2 DEF StepDownOnResponse
    <3>. QED  BY <1>2, <2>2, <3>2 DEF HandleAppendResponse, DiscardResponse, AdvancePeer,
                                      BackUpPeer, nodeVars, voteVars, roleVars
  <2>3. ASSUME \/ LoseAppend
               \/ \E n \in Node : \/ HeartbeatTick(n)
                                  \/ \E v \in Value : Propose(n, v)
                                  \/ \E p \in Peers(n), s \in CallSlot : ReplicateTo(n, p, s)
        PROVE  LeadersStay
    BY <1>2, <2>3 DEF LoseAppend, HeartbeatTick, Propose, ReplicateTo, nodeVars, voteVars,
                      roleVars
  <2>. QED  BY <1>6, <2>1, <2>2, <2>3 DEF ReplicationNext
<1>. QED  BY <1>2, <1>5, <1>6 DEF Next, vars, nodeVars, voteVars, roleVars

(* Somebody rises: nobody sends or receives an AppendEntries meanwhile. *)
LEMMA RisesAlone ==
  ASSUME TypeOK, [Next]_vars, NEW n \in Node, NEW k \in Slot, TakeLeadership(n, k)
  PROVE  appendRequests' = appendRequests
<1>1. campaigns[n][k].pc = "won" /\ SetCampaign(n, k, NoCampaign)
  BY DEF TakeLeadership
<1>2. campaigns'[n][k] = NoCampaign
  BY <1>1, SetOne DEF TypeOK
<1>3. NoCampaign.pc # "won"
  BY DEF NoCampaign
<1>4. campaigns' # campaigns
  BY <1>1, <1>2, <1>3
<1>. QED  BY <1>4 DEF Next, vars, electionVars, appendVars

LEMMA MatchRise ==
  ASSUME TypeOK, TypeOK', LogInv, MatchInv, HistoryNext, [Next]_vars,
         NEW n \in Node, NEW k \in Slot, TakeLeadership(n, k)
  PROVE  MatchInv'
<1>. DEFINE e == [index |-> LastIndex(log[n]) + 1, term |-> currentTerm[n],
                  data |-> Noop]
<1>1. /\ state' = [state EXCEPT ![n] = "Leader"] /\ currentTerm' = currentTerm
      /\ log' = [log EXCEPT ![n] = Append(log[n], e)]
  BY DEF TakeLeadership, becomeLeader, voteVars
<1>2. log[n] \in Seq(Entry) /\ currentTerm[n] \in Nat
  BY LogTyped
<1>3. e \in Entry /\ e.term = currentTerm[n]
  BY <1>2, AppendTypes
<1>4. state \in [Node -> States]
  BY DEF TypeOK, NodeTypeOK
<1>5. \A x \in Node : state'[x] = "Leader" <=> state[x] = "Leader" \/ x = n
  BY <1>1, <1>4
<1>6. led' = led \cup {<<currentTerm[n], n>>}
  <2>1. led' = led \cup {<<currentTerm[x], x>> : x \in {y \in Node : state'[y] = "Leader"}}
    BY <1>1 DEF HistoryNext
  <2>2. \A x \in Node : state[x] = "Leader" => <<currentTerm[x], x>> \in led
    BY DEF MatchInv, LedInv
  <2>. QED  BY <1>5, <2>1, <2>2
<1>. HIDE DEF e
<1>. QED  BY <1>1, <1>3, <1>5, <1>6, RisesAlone, LeaderAppends

LEMMA MatchPropose ==
  ASSUME TypeOK, LogInv, MatchInv, led' = led, NEW n \in Node, NEW v \in Value,
         Propose(n, v)
  PROVE  MatchInv'
<1>. DEFINE e == [index |-> LastIndex(log[n]) + 1, term |-> currentTerm[n], data |-> v]
<1>1. /\ state' = state /\ currentTerm' = currentTerm /\ appendRequests' = appendRequests
      /\ log' = [log EXCEPT ![n] = Append(log[n], e)] /\ state[n] = "Leader"
  BY DEF Propose, voteVars, roleVars, appendVars
<1>2. log[n] \in Seq(Entry) /\ currentTerm[n] \in Nat
  BY LogTyped
<1>3. e \in Entry /\ e.term = currentTerm[n]
  BY <1>2, AppendTypes
<1>4. led' = led \cup {<<currentTerm[n], n>>}
  BY <1>1 DEF MatchInv, LedInv
<1>. HIDE DEF e
<1>. QED  BY <1>1, <1>3, <1>4, LeaderAppends

(* The steps that leave logs alone and send nothing. *)
LogsStay == log' = log /\ appendRequests' \subseteq appendRequests

LEMMA ElectionLogsStay ==
  ASSUME ElectionNext, UNCHANGED appendVars,
         \A n \in Node, k \in Slot : ~TakeLeadership(n, k)
  PROVE  LogsStay
<1>1. ASSUME NEW n \in Node, NEW k \in Slot, CampaignStep(n, k) PROVE log' = log
  BY <1>1 DEF CampaignStep, CampaignBailsOut, StartPreVote, StartElection,
              TallyAbort, TallyStepDown, TallyCount, Escalate, GiveUp, nodeVars, logVars
<1>2. ASSUME NEW n \in Node, NEW k \in Slot,
             \/ ElectionTimeout(n, k)
             \/ \E p \in Peers(n) : VoteCallFails(n, k, p) \/ HandlePreVote(n, k, p)
      PROVE  log' = log
  BY <1>2 DEF ElectionTimeout, VoteCallFails, HandlePreVote, nodeVars, logVars
<1>3. ASSUME NEW m \in voteRequests, HandleRequestVote(m) PROVE log' = log
  BY <1>3 DEF HandleRequestVote, logVars
<1>4. log' = log
  BY <1>1, <1>2, <1>3 DEF ElectionNext
<1>. QED  BY <1>4 DEF LogsStay, appendVars

LEMMA ReplicationCases ==
  ASSUME ReplicationNext
  PROVE  \/ \E n \in Node, v \in Value : Propose(n, v)
         \/ \E n \in Node : \E p \in Peers(n), s \in CallSlot : ReplicateTo(n, p, s)
         \/ \E m \in appendRequests : AcceptEntries(m)
         \/ LogsStay
<1>1. ASSUME NEW n \in Node, HeartbeatTick(n) PROVE LogsStay
  BY <1>1 DEF HeartbeatTick, appendVars, LogsStay
<1>2. ASSUME NEW m \in appendRequests, HandleAppendEntries(m), ~AcceptEntries(m)
      PROVE  LogsStay
  BY <1>2 DEF HandleAppendEntries, RejectStaleLeader, RejectMissing, RejectMismatch,
              RefuseTruncation, Respond, nodeVars, logVars, LogsStay
<1>3. ASSUME NEW r \in appendResponses, HandleAppendResponse(r) PROVE LogsStay
  BY <1>3 DEF HandleAppendResponse, DiscardResponse, StepDownOnResponse, AdvancePeer,
              BackUpPeer, nodeVars, logVars, LogsStay
<1>4. ASSUME LoseAppend PROVE LogsStay
  BY <1>4 DEF LoseAppend, nodeVars, logVars, LogsStay
<1>. QED  BY <1>1, <1>2, <1>3, <1>4 DEF ReplicationNext

LEMMA MatchKept ==
  TypeOK /\ TypeOK' /\ LogInv /\ MatchInv /\ [HistoryNext]_historyVars => MatchInv'
<1>. SUFFICES ASSUME TypeOK, TypeOK', LogInv, MatchInv, [HistoryNext]_historyVars
              PROVE  MatchInv'
  OBVIOUS
<1>0. \A n \in Node : currentTerm[n] \in Nat
  BY LogTyped
<1>1. CASE UNCHANGED historyVars
  <2>1. /\ led' = led /\ log' = log /\ appendRequests' = appendRequests
        /\ currentTerm' = currentTerm /\ state' = state
    BY <1>1 DEF historyVars, restartVars, vars, nodeVars, voteVars, roleVars, logVars,
                appendVars
  <2>. QED  BY <1>0, <2>1, MatchFrame
<1>2. ASSUME HistoryNext, NEW n \in Node, Restart(n) PROVE MatchInv'
  <2>1. /\ log' = log /\ appendRequests' = appendRequests /\ currentTerm' = currentTerm
        /\ state' = [state EXCEPT ![n] = "Follower"]
    BY <1>2 DEF Restart, voteVars
  <2>2. state \in [Node -> States]
    BY DEF TypeOK, NodeTypeOK
  <2>3. \A x \in Node : state'[x] = "Leader" =>
                          state[x] = "Leader" /\ currentTerm'[x] = currentTerm[x]
    BY <2>1, <2>2
  <2>4. led' = led
    BY <1>2, <2>3, LedStays DEF MatchInv
  <2>. QED  BY <1>0, <2>1, <2>3, <2>4, MatchFrame
<1>3. ASSUME HistoryNext, Next PROVE MatchInv'
  <2>0. [Next]_vars
    BY <1>3
  <2>1. CASE \E n \in Node, k \in Slot : TakeLeadership(n, k)
    BY <1>3, <2>0, <2>1, MatchRise
  <2>2. CASE \A n \in Node, k \in Slot : ~TakeLeadership(n, k)
    <3>1. LeadersStay
      BY <2>0, <2>2, NobodyRises
    <3>2. led' = led
      BY <1>3, <3>1, LedStays DEF MatchInv, LeadersStay
    <3>3. CASE LogsStay
      <4>1. \A n \in Node : currentTerm[n] <= currentTerm'[n]
        BY <2>0, TermsGrow
      <4>. QED  BY <3>1, <3>2, <3>3, <4>1, MatchFrame DEF LogsStay, LeadersStay
    <3>4. CASE ElectionNext /\ UNCHANGED appendVars
      BY <2>2, <3>3, <3>4, ElectionLogsStay
    <3>5. CASE ReplicationNext
      BY <3>2, <3>3, <3>5, ReplicationCases, MatchPropose, MatchSend, MatchAccept
    <3>. QED  BY <1>3, <3>4, <3>5 DEF Next
  <2>. QED  BY <2>1, <2>2
<1>. QED
  BY <1>1, <1>2, <1>3, RestartAssumption DEF HistoryNext, RestartNext

(* Two logs that hold an entry of one term at one index are both the log   *)
(* of that term's leader up to there.                                      *)
LEMMA MatchedLogs == TypeOK /\ MatchInv => LogMatching
<1>. SUFFICES ASSUME TypeOK, MatchInv, NEW a \in Node, NEW b \in Node \ {a},
                     NEW i \in 1 .. Len(log[a]), i <= Len(log[b]),
                     log[a][i].term = log[b][i].term, OneLeaderUpTo(log[a][i].term)
              PROVE  \A j \in 1 .. i : log[a][j] = log[b][j]
  BY DEF LogMatching
<1>1. PICK C \in [Nat -> Seq(Entry)] : LeaderLogs(C)
  BY DEF MatchInv
<1>2. log[a] \in Seq(Entry) /\ log[b] \in Seq(Entry) /\ Len(log[b]) \in Nat
  BY LogTyped
<1>3. log[a][i] \in Entry
  BY <1>2, ElementOfSeq
<1>4. log[a][i].term \in Sound
  BY <1>3 DEF Sound, Entry
<1>5. \A j \in 1 .. i : log[a][j] = C[log[a][i].term][j]
  BY <1>1, <1>4 DEF LeaderLogs, OfLeaders
<1>6. i \in 1 .. Len(log[b])
  BY <1>2
<1>7. \A j \in 1 .. i : log[b][j] = C[log[b][i].term][j]
  BY <1>1, <1>4, <1>6 DEF LeaderLogs, OfLeaders
<1>. QED  BY <1>5, <1>7

(* A run with the history of leaders is a run of the cluster with crashes. *)
LEMMA HistoryHides == HistorySpec => RestartSpec
<1>1. HistoryInit => RestartInit
  BY DEF HistoryInit
<1>2. [HistoryNext]_historyVars => [RestartNext]_restartVars
  BY DEF HistoryNext, historyVars
<1>. QED  BY <1>1, <1>2, PTL DEF HistorySpec, RestartSpec

(* Log matching: if two logs hold an entry of the same term at the same    *)
(* index they are equal up to there, unless an earlier or this very term   *)
(* had two leaders.  It holds through crashes, restarts and any delay,     *)
(* loss and reordering of AppendEntries requests of several terms.         *)
THEOREM LogsMatch == HistorySpec => []LogMatching
<1>1. HistorySpec => []TypeOK /\ []LogInv
  BY HistoryHides, RestartTypeCorrect, RestartLogInvariant, PTL
<1>. QED
  BY <1>1, MatchInitially, MatchKept, MatchedLogs, PTL DEF HistorySpec
=============================================================================

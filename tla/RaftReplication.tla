-------------------------- MODULE RaftReplication --------------------------
(***************************************************************************)
(* Log replication: raft/replication.go and Propose of raft/node.go.       *)
(*                                                                         *)
(* replicateTo is a goroutine in three parts: it builds a request under    *)
(* the lock, waits without it, and handles the response under the lock     *)
(* again.  Several of them may be waiting for the same follower; CallSlot  *)
(* names the calls in flight, and they are handled in any order.  A        *)
(* request or a response may be lost; a transport that reports an error or *)
(* a timeout after the follower did its work is a lost response.           *)
(***************************************************************************)
EXTENDS RaftNode

CONSTANT CallSlot  \* bound: replicateTo calls in flight in the cluster

VARIABLES appendRequests,  \* AppendEntries requests not handled yet
          appendResponses  \* responses the leader has not handled yet

appendVars == <<appendRequests, appendResponses>>

AppendRequest == [from : Node, to : Node, slot : CallSlot, term : Nat,
                  prevIndex : Nat, prevTerm : Nat, entries : Seq(Entry),
                  leaderCommit : Nat]

AppendResponse == [from : Node, to : Node, slot : CallSlot, reqTerm : Nat,
                   prevIndex : Nat, match : Nat, term : Nat,
                   success : BOOLEAN, conflictIndex : Nat, conflictTerm : Nat]

ReplicationInit == appendRequests = {} /\ appendResponses = {}

ReplicationTypeOK ==
  /\ appendRequests \subseteq AppendRequest
  /\ appendResponses \subseteq AppendResponse
  /\ \A x \in appendRequests \cup appendResponses : x.to # x.from

InFlight(s) == \E x \in appendRequests \cup appendResponses : x.slot = s

-----------------------------------------------------------------------------
(* The leader's side. *)

(* Propose: WAL, log, and a heartbeat round (ReplicateTo below).  The     *)
(* bound on the log keeps room for the no-op of every later term, so that *)
(* no election is stuck on it.                                            *)
Propose(n, v) ==
  /\ state[n] = "Leader"
  /\ Len(log[n]) + (MaxTerm - currentTerm[n]) < MaxLogLen
  /\ log' = [log EXCEPT ![n] = Append(@, [index |-> LastIndex(@) + 1,
                                          term  |-> currentTerm[n],
                                          data  |-> v])]
  /\ UNCHANGED <<voteVars, roleVars, commitIndex, peerVars, appendVars>>

RequestOneEntryTo(n, p, s) ==  \* mutant: at most one entry per request
  LET next == nextIndex[n][p]
  IN  [from |-> n, to |-> p, slot |-> s, term |-> currentTerm[n],
       prevIndex |-> next - 1, prevTerm |-> EntryTerm(log[n], next - 1),
       entries |-> IF next <= LastIndex(log[n]) THEN <<log[n][next]>> ELSE <<>>,
       leaderCommit |-> commitIndex[n]]

(* The request replicateTo builds.  It always carries the whole suffix. *)
RequestTo(n, p, s) ==
  LET next == nextIndex[n][p]
  IN  [from |-> n, to |-> p, slot |-> s, term |-> currentTerm[n],
       prevIndex |-> next - 1, prevTerm |-> EntryTerm(log[n], next - 1),
       entries |-> IF next <= LastIndex(log[n])
                   THEN EntriesFrom(log[n], next) ELSE <<>>,
       leaderCommit |-> commitIndex[n]]

(* replicateTo returns without a request when it has no entry at prevIndex. *)
ReplicateTo(n, p, s) ==
  /\ state[n] = "Leader"
  /\ HasEntry(log[n], nextIndex[n][p] - 1)
  /\ ~InFlight(s)
  /\ appendRequests' = appendRequests \cup {RequestTo(n, p, s)}
  /\ UNCHANGED <<nodeVars, appendResponses>>

(* The highest index that a quorum holds: the quorum-th largest of the     *)
(* leader's last index and the peers' match indexes.                       *)
QuorumMatchIndex(n, match) ==
  LET held(q) == IF q = n THEN LastIndex(log[n]) ELSE match[q]
  IN  Max({i \in {held(q) : q \in Node} :
             Cardinality({q \in Node : held(q) >= i}) >= Quorum})

(* maybeCommit: the commit index it leaves behind. *)
Committed(n, match) ==
  LET i == QuorumMatchIndex(n, match)
  IN  IF /\ i > commitIndex[n]
         /\ HasEntry(log[n], i)
         /\ EntryTerm(log[n], i) = currentTerm[n]
      THEN CommitTo(log[n], commitIndex[n], i)
      ELSE commitIndex[n]

(* maybeSendHeartbeats: maybeCommit, then one replicateTo per peer. *)
HeartbeatTick(n) ==
  /\ state[n] = "Leader"
  /\ commitIndex' = [commitIndex EXCEPT ![n] = Committed(n, matchIndex[n])]
  /\ UNCHANGED <<voteVars, roleVars, log, peerVars, appendVars>>

-----------------------------------------------------------------------------
(* The follower's side: the ways through handleAppendEntries. *)

Respond(m, term, success, cIndex, cTerm) ==
  /\ appendRequests'  = appendRequests \ {m}
  /\ appendResponses' = appendResponses \cup
       {[from |-> m.from, to |-> m.to, slot |-> m.slot, reqTerm |-> m.term,
         prevIndex |-> m.prevIndex, match |-> m.prevIndex + Len(m.entries),
         term |-> term, success |-> success,
         conflictIndex |-> cIndex, conflictTerm |-> cTerm]}

RejectStaleLeader(m) ==
  /\ m.term < currentTerm[m.to]
  /\ Respond(m, currentTerm[m.to], FALSE, 0, 0)
  /\ UNCHANGED nodeVars

(* What every request of a current term does first. *)
FollowLeader(m) ==
  /\ m.term >= currentTerm[m.to]
  /\ becomeFollower(m.to, m.term, m.from)
  /\ UNCHANGED peerVars

RejectMissing(m) ==
  /\ FollowLeader(m)
  /\ m.prevIndex > 0
  /\ ~HasEntry(log[m.to], m.prevIndex)
  /\ Respond(m, m.term, FALSE, LastIndex(log[m.to]) + 1, 0)
  /\ UNCHANGED logVars

RejectMismatch(m) ==
  LET l == log[m.to]
  IN  /\ FollowLeader(m)
      /\ m.prevIndex > 0
      /\ HasEntry(l, m.prevIndex)
      /\ EntryTerm(l, m.prevIndex) # m.prevTerm
      /\ Respond(m, m.term, FALSE, FirstOfTermRun(l, m.prevIndex),
                 EntryTerm(l, m.prevIndex))
      /\ UNCHANGED logVars

PrevExists(l, m) == HasEntry(l, m.prevIndex)  \* mutant: no look at the term
PrevMatches(l, m) ==
  \/ m.prevIndex = 0
  \/ HasEntry(l, m.prevIndex) /\ EntryTerm(l, m.prevIndex) = m.prevTerm

(* A conflict at or below the commit index: RaftLog.TruncateFrom returns   *)
(* an error and the handler answers without a hint.                        *)
TruncationRefused(l, commit, es) ==
  /\ Conflicts(l, es)
  /\ ~MayTruncate(commit, es[FirstDiffering(l, es)].index)

RefuseTruncation(m) ==
  /\ FollowLeader(m)
  /\ PrevMatches(log[m.to], m)
  /\ TruncationRefused(log[m.to], commitIndex[m.to], m.entries)
  /\ Respond(m, m.term, FALSE, 0, 0)
  /\ UNCHANGED logVars

FollowerCommitBelowLast(l, commit, leaderCommit) ==  \* mutant: < for <=
  IF leaderCommit > commit /\ leaderCommit < LastIndex(l)
  THEN CommitTo(l, commit, leaderCommit) ELSE commit

(* min(leaderCommit, last index of the merged log). *)
FollowerCommit(l, commit, leaderCommit) ==
  IF leaderCommit > commit
  THEN CommitTo(l, commit, IF LastIndex(l) < leaderCommit THEN LastIndex(l)
                                                          ELSE leaderCommit)
  ELSE commit

AcceptEntries(m) ==
  LET n == m.to
      l == Merge(log[n], m.entries)
  IN  /\ FollowLeader(m)
      /\ PrevMatches(log[n], m)
      /\ ~TruncationRefused(log[n], commitIndex[n], m.entries)
      /\ log' = [log EXCEPT ![n] = l]
      /\ commitIndex' = [commitIndex EXCEPT
                           ![n] = FollowerCommit(l, @, m.leaderCommit)]
      /\ Respond(m, m.term, TRUE, 0, 0)

HandleAppendEntries(m) ==
  /\ m \in appendRequests
  /\ \/ RejectStaleLeader(m)
     \/ RejectMissing(m)
     \/ RejectMismatch(m)
     \/ RefuseTruncation(m)
     \/ AcceptEntries(m)

-----------------------------------------------------------------------------
(* The leader again, with the response. *)

(* The node is no longer the leader that sent the request. *)
Outdated(r) == state[r.from] # "Leader" \/ currentTerm[r.from] # r.reqTerm

DiscardResponse(r) ==
  /\ Outdated(r)
  /\ UNCHANGED nodeVars

StepDownOnResponse(r) ==
  /\ ~Outdated(r)
  /\ r.term > currentTerm[r.from]
  /\ becomeFollower(r.from, r.term, NoNode)
  /\ UNCHANGED <<logVars, peerVars>>

AdvancePeer(r) ==
  LET n     == r.from
      match == IF r.match > matchIndex[n][r.to] THEN r.match
                                                ELSE matchIndex[n][r.to]
  IN  /\ ~Outdated(r)
      /\ r.term <= currentTerm[n]
      /\ r.success
      /\ matchIndex'  = [matchIndex EXCEPT ![n][r.to] = match]
      /\ nextIndex'   = [nextIndex EXCEPT ![n][r.to] = match + 1]
      /\ commitIndex' = [commitIndex EXCEPT
                           ![n] = Committed(n, [matchIndex[n] EXCEPT ![r.to] = match])]
      /\ UNCHANGED <<voteVars, roleVars, log>>

(* The next index after a rejection: just past our last entry of the       *)
(* conflicting term, or the NUMBER of that term if we have none of it; the *)
(* follower's ConflictIndex only if its log is too short; never below 1.   *)
BackedUp(l, r) ==
  LET i == IF r.conflictTerm > 0 THEN AfterLastOfTerm(l, r.conflictTerm)
                                 ELSE r.conflictIndex
  IN  IF i < 1 THEN 1 ELSE i

BackUpPeer(r) ==
  LET n == r.from
  IN  /\ ~Outdated(r)
      /\ r.term <= currentTerm[n]
      /\ ~r.success
      /\ nextIndex' = [nextIndex EXCEPT ![n][r.to] = BackedUp(log[n], r)]
      /\ UNCHANGED <<voteVars, roleVars, logVars, matchIndex>>

HandleAppendResponse(r) ==
  /\ r \in appendResponses
  /\ \/ DiscardResponse(r)
     \/ StepDownOnResponse(r)
     \/ AdvancePeer(r)
     \/ BackUpPeer(r)
  /\ appendResponses' = appendResponses \ {r}
  /\ UNCHANGED appendRequests

(* The transport drops a request or a response, or the caller timed out. *)
LoseAppend ==
  /\ \/ /\ \E m \in appendRequests : appendRequests' = appendRequests \ {m}
        /\ UNCHANGED appendResponses
     \/ /\ \E r \in appendResponses : appendResponses' = appendResponses \ {r}
        /\ UNCHANGED appendRequests
  /\ UNCHANGED nodeVars

ReplicationNext ==
  \/ \E n \in Node :
       \/ \E v \in Value : Propose(n, v)
       \/ HeartbeatTick(n)
       \/ \E p \in Peers(n), s \in CallSlot : ReplicateTo(n, p, s)
  \/ \E m \in appendRequests : HandleAppendEntries(m)
  \/ \E r \in appendResponses : HandleAppendResponse(r)
  \/ LoseAppend
=============================================================================

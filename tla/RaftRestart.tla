---------------------------- MODULE RaftRestart ----------------------------
(***************************************************************************)
(* The Raft core with nodes that crash and come back.  NewRaftNode reads   *)
(* term, vote and log from the write-ahead log (RaftWAL says when that is  *)
(* all there is to read); everything else starts afresh, the commit index  *)
(* included.  Start creates the election timer.                            *)
(*                                                                         *)
(* The time a node is down is not modelled: the network may lose whatever  *)
(* is sent to it meanwhile.  Its own requests may still be on their way;   *)
(* whoever waited for the answers is gone.                                 *)
(***************************************************************************)
EXTENDS Raft

CONSTANTS Crashers,     \* bound: the nodes that may crash
          MaxRestarts,  \* bound: crashes in the whole cluster
          MaxCrashTerm  \* bound: the last term in which a node crashes

ASSUME RestartAssumption ==
  Crashers \subseteq Node /\ MaxRestarts \in Nat /\ MaxCrashTerm \in Nat

VARIABLE restarts

restartVars == <<vars, restarts>>

RestartForgets(n) ==  \* mutant: the vote is not read back
  /\ restarts < MaxRestarts /\ currentTerm[n] <= MaxCrashTerm
  /\ restarts'    = restarts + 1
  /\ votedFor'    = [votedFor EXCEPT ![n] = NoNode]
  /\ state'       = [state EXCEPT ![n] = "Follower"]
  /\ leaderID'    = [leaderID EXCEPT ![n] = NoNode]
  /\ timer'       = [timer EXCEPT ![n] = TRUE]
  /\ commitIndex' = [commitIndex EXCEPT ![n] = 0]
  /\ nextIndex'   = [nextIndex EXCEPT ![n] = [p \in Peers(n) |-> 0]]
  /\ matchIndex'  = [matchIndex EXCEPT ![n] = [p \in Peers(n) |-> 0]]
  /\ campaigns'   = [campaigns EXCEPT ![n] = [k \in Slot |-> NoCampaign]]
  /\ appendResponses' = {r \in appendResponses : r.from # n}
  /\ UNCHANGED <<currentTerm, log, voteRequests, appendRequests>>
Restart(n) ==
  /\ restarts < MaxRestarts /\ currentTerm[n] <= MaxCrashTerm
  /\ restarts'    = restarts + 1
  /\ state'       = [state EXCEPT ![n] = "Follower"]
  /\ leaderID'    = [leaderID EXCEPT ![n] = NoNode]
  /\ timer'       = [timer EXCEPT ![n] = TRUE]
  /\ commitIndex' = [commitIndex EXCEPT ![n] = 0]
  /\ nextIndex'   = [nextIndex EXCEPT ![n] = [p \in Peers(n) |-> 0]]
  /\ matchIndex'  = [matchIndex EXCEPT ![n] = [p \in Peers(n) |-> 0]]
  /\ campaigns'   = [campaigns EXCEPT ![n] = [k \in Slot |-> NoCampaign]]
  /\ appendResponses' = {r \in appendResponses : r.from # n}
  /\ UNCHANGED <<voteVars, log, voteRequests, appendRequests>>

RestartInit == Init /\ restarts = 0

RestartNext == \/ Next /\ UNCHANGED restarts
               \/ \E n \in Crashers : Restart(n)

RestartSpec == RestartInit /\ [][RestartNext]_restartVars

(* The fairness of Raft.  The election timer owes nothing here. *)
RestartLiveSpec ==
  RestartSpec /\ CampaignFairness /\ TickerFairness /\ NetworkFairness

-----------------------------------------------------------------------------
(* Node n leads, the others hold the beginning of its log and nothing      *)
(* else, and no next index points beyond what it can send.                 *)
InStep(n) ==
  /\ state[n] = "Leader"
  /\ \A p \in Peers(n) : /\ nextIndex[n][p] <= Len(log[n]) + 1
                          /\ Len(log[p]) <= Len(log[n])
                          /\ log[p] = SubSeq(log[n], 1, Len(log[p]))

(* A leader brings every follower up that has nothing of another log: its  *)
(* requests reach back as far as the follower's answers say, responses     *)
(* advance it, and the next request tells the follower what is committed,  *)
(* through lost calls, late answers and a crash of either, which forgets   *)
(* its commit index.  (With entries of another log it may fail: see        *)
(* EventuallyCommitted.)                                                   *)
PrefixCatchesUp ==
  \A n \in Campaigners : \A i \in 1 .. MaxLogLen :
    (InStep(n) /\ Len(log[n]) >= i)
      ~> (~InStep(n) \/ \A p \in Node : commitIndex[p] >= i)

(* What a node has committed it keeps until it crashes, and a crash leaves *)
(* all of it in the log: only the knowledge of the commit index is lost.   *)
CommittedPrefixKept ==
  [][\A n \in Node :
       /\ commitIndex[n] <= Len(log'[n])
       /\ \A i \in 1 .. commitIndex[n] : log'[n][i] = log[n][i]
       /\ commitIndex'[n] < commitIndex[n] => restarts' > restarts]_restartVars
=============================================================================

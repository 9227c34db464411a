--------------------------- MODULE ApplyPipeline ---------------------------
(***************************************************************************)
(* From a proposal to the key-value map, on one node: Propose and its      *)
(* waiters (raft/node.go), the applyCommitted goroutines and commitCh      *)
(* (raft/replication.go), and the KVStore that drains it (server/api.go).  *)
(*                                                                         *)
(* Every advance of the commit index, and every heartbeat tick of a        *)
(* leader, starts a goroutine of its own.  It copies the unapplied entries *)
(* under n.mu, and then, for each of them, sends it on the channel without *)
(* the lock and takes the lock again to record it as applied and to wake   *)
(* the client.                                                             *)
(*                                                                         *)
(* What the cluster does to the node's log is the environment: leadership  *)
(* comes and goes, a leader elsewhere cuts and extends the uncommitted     *)
(* part, the commit index grows.  Keys are independent and the map is that *)
(* of one key; a JSON command is a value to put, or Delete.                *)
(***************************************************************************)
EXTENDS Integers, Sequences, FiniteSetsExt

CONSTANTS Client,     \* callers of Propose, one proposal each
          Nobody,     \* the author of an entry that was not proposed here
          Value,      \* values to put
          Worker,     \* bound: applyCommitted goroutines alive at once
          ChanCap,    \* capacity of commitCh (256 in the code)
          MaxLogLen   \* bound: the longest log

ASSUME ApplyAssumption == /\ Nobody \notin Client
                          /\ ChanCap \in Nat \ {0}
                          /\ MaxLogLen \in Nat

VARIABLES leader,       \* state = Leader
          log, commitIndex, lastApplied,
          proposals,    \* log index -> the client that waits for it
          client,       \* where each call of Propose is
          worker,       \* where each goroutine is, and what it still has to send
          commitCh,
          kv,           \* KVStore.data
          nodeStopped, kvStopped,  \* the two stopCh are closed
          applied,      \* history: the indexes the KVStore took, in order
          deposed       \* history: clients whose node stopped leading while they waited

raftVars  == <<leader, log, commitIndex>>
callVars  == <<proposals, client, deposed>>
storeVars == <<commitCh, kv, applied>>
stopVars  == <<nodeStopped, kvStopped>>
vars == <<raftVars, lastApplied, callVars, worker, storeVars, stopVars>>

Noop == "noop"        \* the leader's own entry: nil, which is not JSON
Delete == "delete"
NoValue == "no value"

Commands == Value \cup {Delete}

Entry == [index : 1 .. MaxLogLen, cmd : Commands \cup {Noop},
          by : Client \cup {Nobody}]

NewEntry(i, c, a) == [index |-> i, cmd |-> c, by |-> a]

(* apply: a malformed entry is skipped. *)
ApplyNoopAsDelete(data, cmd) ==  \* mutant: no command is taken for a deletion
  IF cmd \in {Noop, Delete} THEN NoValue ELSE cmd
Apply(data, cmd) == CASE cmd = Noop   -> data
                      [] cmd = Delete -> NoValue
                      [] OTHER        -> cmd

Resting == [pc |-> "done", es |-> <<>>]
Spawned == [pc |-> "start", es |-> <<>>]

Init ==
  /\ leader = FALSE /\ log = <<>> /\ commitIndex = 0 /\ lastApplied = 0
  /\ proposals = [i \in 1 .. MaxLogLen |-> Nobody]
  /\ client = [c \in Client |-> [pc |-> "idle", index |-> 0]]
  /\ worker = [k \in Worker |-> Resting]
  /\ commitCh = <<>> /\ kv = NoValue /\ applied = <<>>
  /\ nodeStopped = FALSE /\ kvStopped = FALSE
  /\ deposed = {}

Waiting == {c \in Client : client[c].pc = "waiting"}

-----------------------------------------------------------------------------
(* The environment: elections, other leaders, commits.  A campaign under   *)
(* way may still take leadership when Stop has made the node a follower.   *)
becomeLeader ==
  /\ ~leader
  /\ Len(log) < MaxLogLen
  /\ leader' = TRUE
  /\ log' = Append(log, NewEntry(Len(log) + 1, Noop, Nobody))
  /\ UNCHANGED <<commitIndex, lastApplied, callVars, worker, storeVars, stopVars>>

(* Stepping down tells no waiter. *)
becomeFollower ==
  /\ leader
  /\ leader' = FALSE
  /\ deposed' = deposed \cup Waiting
  /\ UNCHANGED <<log, commitIndex, lastApplied, proposals, client, worker, storeVars,
                 stopVars>>

(* Another leader's entry, in place of whatever is uncommitted from i on. *)
OverwriteLeader ==  \* mutant: a leader accepts entries as well
  /\ \E i \in commitIndex + 1 .. Len(log) + 1, c \in Commands :
       /\ i <= MaxLogLen
       /\ log' = Append(SubSeq(log, 1, i - 1), NewEntry(i, c, Nobody))
  /\ UNCHANGED <<leader, commitIndex, lastApplied, callVars, worker, storeVars, stopVars>>
Overwrite ==
  /\ ~leader
  /\ \E i \in commitIndex + 1 .. Len(log) + 1, c \in Commands :
       /\ i <= MaxLogLen
       /\ log' = Append(SubSeq(log, 1, i - 1), NewEntry(i, c, Nobody))
  /\ UNCHANGED <<leader, commitIndex, lastApplied, callVars, worker, storeVars, stopVars>>

(* CommitTo, then "go n.applyCommitted()": maybeCommit and the follower. *)
Commit(k) ==
  /\ worker[k] = Resting
  /\ \E i \in commitIndex + 1 .. Len(log) : commitIndex' = i
  /\ worker' = [worker EXCEPT ![k] = Spawned]
  /\ UNCHANGED <<leader, log, lastApplied, callVars, storeVars, stopVars>>

(* maybeSendHeartbeats starts one too, on every tick and every proposal. *)
HeartbeatTick(k) ==
  /\ leader
  /\ worker[k] = Resting
  /\ worker' = [worker EXCEPT ![k] = Spawned]
  /\ UNCHANGED <<raftVars, lastApplied, callVars, storeVars, stopVars>>

-----------------------------------------------------------------------------
(* Propose: the entry is in the log and the client waits under its index. *)
ProposeKeyedByLast(c) ==  \* mutant: registered under the index before its own
  LET i == Len(log) + 1
  IN  /\ client[c].pc = "idle"
      /\ leader
      /\ i <= MaxLogLen
      /\ \E cmd \in Commands : log' = Append(log, NewEntry(i, cmd, c))
      /\ proposals' = [proposals EXCEPT ![Len(log)] = c]
      /\ client' = [client EXCEPT ![c] = [pc |-> "waiting", index |-> i]]
      /\ UNCHANGED <<leader, commitIndex, lastApplied, worker, storeVars, stopVars, deposed>>
Propose(c) ==
  LET i == Len(log) + 1
  IN  /\ client[c].pc = "idle"
      /\ leader
      /\ i <= MaxLogLen
      /\ \E cmd \in Commands : log' = Append(log, NewEntry(i, cmd, c))
      /\ proposals' = [proposals EXCEPT ![i] = c]
      /\ client' = [client EXCEPT ![c] = [pc |-> "waiting", index |-> i]]
      /\ UNCHANGED <<leader, commitIndex, lastApplied, worker, storeVars, stopVars, deposed>>

(* The other way out of Propose's select: "node stopped". *)
ProposeFails(c) ==
  /\ client[c].pc = "waiting"
  /\ nodeStopped
  /\ client' = [client EXCEPT ![c].pc = "failed"]
  /\ UNCHANGED <<raftVars, lastApplied, proposals, worker, storeVars, stopVars, deposed>>

-----------------------------------------------------------------------------
(* applyCommitted. *)
Goto(k, pc, es) ==
  worker' = [worker EXCEPT
               ![k] = IF es = <<>> THEN Resting ELSE [pc |-> pc, es |-> es]]

CollectAll(k) ==  \* mutant: up to the end of the log
  /\ worker[k].pc = "start"
  /\ Goto(k, "send", SubSeq(log, lastApplied + 1, Len(log)))
  /\ UNCHANGED <<raftVars, lastApplied, callVars, storeVars, stopVars>>
CollectAndMark(k) ==  \* mutant: recorded as applied before it is sent
  /\ worker[k].pc = "start"
  /\ Goto(k, "send", SubSeq(log, lastApplied + 1, commitIndex))
  /\ lastApplied' = commitIndex
  /\ UNCHANGED <<raftVars, callVars, storeVars, stopVars>>

(* The first critical section; it returns when there is nothing to do. *)
CollectEntries(k) ==
  /\ worker[k].pc = "start"
  /\ Goto(k, "send", SubSeq(log, lastApplied + 1, commitIndex))
  /\ UNCHANGED <<raftVars, lastApplied, callVars, storeVars, stopVars>>

SendOrDrop(k) ==  \* mutant: a full channel does not block, it loses the entry
  /\ worker[k].pc = "send"
  /\ commitCh' = IF Len(commitCh) < ChanCap
                 THEN Append(commitCh, Head(worker[k].es)) ELSE commitCh
  /\ worker' = [worker EXCEPT ![k].pc = "mark"]
  /\ UNCHANGED <<raftVars, lastApplied, callVars, kv, applied, stopVars>>
SendEntry(k) ==
  /\ worker[k].pc = "send"
  /\ Len(commitCh) < ChanCap
  /\ commitCh' = Append(commitCh, Head(worker[k].es))
  /\ worker' = [worker EXCEPT ![k].pc = "mark"]
  /\ UNCHANGED <<raftVars, lastApplied, callVars, kv, applied, stopVars>>

(* The other way out of the select. *)
SendStopped(k) ==
  /\ worker[k].pc = "send"
  /\ nodeStopped
  /\ worker' = [worker EXCEPT ![k] = Resting]
  /\ UNCHANGED <<raftVars, lastApplied, callVars, storeVars, stopVars>>

(* notifyProposal wakes whoever is registered for the index, once. *)
Notify(i) ==
  /\ proposals' = [proposals EXCEPT ![i] = Nobody]
  /\ client' = [c \in Client |-> IF c = proposals[i] /\ client[c].pc = "waiting"
                                 THEN [client[c] EXCEPT !.pc = "ok"]
                                 ELSE client[c]]
  /\ UNCHANGED deposed

MarkBatch(k) ==  \* mutant: only the last entry of a batch wakes its client
  LET i == Head(worker[k].es).index
  IN  /\ worker[k].pc = "mark"
      /\ lastApplied' = i
      /\ IF Len(worker[k].es) = 1 THEN Notify(i) ELSE UNCHANGED callVars
      /\ Goto(k, "send", Tail(worker[k].es))
      /\ UNCHANGED <<raftVars, storeVars, stopVars>>

(* SetLastApplied assigns: it does not look at what was there. *)
MarkApplied(k) ==
  LET i == Head(worker[k].es).index
  IN  /\ worker[k].pc = "mark"
      /\ lastApplied' = i
      /\ Notify(i)
      /\ Goto(k, "send", Tail(worker[k].es))
      /\ UNCHANGED <<raftVars, storeVars, stopVars>>

-----------------------------------------------------------------------------
(* The KVStore and the shutdown. *)

(* applyLoop: one entry from the channel. *)
ApplyEntry ==
  /\ ~kvStopped
  /\ commitCh # <<>>
  /\ kv' = Apply(kv, Head(commitCh).cmd)
  /\ applied' = Append(applied, Head(commitCh).index)
  /\ commitCh' = Tail(commitCh)
  /\ UNCHANGED <<raftVars, lastApplied, callVars, worker, stopVars>>

(* Server.Stop stops the KVStore first and the node after it; Stop also    *)
(* makes the node a follower.                                              *)
StopKV ==
  /\ ~kvStopped
  /\ kvStopped' = TRUE
  /\ UNCHANGED <<raftVars, lastApplied, callVars, worker, storeVars, nodeStopped>>

StopNode ==
  /\ kvStopped /\ ~nodeStopped
  /\ nodeStopped' = TRUE
  /\ leader' = FALSE
  /\ deposed' = deposed \cup Waiting
  /\ UNCHANGED <<log, commitIndex, lastApplied, proposals, client, worker, storeVars,
                 kvStopped>>

WorkerStep(k) == CollectEntries(k) \/ SendEntry(k) \/ SendStopped(k) \/ MarkApplied(k)

Next ==
  \/ becomeLeader \/ becomeFollower \/ Overwrite
  \/ \E c \in Client : Propose(c) \/ ProposeFails(c)
  \/ \E k \in Worker : Commit(k) \/ HeartbeatTick(k) \/ WorkerStep(k)
  \/ ApplyEntry \/ StopKV \/ StopNode

Spec == Init /\ [][Next]_vars

(* A goroutine that can run does run: nothing holds n.mu for ever, the     *)
(* apply loop drains the channel, and Server.Stop goes on after kv.Stop.   *)
(* Nothing obliges the cluster to commit, nor anybody to stop the server.  *)
FairSpec == /\ Spec
            /\ \A k \in Worker : WF_vars(WorkerStep(k))
            /\ \A c \in Client : WF_vars(ProposeFails(c))
            /\ WF_vars(ApplyEntry)
            /\ WF_vars(StopNode)

-----------------------------------------------------------------------------
(* What is on its way to the state machine is committed: a goroutine's     *)
(* copies, made under the lock and sent long after it was released, are    *)
(* still the entries of the log, though the log was cut meanwhile.         *)
InPipeline == {commitCh[i] : i \in DOMAIN commitCh}
                \cup UNION {{worker[k].es[i] : i \in DOMAIN worker[k].es} :
                              k \in Worker}

OnlyCommitted ==
  \A e \in InPipeline : e.index <= commitIndex /\ log[e.index] = e

(* No entry overtakes an earlier one: however many goroutines send, when   *)
(* an index first reaches the state machine every smaller one has been     *)
(* there, and what is recorded as applied has been sent.                   *)
Arrived == applied \o [i \in DOMAIN commitCh |-> commitCh[i].index]

NoGaps ==
  /\ \A j \in DOMAIN Arrived : \A i \in 1 .. Arrived[j] - 1 :
       \E h \in 1 .. j - 1 : Arrived[h] = i
  /\ \A i \in 1 .. lastApplied : \E h \in DOMAIN Arrived : Arrived[h] = i

(* A committed entry reaches the state machine, even when the channel is   *)
(* full and goroutines send at once, unless the server stops.              *)
EventuallyApplied ==
  \A i \in 1 .. MaxLogLen :
    commitIndex >= i ~> (kvStopped \/ \E h \in DOMAIN applied : applied[h] = i)

(* A client that is registered when its index commits gets an answer, even *)
(* when a shutdown leaves nobody to drain the channel.                     *)
RegisteredAnswered ==
  \A c \in Client :
    (/\ client[c].pc = "waiting"
     /\ commitIndex >= client[c].index
     /\ proposals[client[c].index] = c)
      ~> client[c].pc # "waiting"

(* A client that is told success has an index that is committed, and the   *)
(* entry there is in the map or in the channel, at most ChanCap entries    *)
(* behind: Propose is answered when the entry is sent, not when it is      *)
(* applied, so that a GET right after may miss it.                         *)
ConfirmedArrives ==
  \A c \in Client : client[c].pc = "ok"
    => /\ client[c].index <= commitIndex
       /\ \E h \in DOMAIN Arrived : Arrived[h] = client[c].index

(* As long as the node has led since, that entry is the client's own.      *)
(* (Waiters are known by their index only: when leadership was lost and    *)
(* another leader's entry has taken the index, the client whose write is   *)
(* gone is told success all the same.)                                     *)
OwnWhileLeading ==
  \A c \in Client : client[c].pc = "ok" /\ c \notin deposed
    => log[client[c].index].by = c

(* With nothing on its way, the map is what the committed entries, in      *)
(* their order, make of an empty one: unless an entry was taken from the   *)
(* channel twice.  (Two goroutines may copy the same entry, and the second *)
(* copy may arrive after a later entry.)                                   *)
Replayed ==
  LET S == {i \in 1 .. commitIndex : log[i].cmd # Noop}
  IN  IF S = {} THEN NoValue ELSE Apply(NoValue, log[Max(S)].cmd)

MapFollowsLog ==
  (/\ commitCh = <<>> /\ ~kvStopped
   /\ \A k \in Worker : worker[k] = Resting
   /\ \A h, j \in DOMAIN applied : h # j => applied[h] # applied[j])
    => kv = Replayed
=============================================================================

------------------------------ MODULE RaftWAL ------------------------------
(***************************************************************************)
(* The write-ahead log of one node (raft/persistence.go) and the code that *)
(* uses it: NewRaftNode reads it back, the role changes and the vote       *)
(* handler save the term and the vote, Propose, becomeLeader and           *)
(* handleAppendEntries save entries, a log conflict rewrites it.           *)
(*                                                                         *)
(* The node holds n.mu from the first record it buffers until Sync         *)
(* returns, so an operation is interleaved with nothing but a crash.  op   *)
(* is the operation under way; a step that ends it is the moment its       *)
(* caller may answer.  A file is a sequence of records; Torn stands for    *)
(* the bytes of a record that was cut short.                               *)
(*                                                                         *)
(* Faults are the things that may go wrong besides a crash that loses      *)
(* whole unsynced records:                                                 *)
(*   "torn"     the crash leaves a part of a record in the file;           *)
(*   "rewrite"  the crash hits WAL.TruncateFrom after it emptied the file; *)
(*   "error"    Flush or fsync reports an error;                           *)
(*   "stop"     Server.Stop closes the file while gRPC still answers;      *)
(*   "cut"      a leader's entry conflicts with a committed one, which the *)
(*              Raft core makes possible (ElectionSafety in Raft).          *)
(***************************************************************************)
EXTENDS RaftLog, FiniteSets

CONSTANTS Self,        \* the node
          Other,       \* another node it may vote for
          NoNode,      \* the empty string: no vote
          Faults,
          MaxTerm,     \* bound: the largest term
          MaxLogLen,   \* bound: the longest log
          MaxRecords,  \* bound: nothing is saved in a file this long
          MaxCrashes   \* bound: how often the process dies

ASSUME FaultAssumption == Faults \subseteq {"torn", "rewrite", "error", "stop", "cut"}
ASSUME WALNodeAssumption == Self # Other /\ NoNode \notin {Self, Other}
ASSUME WALBoundAssumption == {MaxTerm, MaxLogLen, MaxRecords, MaxCrashes} \subseteq Nat

VARIABLES up,                         \* is the process running?
          currentTerm, votedFor, log, \* what the node has in memory
          commitIndex,
          file,                       \* the records in raft.wal
          buffer,                     \* the records in the bufio.Writer
          writer,                     \* "ok", "broken" (bufio's sticky error)
                                      \* or "closed" with its file
          op,                         \* the operation under way
          crashes,
          happened,                   \* history: the faults so far
          promised                    \* history: what callers were told

memory == <<currentTerm, votedFor, log, commitIndex>>
disk   == <<file, buffer, writer>>
vars   == <<up, memory, disk, op, crashes, happened, promised>>


Entry == [index : Nat \ {0}, term : 1 .. MaxTerm]

StateRecord(t, v) == [kind |-> "state", term |-> t, vote |-> v]
EntryRecord(e)    == [kind |-> "entry", entry |-> e]
Torn              == [kind |-> "torn"]

Records(es) == [i \in DOMAIN es |-> EntryRecord(es[i])]

(* Nothing under way; a term and vote to save; entries to save and then to *)
(* append, where mustSync says whether the caller looks at the errors      *)
(* (becomeLeader does not); a rewrite, cut at an index.                    *)
Idle == [kind |-> "idle"]
Saving == [kind |-> "state"]
Appending(es, mustSync) == [kind |-> "append", es |-> es, mustSync |-> mustSync]
Rewriting(i, es) == [kind |-> "rewrite", at |-> i, es |-> es]

-----------------------------------------------------------------------------
(* ReadAll: the records up to the first one that is short or fails its     *)
(* checksum; of these, the last state and the entries in file order.       *)
Readable(f) ==
  SubSeq(f, 1, Min({i \in 1 .. Len(f) : f[i].kind = "torn"} \cup {Len(f) + 1}) - 1)

ReadState(f) ==
  LET S == {i \in DOMAIN Readable(f) : f[i].kind = "state"}
  IN  IF S = {} THEN StateRecord(0, NoNode) ELSE f[Max(S)]

EntryRecords(f) == {i \in DOMAIN Readable(f) : f[i].kind = "entry"}

(* The entries of the records at the positions T, in file order. *)
InOrder(f, T) ==
  [i \in 1 .. Cardinality(T) |->
     f[CHOOSE k \in T : Cardinality({j \in T : j <= k}) = i].entry]

ReadEntries(f) == InOrder(f, EntryRecords(f))

(* WAL.TruncateFrom: the records that it writes to the emptied file. *)
KeptUpTo(f, i) ==  \* mutant: <= for <
  <<ReadState(f)>> \o
    Records(InOrder(f, {k \in EntryRecords(f) : f[k].entry.index <= i}))
Kept(f, i) ==
  <<ReadState(f)>> \o
    Records(InOrder(f, {k \in EntryRecords(f) : f[k].entry.index < i}))

Init ==
  /\ up = TRUE
  /\ currentTerm = 0 /\ votedFor = NoNode /\ log = <<>> /\ commitIndex = 0
  /\ file = <<>> /\ buffer = <<>> /\ writer = "ok"
  /\ op = Idle
  /\ crashes = 0 /\ happened = {}
  /\ promised = [term |-> 0, vote |-> NoNode, log |-> <<>>]

Ready == up /\ op = Idle

Room == Len(file) < MaxRecords

Happens(fs) == fs \subseteq Faults /\ happened' = happened \cup fs

(* The caller answers: others may rely on what the node has now. *)
Promise(t, v, l) == promised' = [term |-> t, vote |-> v, log |-> l]

-----------------------------------------------------------------------------
(* SaveState and SaveEntries.  With a broken writer they fail at once, with *)
(* a closed file Sync does: either way nothing reaches the file.           *)

(* The term and the vote change in memory before they are saved, and the   *)
(* three callers ignore the errors of SaveState and Sync.                  *)
SaveOldVote(t, v) ==  \* mutant: the record is built from the vote of before
  /\ Ready /\ Room /\ writer = "ok"
  /\ currentTerm' = t /\ votedFor' = v
  /\ buffer' = Append(buffer, StateRecord(t, votedFor))
  /\ op' = Saving
  /\ UNCHANGED <<up, log, commitIndex, file, writer, crashes, happened, promised>>
SaveStateAnswerFirst(t, v) ==  \* mutant: the answer does not wait for Sync
  /\ Ready /\ Room /\ writer = "ok"
  /\ currentTerm' = t /\ votedFor' = v
  /\ buffer' = Append(buffer, StateRecord(t, v))
  /\ op' = Saving
  /\ Promise(t, v, log)
  /\ UNCHANGED <<up, log, commitIndex, file, writer, crashes, happened>>
SaveState(t, v) ==
  /\ Ready /\ Room
  /\ currentTerm' = t /\ votedFor' = v
  /\ IF writer # "ok"
     THEN /\ Promise(t, v, log)
          /\ UNCHANGED <<buffer, op>>
     ELSE /\ buffer' = Append(buffer, StateRecord(t, v))
          /\ op' = Saving
          /\ UNCHANGED promised
  /\ UNCHANGED <<up, log, commitIndex, file, writer, crashes, happened>>

becomeFollower  == \E t \in currentTerm + 1 .. MaxTerm : SaveState(t, NoNode)
becomeCandidate == currentTerm < MaxTerm /\ SaveState(currentTerm + 1, Self)

(* The vote handler saves the vote under the term the node is in, which a  *)
(* request of a newer term does not change; a repeated vote is saved again. *)
GrantVote ==
  /\ votedFor \in {NoNode, Other}
  /\ SaveState(currentTerm, Other)

SaveEntries(es, mustSync) ==
  /\ Ready /\ Room
  /\ es # <<>>
  /\ Len(log) + Len(es) <= MaxLogLen
  /\ IF writer # "ok"
     THEN /\ log' = IF mustSync THEN log ELSE log \o es
          /\ Promise(currentTerm, votedFor, log')
          /\ UNCHANGED <<buffer, op>>
     ELSE /\ buffer' = buffer \o Records(es)
          /\ op' = Appending(es, mustSync)
          /\ UNCHANGED <<log, promised>>
  /\ UNCHANGED <<up, currentTerm, votedFor, commitIndex, file, writer, crashes,
                 happened>>

(* Propose and becomeLeader: one entry of the current term at the end. *)
OwnEntry == <<[index |-> LastIndex(log) + 1, term |-> currentTerm]>>

Propose      == currentTerm > 0 /\ SaveEntries(OwnEntry, TRUE)
becomeLeader == currentTerm > 0 /\ SaveEntries(OwnEntry, FALSE)

(* One or two entries a leader of the current term may send for position i. *)
Suffixes(i) ==
  LET terms == {ts \in UNION {[1 .. k -> 1 .. currentTerm] : k \in 1 .. 2} :
                  EntryTerm(log, i - 1) <= ts[1] /\ ts[1] <= ts[Len(ts)]}
  IN  {[k \in DOMAIN ts |-> [index |-> i + k - 1, term |-> ts[k]]] : ts \in terms}

(* handleAppendEntries, when the log ends before the leader's entries. *)
AppendMissing ==
  \E es \in Suffixes(Len(log) + 1) : SaveEntries(es, TRUE)

-----------------------------------------------------------------------------
(* handleAppendEntries, when an entry conflicts.  WAL.TruncateFrom reads   *)
(* the file, empties it (O_TRUNC) and buffers what it keeps: the new file  *)
(* has a new writer.  What the leader takes back is no longer promised.    *)
Truncate(i, es) ==
  /\ Ready
  /\ writer # "closed"
  /\ es[1].term # log[i].term
  /\ i - 1 + Len(es) <= MaxLogLen
  /\ file' = <<>>
  /\ buffer' = Kept(file, i)
  /\ writer' = "ok"
  /\ op' = Rewriting(i, es)
  /\ IF MayTruncate(commitIndex, i)
     THEN /\ promised' = [promised EXCEPT !.log = SubSeq(@, 1, i - 1)]
          /\ UNCHANGED happened
     ELSE /\ Happens({"cut"})
          /\ UNCHANGED promised
  /\ UNCHANGED <<up, memory, crashes>>

OverwriteConflict ==
  \E i \in 1 .. Len(log) : \E es \in Suffixes(i) : Truncate(i, es)

(* RaftLog.TruncateFrom comes second, and only it knows what is committed. *)
SyncRewrite ==
  /\ up /\ op.kind = "rewrite"
  /\ file' = buffer
  /\ IF MayTruncate(commitIndex, op.at)
     THEN /\ log' = TruncateFrom(log, op.at)
          /\ buffer' = Records(op.es)
          /\ op' = Appending(op.es, TRUE)
     ELSE /\ buffer' = <<>>
          /\ op' = Idle
          /\ UNCHANGED log
  /\ UNCHANGED <<up, currentTerm, votedFor, commitIndex, writer, crashes, happened,
                 promised>>

-----------------------------------------------------------------------------
(* Sync: Flush, then fsync. *)
Flushed == file' = file \o buffer /\ buffer' = <<>>

(* The operation ends: entries that were to be appended are, if all went   *)
(* well or the caller does not look.                                       *)
Finish(ok) ==
  /\ log' = IF op.kind = "append" /\ (ok \/ ~op.mustSync) THEN log \o op.es ELSE log
  /\ Promise(currentTerm, votedFor, log')
  /\ op' = Idle
  /\ UNCHANGED <<up, currentTerm, votedFor, commitIndex, crashes>>

Sync ==
  /\ up /\ op.kind \in {"state", "append"}
  /\ Flushed
  /\ Finish(TRUE)
  /\ UNCHANGED <<writer, happened>>

(* fsync fails: the records are in the file all the same. *)
SyncFails ==
  /\ Happens({"error"})
  /\ up /\ op # Idle
  /\ Flushed
  /\ Finish(FALSE)
  /\ UNCHANGED writer

(* What the file may hold when writing the buffer was cut short: some of   *)
(* the records, and perhaps a part of the next.                            *)
PartlyWritten ==
  {file \o SubSeq(buffer, 1, k) : k \in 0 .. Len(buffer) - 1}

PartlyTorn == {Append(f, Torn) : f \in PartlyWritten}

(* Flush fails; bufio.Writer keeps the error and refuses all that follows. *)
FlushFails ==
  /\ up /\ op # Idle
  /\ \/ Happens({"error"}) /\ file' \in PartlyWritten
     \/ Happens({"error", "torn"}) /\ file' \in PartlyTorn
  /\ buffer' = <<>>
  /\ writer' = "broken"
  /\ Finish(FALSE)

-----------------------------------------------------------------------------
(* CommitTo, when the node learns that entries are committed. *)
Commit ==
  /\ Ready
  /\ \E i \in commitIndex + 1 .. Len(log) : commitIndex' = i
  /\ UNCHANGED <<up, currentTerm, votedFor, log, disk, op, crashes, happened, promised>>

(* Stop closes the file; Server.Stop closes the gRPC server only after it, *)
(* so that requests are still answered.                                    *)
Stop ==
  /\ Happens({"stop"})
  /\ Ready
  /\ writer' = "closed"
  /\ UNCHANGED <<up, memory, file, buffer, op, crashes, promised>>

(* The process dies, between two operations or before Sync is done. *)
Crash ==
  /\ up
  /\ crashes < MaxCrashes
  /\ LET here == IF op.kind = "rewrite" THEN {"rewrite"} ELSE {}
     IN  \/ Happens(here) /\ file' \in {file \o buffer} \cup PartlyWritten
         \/ Happens(here \cup {"torn"}) /\ file' \in PartlyTorn
  /\ up' = FALSE
  /\ buffer' = <<>> /\ writer' = "ok" /\ op' = Idle
  /\ crashes' = crashes + 1
  /\ UNCHANGED <<memory, promised>>

(* NewRaftNode: Open appends to the file as it is, ReadAll replays it. *)
Restart ==
  /\ ~up
  /\ up' = TRUE
  /\ currentTerm' = ReadState(file).term
  /\ votedFor'    = ReadState(file).vote
  /\ log'         = ReadEntries(file)
  /\ commitIndex' = 0
  /\ Promise(currentTerm', votedFor', log')
  /\ UNCHANGED <<disk, op, crashes, happened>>

Next ==
  \/ becomeFollower \/ becomeCandidate \/ GrantVote
  \/ Propose \/ becomeLeader \/ AppendMissing
  \/ OverwriteConflict \/ SyncRewrite
  \/ Sync \/ SyncFails \/ FlushFails
  \/ Commit \/ Stop \/ Crash \/ Restart

Spec == Init /\ [][Next]_vars

-----------------------------------------------------------------------------
(* Memory and file tell the same story whenever the node is ready for the  *)
(* next call: the order "file first, memory second" of every handler, the  *)
(* rewrite and the replay agree on what each record means.  A crash in the *)
(* middle of a rewrite loses records, of both.                             *)
MemoryOnDisk ==
  Ready /\ happened \subseteq {"rewrite"}
        => /\ ReadState(file) = StateRecord(currentTerm, votedFor)
           /\ ReadEntries(file) = log

(* raft/persistence.go:71, "If it crashes after Sync, the vote is durable  *)
(* - which prevents double voting on restart"; the same for the entries a  *)
(* follower acknowledged: whatever a caller was told, and no leader took   *)
(* back, is read back after a crash at any point.                          *)
PromisesKept ==
  ~up => LET s == ReadState(file)
             l == ReadEntries(file)
         IN  /\ s.term >= promised.term
             /\ s.term = promised.term => s.vote = promised.vote
                                          \/ promised.vote = NoNode
             /\ Len(l) >= Len(promised.log)
             /\ SubSeq(l, 1, Len(promised.log)) = promised.log

(* Where that does hold: as long as the process does nothing but crash,    *)
(* outside a rewrite and without leaving a part of a record.               *)
PromisesKeptUnlessFaulty == happened = {} => PromisesKept

(* Whatever goes wrong, a node never comes back ahead of itself: the term  *)
(* it reads back is one it had reached, and for its last term it reads     *)
(* back the vote it gave, or none, but never another node's.               *)
RecoveryNotAhead ==
  ~up => LET s == ReadState(file)
         IN  /\ s.term <= currentTerm
             /\ s.term = currentTerm => s.vote \in {NoNode, votedFor}

(* raft/log.go:20, an entry's index is its "position in the log, 1-based,  *)
(* always increases": also in a log that is read back.  An index that is   *)
(* not its position makes LastIndex and GetEntry disagree from then on.    *)
(* A crash in a rewrite and a closed file cost entries and keep the order. *)
(* The other faults do not: they make the file and the memory of a running *)
(* node differ, and the next entry is written with the index that is next  *)
(* in memory.                                                              *)
RecoveredInOrder ==
  happened \subseteq {"rewrite", "stop"} =>
    \A i \in DOMAIN ReadEntries(file) : ReadEntries(file)[i].index = i

=============================================================================

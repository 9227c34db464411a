------------------------------ MODULE RaftLog ------------------------------
(***************************************************************************)
(* The in-memory log of raft/log.go, as operators on a sequence.           *)
(*                                                                         *)
(* The code keeps a slice whose element 0 is a sentinel with index 0 and   *)
(* term 0.  Here the sentinel is left out: position i of the sequence is   *)
(* element i of the slice.  An entry still carries its own index, because  *)
(* the code reads both: LastIndex reads the Index FIELD of the last entry, *)
(* GetEntry reads a POSITION.  That the two always agree is a property     *)
(* (LogShape in module Raft), not an assumption of this module.             *)
(***************************************************************************)
EXTENDS Integers, Sequences, FiniteSetsExt

LastIndex(l) == IF l = <<>> THEN 0 ELSE l[Len(l)].index

LastTerm(l) == IF l = <<>> THEN 0 ELSE l[Len(l)].term

(* GetEntry succeeds on every position of the slice, the sentinel included. *)
HasEntry(l, i) == i \in 0 .. Len(l)

(* The term GetEntry(i) finds; the sentinel has term 0. *)
EntryTerm(l, i) == IF i = 0 THEN 0 ELSE l[i].term

(* GetEntries(from, LastIndex + 1): the suffix a leader sends. *)
EntriesFrom(l, from) == SubSeq(l, from, Len(l))

(* CommitTo: an index beyond the log is an error that every caller drops,  *)
(* a smaller index than the current one is a no-op.                        *)
CommitTo(l, commit, i) == IF i > Len(l) \/ i <= commit THEN commit ELSE i

(* TruncateFrom refuses to cut a committed entry. *)
MayTruncateAnything(commit, i) == i > 0  \* mutant: the check is dropped
MayTruncate(commit, i) == i > commit

TruncateAfter(l, i) == SubSeq(l, 1, i)  \* mutant: the conflicting entry stays
TruncateFrom(l, i) == SubSeq(l, 1, i - 1)

-----------------------------------------------------------------------------
(* The loop of handleAppendEntries over the incoming entries es stops at   *)
(* the first one the log does not have, or has with another term.          *)
Differs(l, e) == \/ ~HasEntry(l, e.index)
                 \/ EntryTerm(l, e.index) # e.term

Differing(l, es) == {k \in DOMAIN es : Differs(l, es[k])}

FirstDiffering(l, es) == Min(Differing(l, es))

(* The conflict rule of the follower: the entry is there, with another term. *)
Conflicts(l, es) ==
  /\ Differing(l, es) # {}
  /\ HasEntry(l, es[FirstDiffering(l, es)].index)

(* The log after the loop ran to its end: unchanged when nothing differs,   *)
(* otherwise cut at a conflict and extended by the rest of es.             *)
Merge(l, es) ==
  IF Differing(l, es) = {} THEN l
  ELSE LET k    == FirstDiffering(l, es)
           kept == IF Conflicts(l, es) THEN TruncateFrom(l, es[k].index) ELSE l
       IN  kept \o SubSeq(es, k, Len(es))

(* The shape every log should have: an entry carries its position, terms   *)
(* never decrease, none is above maxTerm.                                  *)
WellFormed(l, maxTerm) ==
  /\ \A i \in 1 .. Len(l) : l[i].index = i /\ l[i].term <= maxTerm
  /\ \A i, j \in 1 .. Len(l) : i <= j => l[i].term <= l[j].term

(* logIsUpToDate / isLogUpToDate: last term first, then last index. *)
UpToDate(lastTerm, lastIndex, l) ==
  IF lastTerm # LastTerm(l) THEN lastTerm > LastTerm(l)
                            ELSE lastIndex >= LastIndex(l)

(* Fast backtracking, follower side: the first index of the run of entries *)
(* with the term found at position i.                                      *)
FirstOfTermRun(l, i) ==
  Min({j \in 1 .. i : \A h \in j .. i : l[h].term = l[i].term})

(* Fast backtracking, leader side: just past the last entry of the         *)
(* reported term; when there is none the code falls back to the number of  *)
(* the TERM itself, used as an index.                                      *)
AfterLastOfTerm(l, t) ==
  LET S == {i \in 1 .. Len(l) : l[i].term = t}
  IN  IF S = {} THEN t ELSE Max(S) + 1
=============================================================================

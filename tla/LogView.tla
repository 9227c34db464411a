------------------------------ MODULE LogView ------------------------------
(***************************************************************************)
(* The log as the dashboard shows it (server/log.go): localView asks the   *)
(* node for its status, and after that for the last entries; LogSnapshot   *)
(* asks the log for its last index, and after that for the entries.  Each  *)
(* of the three looks at the node of ApplyPipeline at a time of its own.   *)
(*                                                                         *)
(* /api/cluster/log collects the views of all nodes as they are, with an   *)
(* error for a node that does not answer within 1 s.                       *)
(***************************************************************************)
EXTENDS ApplyPipeline

CONSTANT Limits  \* how many entries a viewer may ask for

ASSUME LimitAssumption == Limits \subseteq Nat \ {0}

VARIABLE view

viewVars == <<vars, view>>

(* cut is history: entries were removed between the two looks at the log.  *)
NoView == [step |-> "none", limit |-> 0, commit |-> 0, applied |-> 0, last |-> 0,
           cut |-> FALSE, entries |-> <<>>]

ViewInit == Init /\ view = NoView

(* localView's status, under n.mu. *)
Status ==
  /\ view.step = "none"
  /\ \E n \in Limits :
       view' = [NoView EXCEPT !.step = "status", !.limit = n,
                              !.commit = commitIndex, !.applied = lastApplied]
  /\ UNCHANGED vars

(* LogSnapshot: nothing to show, or the range is settled.  It does not     *)
(* take n.mu, and may find the log of a follower that is being rewritten,  *)
(* some entries removed and the new ones not there yet.                    *)
LastIndex ==
  /\ view.step = "status"
  /\ \E l \in IF leader THEN {Len(log)} ELSE commitIndex .. Len(log) :
       view' = [view EXCEPT !.step = IF l = 0 THEN "shown" ELSE "last", !.last = l]
  /\ UNCHANGED vars

First(v) == IF v.limit < v.last THEN v.last - v.limit + 1 ELSE 1

(* GetEntries refuses a range that the log no longer has, or did not have  *)
(* for a moment.                                                           *)
GetEntries ==
  /\ view.step = "last"
  /\ \/ /\ view.last <= Len(log)
        /\ view' = [view EXCEPT !.step = "shown",
                                !.entries = SubSeq(log, First(view), view.last)]
     \/ /\ view.cut
        /\ view' = [view EXCEPT !.step = "shown"]
  /\ UNCHANGED vars

LookEntriesFirst ==  \* mutant: the status is asked for last
  \/ /\ view.step = "none" /\ log # <<>>
     /\ \E n \in Limits :
          view' = [NoView EXCEPT !.step = "last", !.limit = n, !.last = Len(log)]
     /\ UNCHANGED vars
  \/ GetEntries
  \/ /\ view.step = "shown"
     /\ view' = [view EXCEPT !.commit = commitIndex, !.applied = lastApplied]
     /\ UNCHANGED vars
Look == Status \/ LastIndex \/ GetEntries

(* The node goes on meanwhile. *)
Work == /\ Next
        /\ view' = IF view.step = "last"
                      /\ \E i \in DOMAIN log : i > Len(log') \/ log'[i] # log[i]
                   THEN [view EXCEPT !.cut = TRUE] ELSE view

ViewNext == Look \/ Work

ViewSpec == ViewInit /\ [][ViewNext]_viewVars

-----------------------------------------------------------------------------
(* The entries that the view calls committed, or applied. *)
Shown(i) == {view.entries[j] : j \in {k \in DOMAIN view.entries :
                                        view.entries[k].index <= i}}

CommittedShown ==
  /\ \A e \in Shown(view.commit) : e.index <= commitIndex /\ log[e.index] = e
  /\ \A e \in Shown(view.applied) : \E h \in DOMAIN Arrived : Arrived[h] = e.index

TailShown ==
  view.step = "shown" =>
    IF view.entries = <<>> THEN view.last = 0 \/ view.cut
    ELSE /\ \A j \in DOMAIN view.entries :
              view.entries[j].index = view.last - Len(view.entries) + j
         /\ Len(view.entries) = Min({view.limit, view.last})

(* What the dashboard shows holds.  An entry shown as committed is         *)
(* committed and stays in the log, though it was read after the commit     *)
(* index and other leaders may have rewritten the log in between; what is  *)
(* shown as applied has been sent to the state machine.  A view has the    *)
(* last entries without a gap; it is empty only if the log was, or if      *)
(* entries were removed while it was made.                                 *)
ViewHolds == CommittedShown /\ TailShown
=============================================================================

---------------------------- MODULE MCRaftClaims ----------------------------
(***************************************************************************)
(* Where the code breaks what the repository says of it.                   *)
(*                                                                         *)
(* The constraints are for the run about backtracking, which needs three   *)
(* leaders in a row: one of term 1 that reaches nobody, one of term 2 with *)
(* the third node's vote, and the first one again, in term 3.  They leave  *)
(* out behaviours on the way there and change none.                        *)
(***************************************************************************)
EXTENDS Raft

Alive == {x \in Node \X Slot : campaigns[x[1]][x[2]].pc # "idle"}

(* One campaign at a time, whose vote requests end with it, and no         *)
(* AppendEntries on its way while it runs.                                 *)
OneCampaign ==
  /\ Cardinality(Alive) <= 1
  /\ IF Alive = {} THEN voteRequests = {}
                   ELSE appendRequests = {} /\ appendResponses = {}
  /\ \A m \in voteRequests : CallerWaits(m)

(* Before the last term leaders reach only those who campaign too, and     *)
(* from the start of the log; in term 1 only to learn of a newer term.     *)
FewReached ==
  /\ \A m \in appendRequests :
       \/ m.term = MaxTerm
       \/ /\ m.to \in Campaigners /\ m.prevIndex = 0
          /\ m.term = 1 => m.term < currentTerm[m.to]
  /\ \A n \in Node \ Campaigners : log[n] # <<>> => currentTerm[n] = MaxTerm

(* Term 2 goes to a node that heard nothing, the last one to the leader of *)
(* term 1.                                                                 *)
InTurn ==
  \A n \in Node :
    /\ currentTerm[n] = 2 /\ state[n] = "Candidate" => log[n] = <<>>
    /\ currentTerm[n] = MaxTerm /\ state[n] # "Follower" =>
         log[n] # <<>> /\ log[n][1].term = 1
=============================================================================

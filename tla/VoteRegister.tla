---------------------------- MODULE VoteRegister ----------------------------
(***************************************************************************)
(* What the durable pair (currentTerm, votedFor) of a node promises, with  *)
(* everything else left out.  The term never goes back; within a term the  *)
(* vote, once cast, is never changed or withdrawn; a new term starts with  *)
(* no vote, or with the node's own.                                        *)
(***************************************************************************)
EXTENDS Integers

CONSTANTS Node, NoNode

VARIABLES term, vote

RegisterInit == /\ term = [n \in Node |-> 0]
                /\ vote = [n \in Node |-> NoNode]

(* A later term is heard of, from a leader or in a reply. *)
EnterTerm(n) ==
  /\ term'[n] > term[n]
  /\ term' = [term EXCEPT ![n] = term'[n]]
  /\ vote' = [vote EXCEPT ![n] = NoNode]

(* The node stands for election. *)
Stand(n) ==
  /\ term' = [term EXCEPT ![n] = @ + 1]
  /\ vote' = [vote EXCEPT ![n] = n]

(* The node votes for c. *)
Cast(n, c) ==
  /\ vote[n] = NoNode
  /\ vote' = [vote EXCEPT ![n] = c]
  /\ UNCHANGED term

RegisterNext == \E n \in Node : \/ EnterTerm(n)
                                \/ Stand(n)
                                \/ \E c \in Node : Cast(n, c)

RegisterSpec == RegisterInit /\ [][RegisterNext]_<<term, vote>>
=============================================================================

-------------------------- MODULE MCRaftElections --------------------------
(* Elections, crashes and progress on two nodes. *)
EXTENDS RaftRestart

CONSTANT Second  \* a slot: the goroutine that a second timeout starts

Alive == {x \in Node \X Slot : campaigns[x[1]][x[2]].pc # "idle"}

(* One node may have a second campaign alive, a pre-vote, in its first     *)
(* term and before it crashes, while no AppendEntries is on its way.       *)
FewGoroutines ==
  \A n \in Node :
    campaigns[n][Second].pc # "idle" =>
      /\ n \in Crashers /\ currentTerm[n] <= MaxCrashTerm /\ restarts = 0
      /\ campaigns[n][Second].preVote
      /\ appendRequests = {} /\ appendResponses = {}
      /\ Cardinality(Alive) <= 2

(* A behaviour with a crash stays in the terms in which nodes crash. *)
CrashInEarlyTerms ==
  restarts > 0 => \A n \in Node : currentTerm[n] <= MaxCrashTerm
=============================================================================

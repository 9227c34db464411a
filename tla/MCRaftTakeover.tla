--------------------------- MODULE MCRaftTakeover ---------------------------
(* Nodes that take leadership from each other. *)
EXTENDS RaftLogMatching, TLC

(* The nodes that may campaign are interchangeable. *)
NodeSymmetry == Permutations(Campaigners)

Alive == {x \in Node \X Slot : campaigns[x[1]][x[2]].pc # "idle"}

(* At most one campaign goroutine alive in the cluster, whose vote requests *)
(* are delivered or lost before it ends, and no response of AppendEntries  *)
(* on its way while it runs; requests may be.                              *)
OneCampaign ==
  /\ Cardinality(Alive) <= 1
  /\ IF Alive = {} THEN voteRequests = {} ELSE appendResponses = {}

(* A behaviour with a crash stays below the last term. *)
CrashInEarlyTerms == restarts > 0 => \A n \in Node : currentTerm[n] < MaxTerm
=============================================================================

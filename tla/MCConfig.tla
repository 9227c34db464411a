----------------------------- MODULE MCConfig -----------------------------
(* The endpoints for timings, for TLC. *)
EXTENDS ConfigAPI

MCInitial == [et |-> 6, hb |-> 3]

(* A heartbeat, with an election timeout too long to be represented; an     *)
(* election timeout, with a heartbeat that turns negative.                  *)
MCAsked == {[et |-> 43, hb |-> 4], [et |-> 4, hb |-> 22]}

MCUpdate == (1 .. MaxOrders) \X Node
=============================================================================

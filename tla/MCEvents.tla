----------------------------- MODULE MCEvents -----------------------------
(* The stream of events on a small cluster. *)
EXTENDS EventStream
=============================================================================

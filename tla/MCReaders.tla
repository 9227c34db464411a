----------------------------- MODULE MCReaders -----------------------------
(* The map and the log as readers see them, for TLC. *)
EXTENDS LogView
=============================================================================

------------------------------- MODULE MCWAL -------------------------------
(* The write-ahead log on small instances. *)
EXTENDS RaftWAL
=============================================================================

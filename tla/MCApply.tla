------------------------------ MODULE MCApply ------------------------------
(* The apply pipeline on small instances. *)
EXTENDS ApplyPipeline
=============================================================================

------------------------------ MODULE MCKeys ------------------------------
(* The key endpoints on a small cluster. *)
EXTENDS KeyAPI
=============================================================================

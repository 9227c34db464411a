----------------------------- MODULE MCInjector -----------------------------
(* The chaos injector, for TLC. *)
EXTENDS ChaosInjector
=============================================================================

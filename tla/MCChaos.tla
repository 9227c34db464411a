------------------------------ MODULE MCChaos ------------------------------
(* The chaos endpoints on a small cluster. *)
EXTENDS ChaosAPI

CONSTANT Target

(* What a user applies.  Parameters were JSON, in which no number is an    *)
(* int.                                                                    *)
AppliedRules == {RuleTo(Any, "pass", "none"), RuleTo(Target, "drop", "none"),
                 RuleTo(Any, "delay", "float64"), RuleTo(Target, "loss", "float64")}
=============================================================================

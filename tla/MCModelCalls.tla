---------------------------- MODULE MCModelCalls ----------------------------
(* The instance of ModelCalls that TLC checks. *)
EXTENDS ModelCalls, TLC
=============================================================================

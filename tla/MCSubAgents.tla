----------------------------- MODULE MCSubAgents -----------------------------
(* The instance of SubAgents that TLC checks. *)
EXTENDS SubAgents, TLC
=============================================================================

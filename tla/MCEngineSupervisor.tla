------------------------- MODULE MCEngineSupervisor -------------------------
(* Small instances of EngineSupervisor. *)
EXTENDS EngineSupervisor
=============================================================================

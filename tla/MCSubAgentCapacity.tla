------------------------- MODULE MCSubAgentCapacity -------------------------
(* Small instances of the capacity ledger; the constants are in the .cfg.    *)
EXTENDS SubAgentCapacity
=============================================================================

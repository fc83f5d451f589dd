----------------------------- MODULE MCTakeover -----------------------------
EXTENDS Takeover
(* Two decisions of the user, one refresh that fails, and one action of      *)
(* either kind: each overtakes the other's refreshes.                        *)
=============================================================================

------------------------------ MODULE MCOutcomes ------------------------------
(* The instances of Outcomes that TLC checks: two tasks that may run side by *)
(* side, and a task that waits for another and that the model may call done. *)
EXTENDS Outcomes, TLC
MCFree == [t \in Tasks |-> {}]
MCAfter == [t \in Tasks |-> IF t = "u" THEN {"t"} ELSE {}]
MCUpdates == {[task |-> "u", status |-> "completed", owner |-> "nobody"]}
=============================================================================

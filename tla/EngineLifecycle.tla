-------------------------- MODULE EngineLifecycle --------------------------
(***************************************************************************)
(* What the engine supervisor promises the rest of the desktop app: every  *)
(* launch has a number used once, at most one launch is current, the mode  *)
(* says whether one is, an engine serves only after it started, only a     *)
(* closed supervisor is final, and nothing is launched after that.          *)
(***************************************************************************)
EXTENDS Naturals

VARIABLES mode, current, launched

vars == <<mode, current, launched>>
None == 0
Held == {"starting", "serving", "stopping"}

Init == mode = "off" /\ current = None /\ launched = 0

\* The user or the restart timer launches an engine in the place of any other.
Launch ==
  /\ mode # "closed"
  /\ launched' = launched + 1
  /\ \/ mode' = "starting" /\ current' = launched + 1
     \/ mode' \in {"waiting", "failed"} /\ current' = None

Serve ==
  /\ mode = "starting"
  /\ mode' = "serving"
  /\ UNCHANGED <<current, launched>>

\* Only the death of the current engine ends its mode; a stopped one stays off.
Die ==
  /\ mode \in Held
  /\ mode' \in IF mode = "stopping" THEN {"off"} ELSE {"waiting", "failed", "off"}
  /\ current' = None
  /\ UNCHANGED launched

Stop ==
  /\ mode # "closed"
  /\ mode' = IF mode \in Held THEN "stopping" ELSE "off"
  /\ UNCHANGED <<current, launched>>

Close ==
  /\ mode' = "closed"
  /\ current' = None
  /\ UNCHANGED launched

Next == Launch \/ Serve \/ Die \/ Stop \/ Close

Spec == Init /\ [][Next]_vars

\* An engine is current exactly while the mode says so, and it is the last launched.
CurrentIsLast == current = (IF mode \in Held THEN launched ELSE None)
=============================================================================

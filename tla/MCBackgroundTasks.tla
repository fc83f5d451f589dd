-------------------------- MODULE MCBackgroundTasks --------------------------
(***************************************************************************)
(* Instances of BackgroundTasks for TLC: two engines that run one after    *)
(* the other and two tasks in all, or three that run at once and one task. *)
(***************************************************************************)
EXTENDS BackgroundTasks

MCEngines == {"e1", "e2"}
MCOverlapping == {"e1", "e2", "e3"}
=============================================================================

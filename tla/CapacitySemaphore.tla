------------------------- MODULE CapacitySemaphore -------------------------
(***************************************************************************)
(* What the capacity coordinator promises: a counting semaphore that all   *)
(* processes see change at once.  A lease is taken only while fewer than   *)
(* Limit are, it stays taken until its holder gives it back, lets it lapse  *)
(* or dies, and no process's operation disturbs the lease of another.      *)
(***************************************************************************)
EXTENDS Naturals, FiniteSets

CONSTANTS Leases, Holder(_), Limit

VARIABLES
  taken,     \* leases that count against the limit
  running    \* leases whose sub-agents run

vars == <<taken, running>>

Init == taken = {} /\ running = {}

Grant(l) ==
  /\ l \notin taken \union running
  /\ Cardinality(taken) < Limit
  /\ taken' = taken \union {l}
  /\ running' = running \union {l}

\* The sub-agent has ended; its lease counts until it is given back.
Finish(l) ==
  /\ l \in running
  /\ running' = running \ {l}
  /\ UNCHANGED taken

GiveBack(l) ==
  /\ l \in taken \ running
  /\ taken' = taken \ {l}
  /\ UNCHANGED running

\* Without a heartbeat in time a lease stops to count, whether or not its sub-agent runs.
Lapse(l) ==
  /\ l \in taken
  /\ taken' = taken \ {l}
  /\ UNCHANGED running

\* A heartbeat at the last moment: a lapsed lease counts again, if there is room for it.
Revive(l) ==
  /\ l \in running \ taken
  /\ Cardinality(taken) < Limit
  /\ taken' = taken \union {l}
  /\ UNCHANGED running

Die(p) ==
  /\ taken' = {l \in taken : Holder(l) # p}
  /\ running' = {l \in running : Holder(l) # p}

Next ==
  \/ \E l \in Leases : Grant(l) \/ Finish(l) \/ GiveBack(l) \/ Lapse(l) \/ Revive(l)
  \/ \E l \in Leases : Die(Holder(l))

Spec == Init /\ [][Next]_vars
=============================================================================

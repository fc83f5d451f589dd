------------------------------ MODULE SubAgents ------------------------------
(***************************************************************************)
(* The sub-agents of one engine: SubAgentManager.spawnWorker, its board,   *)
(* the agent-tree checkpoint and the recovery after a crash of the engine. *)
(*                                                                          *)
(* Each handler runs to its end on the engine's thread and is one action;  *)
(* what a worker posts waits in "inbox" until it is delivered, so the      *)
(* timeout, a stop, a message and an exit race to settle one agent.  A     *)
(* resumed agent keeps the name of the one it continues.  Phases, tool     *)
(* counts, spans and the journal are left out; the capacity slot is a flag *)
(* here (SubAgentCapacity has its lease).                                  *)
(***************************************************************************)
EXTENDS Naturals, Sequences

CONSTANTS
  Agents,      \* the sub-agents spawned
  Isolated,    \* those with worktree isolation
  Transports,  \* subset of {"thread", "process"}: Node, the bun binary
  MaxCrashes   \* bound on the crashes of the engine

ASSUME SubAgentsAssumption ==
  /\ Isolated \subseteq Agents
  /\ Transports \subseteq {"thread", "process"} /\ MaxCrashes \in Nat

VARIABLES
  transport,  \* how this build runs a worker
  up,         \* the engine runs
  crashes,    \* crashes so far
  fresh,      \* agents not spawned yet
  worker,     \* the thread or process: none, alive, doomed (to die), dead
  orphan,     \* a worker process that outlived its engine
  inbox,      \* what the worker posted and the engine has not handled
  board,      \* SubAgentBlackboard: none, running, done, failed
  promise,    \* what spawnWorker returned: none, pending, resolved, rejected
  config,     \* spawnConfigs
  slot,       \* agents that hold a capacity slot
  tree,       \* the worktree: none, open, kept, removed
  edits,      \* the changes in it: none, dirty, committed
  overdue,    \* history: agents that timed out
  file,       \* agents that agent-tree.json records as running
  cache,      \* crashedCache
  resuming    \* crashed agents consumed, to be respawned

engine == <<transport, up, crashes, fresh>>
work == <<worker, orphan, inbox>>
record == <<board, promise, config>>
checkout == <<tree, edits, overdue>>
recovery == <<file, cache, resuming>>
vars == <<engine, work, record, slot, checkout, recovery>>

Settled(a) == promise[a] \in {"resolved", "rejected"}
\* The engine's thread is free: respawning is one turn of the event loop.
Turn == up /\ resuming = {}

-----------------------------------------------------------------------------
(* Parts of the handlers. *)

\* emitBoard: the checkpoint of the agents that have a spawn config.
EmitBoard == file' = {a \in config' : board'[a] = "running"}

Mark(a, status) == board' = [board EXCEPT ![a] = status]
Answer(a, outcome) == promise' = [promise EXCEPT ![a] = outcome]
\* Mutant: the spawn config of a settled agent stays.
BugForget(a) == UNCHANGED config

Forget(a) == config' = config \ {a}

\* Mutant: only the working tree is looked at, a commit is not seen.
BugChanged(a) == edits[a] = "dirty"

\* settleWorktree's test.
Changed(a) == edits[a] # "none"

\* settleIsolation: a worker that is still alive may edit between its two git
\* commands, and the removal is forced.
SettleIsolation(a) ==
  IF tree[a] # "open" THEN UNCHANGED <<tree, edits>>
  ELSE IF Changed(a) THEN tree' = [tree EXCEPT ![a] = "kept"] /\ UNCHANGED edits
  ELSE /\ tree' = [tree EXCEPT ![a] = "removed"]
       /\ \/ UNCHANGED edits
          \/ /\ worker[a] \in {"alive", "doomed"} \/ orphan[a] = "alive"
             /\ edits' = [edits EXCEPT ![a] = "dirty"]

\* Mutant: the slot stays when a worker fails.
BugFinish(a, status, outcome) ==
  /\ Mark(a, status) /\ Forget(a) /\ EmitBoard
  /\ SettleIsolation(a)
  /\ Answer(a, outcome)
  /\ slot' = IF outcome = "resolved" THEN slot \ {a} ELSE slot

\* The common end of a handler that settles: board, checkpoint, worktree, slot.
Finish(a, status, outcome) ==
  /\ Mark(a, status) /\ Forget(a) /\ EmitBoard
  /\ SettleIsolation(a)
  /\ Answer(a, outcome)
  /\ slot' = slot \ {a}

-----------------------------------------------------------------------------
(* spawnWorker. *)

\* Mutant: the checkpoint is written before the config is known.
BugRegister(a) ==
  /\ Mark(a, "running") /\ config' = config \cup {a}
  /\ file' = {x \in config : board'[x] = "running"}

Register(a) == Mark(a, "running") /\ config' = config \cup {a} /\ EmitBoard

Start(a) ==
  /\ Register(a)
  /\ Answer(a, "pending") /\ slot' = slot \cup {a}
  /\ worker' = [worker EXCEPT ![a] = "alive"]
  /\ inbox' = [inbox EXCEPT ![a] = <<>>]

\* No capacity, or no worktree although one is required: nothing is registered.
Refused(a) ==
  /\ Answer(a, "rejected")
  /\ UNCHANGED <<board, config, slot, file, worker, inbox>>

\* createHandle throws: registered, then marked failed.
HandleThrows(a) ==
  /\ Mark(a, "failed") /\ UNCHANGED config /\ EmitBoard
  /\ Answer(a, "rejected")
  /\ UNCHANGED <<slot, worker, inbox>>

\* It may fail: then the agent runs unisolated.
CreateWorktree(a) ==
  \/ UNCHANGED tree
  \/ a \in Isolated /\ tree' = [tree EXCEPT ![a] = "open"]

Spawn(a) ==
  /\ Turn /\ a \in fresh
  /\ fresh' = fresh \ {a}
  /\ \/ (Refused(a) \/ HandleThrows(a)) /\ UNCHANGED tree
     \/ Start(a) /\ CreateWorktree(a)
  /\ UNCHANGED <<transport, up, crashes, orphan, edits, overdue, cache, resuming>>

-----------------------------------------------------------------------------
(* The worker. *)

Post(a, events) == inbox' = [inbox EXCEPT ![a] = @ \o events]
Running(a) == worker[a] \in {"alive", "doomed"}

Edit(a) ==
  /\ Running(a) \/ orphan[a] = "alive"
  /\ tree[a] = "open"
  /\ \E e \in {"dirty", "committed"} : edits' = [edits EXCEPT ![a] = e]
  /\ UNCHANGED <<engine, work, record, slot, tree, overdue, recovery>>

\* runWorker, runAsSubprocess: the result or the error, then the exit (that of
\* a process may be heard before its output); it releases its slot itself.
Report(a) ==
  /\ Running(a)
  /\ \/ Post(a, <<"success", "exit0">>)
     \/ transport = "thread" /\ Post(a, <<"error", "exit0">>)
     \/ /\ transport = "process"
        /\ \/ Post(a, <<"error", "exit1">>)
           \/ Post(a, <<"exit1", "error">>)
           \/ Post(a, <<"exit0", "success">>)
  /\ worker' = [worker EXCEPT ![a] = "dead"] /\ slot' = slot \ {a}
  /\ UNCHANGED <<engine, orphan, record, checkout, recovery>>

\* It dies: an uncaught exception of a thread; a process may end by a signal,
\* whose exit code is null and counts as 0.  terminate() of a thread that
\* timed out resolves however the thread ends.
Die(a) ==
  /\ Running(a)
  /\ \/ transport = "thread" /\ Post(a, <<"uncaught", "exit1">>)
     \/ transport = "process" /\ Post(a, <<"exit1">>)
     \/ transport = "process" /\ Post(a, <<"exit0">>)
  /\ worker' = [worker EXCEPT ![a] = "dead"]
  /\ slot' = IF Settled(a) THEN slot \ {a} ELSE slot
  /\ UNCHANGED <<engine, orphan, record, checkout, recovery>>

\* terminate() takes effect.  After a timeout the slot goes when it has.
Killed(a) ==
  /\ worker[a] = "doomed"
  /\ worker' = [worker EXCEPT ![a] = "dead"]
  /\ Post(a, IF transport = "thread" THEN <<"exit1">> ELSE <<"exit0">>)
  /\ slot' = IF Settled(a) THEN slot \ {a} ELSE slot
  /\ UNCHANGED <<engine, orphan, record, checkout, recovery>>

-----------------------------------------------------------------------------
(* The engine's handlers. *)

Handled(a) == inbox' = [inbox EXCEPT ![a] = Tail(@)]
Head1(a, event) == Turn /\ inbox[a] # <<>> /\ Head(inbox[a]) = event
HandlerFrame == UNCHANGED <<engine, worker, orphan, overdue, cache, resuming>>

\* if (settled) return
Open(a) == ~Settled(a)

OnSuccess(a) ==
  /\ Head1(a, "success") /\ Open(a)
  \* The changes of the worktree cannot be read, or leave the owned scope.
  /\ \/ tree[a] = "open" /\ Finish(a, "failed", "rejected")
     \/ Finish(a, "done", "resolved")
  /\ Handled(a) /\ HandlerFrame

\* Mutant: the error handler leaves the board alone.
BugOnFailure(a) ==
  /\ \E event \in {"error", "uncaught", "exit1"} : Head1(a, event)
  /\ Open(a)
  /\ Finish(a, IF Head(inbox[a]) = "uncaught" THEN board[a] ELSE "failed", "rejected")
  /\ Handled(a) /\ HandlerFrame

OnFailure(a) ==
  /\ \E event \in {"error", "uncaught", "exit1"} : Head1(a, event)
  /\ Open(a)
  /\ Finish(a, "failed", "rejected")
  /\ Handled(a) /\ HandlerFrame

\* A clean exit without a result: resolved, and the board is left as it is.
OnQuietExit(a) ==
  /\ Head1(a, "exit0") /\ Open(a)
  /\ SettleIsolation(a) /\ Forget(a)
  /\ Answer(a, "resolved") /\ slot' = slot \ {a}
  /\ UNCHANGED <<board, file>>
  /\ Handled(a) /\ HandlerFrame

\* After the settlement a message or an exit changes nothing.
Ignore(a) ==
  /\ Turn /\ inbox[a] # <<>> /\ ~Open(a)
  /\ Handled(a)
  /\ HandlerFrame /\ UNCHANGED <<record, slot, tree, edits, file>>

Timeout(a) ==
  /\ Turn /\ promise[a] = "pending"
  /\ overdue' = overdue \cup {a}
  /\ Mark(a, "failed") /\ Forget(a) /\ EmitBoard
  /\ SettleIsolation(a)
  /\ Answer(a, "rejected")
  /\ worker' = [worker EXCEPT ![a] = IF @ = "alive" THEN "doomed" ELSE @]
  \* terminate() of a process returns at once, of a thread when it has ended.
  /\ slot' = IF transport = "process" \/ worker[a] = "dead" THEN slot \ {a} ELSE slot
  /\ UNCHANGED <<engine, orphan, inbox, cache, resuming>>

\* TasksTool's stop: killWorker and markFailed; the promise settles at the exit.
Stop(a) ==
  /\ Turn /\ board[a] = "running"
  /\ worker' = [worker EXCEPT ![a] = IF @ = "alive" THEN "doomed" ELSE @]
  /\ Mark(a, "failed")
  /\ UNCHANGED <<engine, orphan, inbox, promise, config, slot, checkout, recovery>>

-----------------------------------------------------------------------------
(* The engine crashes, another starts and resumes the agents of the first. *)

Nothing(value) == [a \in Agents |-> value]

\* Threads die with the engine; a worker process may go on, unheard.
Crash ==
  /\ up /\ crashes < MaxCrashes
  /\ up' = FALSE /\ crashes' = crashes + 1
  /\ orphan' = [ a \in Agents |->
       IF transport = "process" /\ Running(a) THEN "alive" ELSE orphan[a] ]
  /\ worker' = Nothing("none") /\ inbox' = Nothing(<<>>)
  /\ board' = Nothing("none") /\ promise' = Nothing("none") /\ config' = {}
  /\ cache' = {} /\ resuming' = {}
  /\ UNCHANGED <<transport, fresh, slot, checkout, file>>

\* detectCrashedTree, at boot.
Boot ==
  /\ ~up
  /\ up' = TRUE /\ cache' = file
  /\ UNCHANGED <<transport, crashes, fresh, work, record, slot, checkout, file, resuming>>

\* /subagents resume: consumeCrashedAgents, then one spawn after the other.
Consume ==
  /\ Turn /\ cache # {}
  /\ resuming' = cache /\ cache' = {} /\ file' = {}
  /\ UNCHANGED <<engine, work, record, slot, checkout>>

\* A resumed agent continues in its checkpointed worktree if that is valid;
\* when capacity or createHandle refuses it, the worktree is settled.
Respawn(a) ==
  /\ up /\ a \in resuming
  /\ resuming' = resuming \ {a}
  /\ \/ Refused(a) /\ UNCHANGED <<tree, edits>>
     \/ (Refused(a) \/ HandleThrows(a)) /\ SettleIsolation(a)
     \/ Start(a) /\ tree[a] = "none" /\ CreateWorktree(a) /\ UNCHANGED edits
     \/ /\ Start(a) /\ tree[a] \in {"open", "kept"} /\ UNCHANGED edits
        /\ tree' = [tree EXCEPT ![a] = "open"]
  /\ UNCHANGED <<engine, orphan, overdue, cache>>

OrphanEnds(a) ==
  /\ orphan[a] = "alive"
  /\ orphan' = [orphan EXCEPT ![a] = "ended"]
  /\ UNCHANGED <<engine, worker, inbox, record, slot, checkout, recovery>>

\* The lease of an agent whose engine is gone expires.
SlotExpires(a) ==
  /\ a \in slot /\ worker[a] = "none" /\ orphan[a] # "alive"
  /\ slot' = slot \ {a}
  /\ UNCHANGED <<engine, work, record, checkout, recovery>>

-----------------------------------------------------------------------------
Init ==
  /\ transport \in Transports /\ up = TRUE /\ crashes = 0 /\ fresh = Agents
  /\ worker = Nothing("none") /\ orphan = Nothing("none") /\ inbox = Nothing(<<>>)
  /\ board = Nothing("none") /\ promise = Nothing("none") /\ config = {}
  /\ slot = {} /\ overdue = {} /\ tree = Nothing("none") /\ edits = Nothing("none")
  /\ file = {} /\ cache = {} /\ resuming = {}

Deliver(a) == OnSuccess(a) \/ OnFailure(a) \/ OnQuietExit(a) \/ Ignore(a)

Next ==
  \/ \E a \in Agents :
       \/ Spawn(a) \/ Edit(a) \/ Report(a) \/ Die(a) \/ Killed(a)
       \/ Deliver(a) \/ Timeout(a) \/ Stop(a)
       \/ Respawn(a) \/ OrphanEnds(a) \/ SlotExpires(a)
  \/ Crash \/ Boot \/ Consume

Spec == Init /\ [][Next]_vars

\* Events are delivered, a terminated worker ends, a stale lease expires, the
\* watchdog goes off.
FairSpec ==
  /\ Spec
  /\ \A a \in Agents :
       /\ WF_vars(Deliver(a)) /\ WF_vars(Killed(a)) /\ WF_vars(Timeout(a))
       /\ WF_vars(SlotExpires(a)) /\ WF_vars(OrphanEnds(a)) /\ WF_vars(Respawn(a))
  /\ WF_vars(Boot)

-----------------------------------------------------------------------------
(* Properties. *)

\* The shape of the state; a spawn config is there for the agents under way.
TypeOK ==
  /\ config = {a \in Agents : promise[a] = "pending"}
  /\ transport \in Transports /\ up \in BOOLEAN /\ crashes \in 0..MaxCrashes
  /\ worker \in [Agents -> {"none", "alive", "doomed", "dead"}]
  /\ orphan \in [Agents -> {"none", "alive", "ended"}]
  /\ inbox \in [Agents -> Seq({"success", "error", "uncaught", "exit0", "exit1"})]
  /\ board \in [Agents -> {"none", "running", "done", "failed"}]
  /\ promise \in [Agents -> {"none", "pending", "resolved", "rejected"}]
  /\ tree \in [Agents -> {"none", "open", "kept", "removed"}]
  /\ edits \in [Agents -> {"none", "dirty", "committed"}]
  /\ overdue \subseteq Agents /\ fresh \subseteq Agents /\ slot \subseteq Agents
  /\ file \subseteq Agents /\ cache \subseteq Agents /\ resuming \subseteq Agents
  /\ resuming # {} => up

Tells(a) ==
  /\ promise[a] = "resolved" => board[a] = "done"
  /\ promise[a] = "rejected" => board[a] \in {"none", "failed"}

\* What the caller is told of an agent is what the board says of it, whichever
\* of message, exit, stop and timeout comes first (worker threads).
BoardTellsOutcome == transport = "thread" => \A a \in Agents : Tells(a)

Unsettled == {a \in Agents : board[a] = "running" /\ ~Settled(a)}

\* A crash at any moment finds every unsettled agent in the checkpoint, until
\* a resume consumes it.
CheckpointCovers == crashes = 0 => Unsettled \subseteq file

\* A worktree with changes is removed only when the agent had timed out and
\* was still at work, or a worker of the crashed engine was.
EditsKept ==
  \A a \in Agents :
    tree[a] = "removed" /\ edits[a] # "none" => a \in overdue \/ orphan[a] # "none"

\* The slot of a settled agent comes back.
SlotReturned == \A a \in Agents : Settled(a) ~> a \notin slot

\* Not kept by the code.  A worker that died is not reported as done, nor left running on
\* the board (the exit handler's comment).
DeathIsTold == \A a \in Agents : Tells(a)

\* Not kept by the code.  A resume consumes the old snapshot and never deletes a live
\* checkpoint (consumeCrashedAgents): when what it respawns is refused, the
\* agents spawned since the boot are in no checkpoint.
LiveCheckpointKept == Turn => Unsettled \subseteq file
=============================================================================

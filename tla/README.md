# Bimax in TLA+

Bimax is an agent for software work: a headless engine in TypeScript that runs
turns of a language model with tools, a desktop app (Electron) and a terminal
interface that drive the engine over a line protocol, and native drivers for
computer use. This directory specifies the parts of it whose correctness is a
matter of *order*: who runs when, what a crash leaves behind, which of two
processes wins. TLC checks the specifications on small instances; TLAPS proves
the main safety properties for every value of the constants.

## 1. Inventory

| Component | State it keeps | Operations | Interacts with | What is hard |
|---|---|---|---|---|
| **Engine supervisor** `app/src/main/supervisor/`, `app/src/main/engine.ts` | phase, launch generation, held child, verdict, crash history, profile floor, queue, pending resume, timers | open project, stop, dispose, retry, restart safe, start minimal, resume, queue a read; engine messages, exit, error; restart, kill and watchdog timers | renderer (requests, status), engine processes, crash journal | a superseded engine goes on talking and exiting; timers fire after what they were armed for; illegal phase moves are swallowed |
| **Sub-agent capacity** `src/core/subagent.capacity.ts` | a lock file, a ledger file of leases | acquire, heartbeat, release, active | every engine process of an agent tree, sub-agent manager, spawn tool | no operating-system lock: `O_EXCL`, file age and unlink; processes die inside the section |
| **Background tasks** `src/core/task.registry.ts`, `execution.ledger.ts`, `shell.tasks.ts` | registry of one engine, append-only ledger of the workspace | create, cancel, pause, resume, close, clear, retry; timeout; exit and spawn error; recovery at start; compaction | shell process groups, browser runtime, headless entry, `/tasks` | exit events race user commands; a ledger shared by engines and compacted by age; process groups outlive the engine |
| **Sub-agent manager** `src/core/subagent.manager.ts`, `agent.checkpoint.ts` | board, promises, spawn configs, slots, worktrees, `agent-tree.json` | spawn; message, exit, timeout, stop; detect and resume after a crash | capacity, worktrees, worker threads or processes | message, exit, timeout and stop race to settle one agent; a crash at any moment |
| **Model calls** `src/core/llm.adapter.ts` with `governor/budget.veto.ts`, `credits/api.key.manager.ts`, `core/circuit-breaker.ts` | reservations and spend of the day; cool-downs; breaker window and probe | `chat` stream and one-shot calls: admit, pick a key, reserve, settle, report | agent loop, providers, spend file | consumers that stop at a yield, saves that fail after they counted, midnight during a call |
| **Outcomes and continuation** `src/outcome/`, `src/protocol/headless.entry.ts` | contract, delegated tasks, evidence, continuation, wake loop | assign, update, retry, validate, integrate, check, finish; worker settles; wake; clear, resume, crash | sub-agents, tools, session recorder | results that settle during a wake, for another session or before a crash; evidence that a later change outdates |
| **Takeover and input** `app/src/capabilities/mac/`, `app/src/main/` | the user's latch in main, its mirror in the provider, refreshes, admissions, held buttons | take and give back control; native prepare and perform; compatibility session | user, native kit, tools | requests that overtake each other; input that fails halfway; a session that ends with a button down |
| File claims `src/core/file.claims.ts` | lock file, claims file | claim, release, prune | agents of a workspace | stale-lock steal, unlocked fallback |
| Edit transactions `src/core/transaction.manager.ts` | open transaction, originals | begin, track, commit, roll back | edit tools | awaits between check and use |
| Agent loop `src/core/agent.loop.ts` | turn, messages, retries | run, interrupt | tools, model calls | the next step is chosen by a model's text |
| Headless session `src/protocol/headless.entry.ts` | session, approvals, inputs | hello, input, approval, interrupt | supervisor, loop | answers that arrive for an earlier question |
| Capability broker `src/capability/broker.ts` | workers, manifests, path handles, health | register, grant and revoke handles, narrow, revoke, call | nothing in the program yet | authority that changes during a call |
| Browser runtime `src/browser/` | one browser, pages | ensure, act, close | background tasks | close against an action |
| Memory, mind, graph, evidence, review, evolution | stores | read, rank, write | loop | data rather than protocol |
| Interfaces `tui/`, `app/src/renderer/`, `native/`, `site/` | views | render | engine protocol | presentation |

The components in bold have modules. What makes each of them correct:

- *Supervisor*: never two engines at work; the phase never lies about whether
  there is one; an announced restart is armed and no other is; an engine told
  to go goes; bounded automatic restarts; no data of one project in another.
- *Capacity*: no more running sub-agents than the limit; no lease lost to
  another process's update; no call and no crash blocks the rest.
- *Background tasks*: what the ledger calls finished is finished, and stays so while
  engines follow one another; the panel and the ledger agree; "paused" means stopped; a
  cancel that can be obeyed ends the task and its process.
- *Sub-agents*: the caller and the board are told the same; no agent under way
  is missing from the checkpoint; no edit is removed with its worktree; slots return.
- *Model calls*: the day's cap holds for calls that overlap; every reservation is
  settled once; the breaker never shuts the provider out for good.
- *Outcomes*: "verified" rests on evidence younger than the last change the contract kept,
  with every result merged but those the model itself called done; no result of a worker
  is forgotten; the loop goes on.
- *Takeover*: no input without the user's consent of the moment; nothing discarded
  without a cause; a button that `pointerPrimitive` puts down is on the record.

## 2. Modules

| Module | What it is |
|---|---|
| `EngineSupervisor` | the supervisor: state, handlers, properties, inductive invariant, mutants |
| `EngineLifecycle` | what the supervisor promises the rest of the app: the abstract specification |
| `MCEngineSupervisor` | its instance for TLC |
| `EngineSupervisorProof` | theorems about the engines it holds, and the refinement |
| `EngineRecoveryProof` | theorems about what it keeps across the death of an engine |
| `SubAgentCapacity` | `withLock` and the four operations of the semaphore, one system call a step |
| `CapacitySemaphore` | the counting semaphore it promises: the abstract specification |
| `MCSubAgentCapacity`, `SubAgentCapacityProof` | instance, theorems |
| `BackgroundTasks` | registry, ledger, shell processes, browsers, recovery |
| `MCBackgroundTasks`, `BackgroundTasksProof` | instance, theorems |
| `SubAgents` | one engine's sub-agents from spawn to settlement, checkpoint, crash and resume |
| `MCSubAgents`, `SubAgentsProof` | instance, theorems |
| `ModelCalls` | calls of the provider composed with spending cap, key pool and breaker |
| `MCModelCalls`, `ModelCallsProof` | instance, theorems |
| `Outcomes` | the outcome contract, delegated tasks, the completion gate and the wake loop |
| `MCOutcomes`, `OutcomesProof` | instance, theorems |
| `Takeover` | the takeover latch, its mirror, guarded input of both kinds, held buttons |
| `MCTakeover`, `TakeoverProof` | instance, theorems |

Definitions named `Bug...` are plausible slips in the code, kept to show that
every property can fail: put in the place of the definition after them they
make TLC find a violation of the property PROJECT.json pairs them with.

### Engine supervisor

Every handler runs to completion on the JavaScript main thread, so a handler is
an action and includes all it calls: `Ended` contains `handleDeath` (`Died`),
`Replace` contains `cancelScheduledRestart`, `supersedeChild` and `spawnChild`,
with a synchronous throw of `spawn` as its second alternative. What interleaves is
the order of clicks, of the events of *all* engine processes alive, and of
timers.

| Model | Code |
|---|---|
| `phase`, `Enter`, `Legal` | `machine.ts`: `transition` returns the old phase for an illegal move |
| `child`, `childGen`, `generation` | the fields of that name; `NoEngine` is `null`, `Detached` is -1 |
| `proc[g]` | the operating system's view of launch g: up, sent SIGTERM, sent SIGKILL, gone |
| `killTimers` | `killTimers`, by the launch each timer kills |
| `restartPending` | `restartTimer !== null` |
| `launchAge`, `beatAge` | `now - spawnedAt`, `now - heartbeat.at`, saturating at `AgeLimit` |
| `history` | `history`, each death with what the policy reads of it; `LeaveWindow` is the rolling window passing |
| `queue[i].from`, `home` | history variables: the project a read was queued for, an engine was started in |

Choices: a timer may fire at any point after it was armed. A SIGKILL timer of a
process that has gone is dropped with it (firing is caught and does nothing).
User steps end with `dispose`, since the app sets its reference to null
(`app/src/main/index.ts`). The boot phase `loading_interface`, which the engine
announces (`src/protocol/protocol.ts`) and the phase machine does not know, is
among the inputs and is ignored as in the code. The restart attempt shown,
reasons, status text, crash journal and the forced-profile variable are output
or configuration and left out, and so is an `error` event of the child for a
failed signal.

### Sub-agent capacity

Processes share files, so a step is a system call: `Open` (`open` with
`O_EXCL`), `Busy` (the failing `open` with the `stat` of the lock's age),
`Break` (the `unlink` of a lock seen old), `Read` (the ledger, and the
operation on the copy), `Write` (write to a temporary file and rename), `Unlock`
(`unlink`, whoever's file is there). Only `Busy` joins two calls: nothing is done
between them that another process sees, and the age read only grows. `WriteFails`
is the refusal of the disk. A lease is `<<holder, n>>`; `granted` is what callers
were given and did not give back, `lapsed` what its time to live ran out on. A
process may die anywhere when `CrashInLock`, outside the section otherwise.

Assumed: a live process does not stall inside the section for the 5 s after
which its lock counts as old (`LockAges` needs a dead owner); process ids are not
reused. Left out: the hand-off of a lease to a separately started worker and
the quarantine of a ledger that does not parse.

### Background tasks

| Model | Code |
|---|---|
| `engine` | off, in the recovery at its start, on, between the read and the rename of a compaction, ended |
| `found` | the interrupted tasks an engine's recovery has read and has still to record |
| `draft` | the rewritten ledger an engine is about to rename over the ledger |
| `state` | the task's state in the registry of the engine that owns it |
| `recorded` | what folding the ledger gives (`reconstruct`) |
| `proc` | the task's process or browser (`closing`: told to close, 3 s from its SIGKILL), and an exit not reported yet |
| `term` | `cancel` of the handle was called: SIGTERM to the group, `close` of the browser |
| `timer` | the wall-clock bound is armed |
| `session`, `closes` | the browser an engine has open; the `close()` calls under way, each with the browser it was called for |

A handler is one action but where another engine of the workspace can come in between.
`Boot` reads the interrupted tasks and `Recover` records them one by one; `Append` may
begin a compaction (any age threshold; records of tasks that did not end are kept), whose
read is in `draft` until `Rewrite` renames it over whatever the ledger has by then. A browser
goes in two steps, as `close()` does it: `CloseBrowser` drops the handle and records the
outcome, and the process ends later (`BrowserEnds`). In between the engine may die: killed,
it leaves the browser where it is, and a shell process always (groups outlive engines).

With `AppendMayFail` the disk may refuse a write; the code swallows that. With `Overlap`
several engines are at work in one workspace, which nothing in the code prevents. With
`CloseMayLag` one `close()` may wait for the handles of page elements longer than another
`close()` and the launch of the next browser take. States no caller moves a task to are left
out, as are the output, progress and pins of a task. A stopped process can end only by
SIGKILL, from outside; a SIGCONT from outside is not modelled.

### Sub-agents

| Model | Code |
|---|---|
| `worker`, `inbox` | the thread or process, and what it posted and the engine has not handled; `doomed`: told to terminate |
| `board`, `promise` | the status on the blackboard; what `spawnWorker` returned |
| `config`, `file`, `cache`, `resuming` | `spawnConfigs`; `agent-tree.json`; `crashedCache`; the loop of `/subagents resume` |
| `slot` | agents that hold a capacity slot, here a flag: its lease is `SubAgentCapacity` |
| `tree`, `edits` | the worktree, and what is in it |
| `orphan` | a worker process that outlived its engine |

Every handler of the engine is one action on its thread, and `Finish` is what the
handlers that settle have in common. A worker posts its result or error and then
its exit. For threads the order is that; for processes (the bun binary), whose
output and exit are separate events, it is either, and an exit code of `null` (a
signal) counts as 0, as in the code. `SettleIsolation` is the pair of git commands
of `settleWorktree`, with an edit possible between them when the worker still
lives. Left out: phases and tool counts of the board, spans, the journal,
`killAll` at shutdown, dismissing a crash.

### Model calls

| Model | Code |
|---|---|
| `pc` | before the key, before the veto, `request`, at a yield (`usage`, `done`) |
| `budget` | `BudgetVeto`: `spent`, `reserved`, and whether its day is over (`rolloverIfNewDay` has not run yet) |
| `breaker` | state, window of samples, claimed probe; `elapsed`, `lapsed`: the open duration is over, the claim older than it |
| `cool` | `none`, `short` (2 s), `bench` (after a hang) |
| `unsettled`, `leaked`, `excess`, `slipped` | history: what reservations should be there |

A reservation is one unit and a call costs 0, 1 or 2: estimates leave the prompt
out, so a call may cost more. The breaker guards `chat` only, as in the code. The
kinds of one-shot call differ in what they settle. `plan` has the most endings:
those of `completion` and `metadata` are among them, which is why the run takes `chat`
and `plan`. A status of 0, and a 4xx other than 401, 403, 408 and 429, is `client`:
the key is not blamed. A save that fails throws after the memory was changed, so the
catch gives back what is no longer reserved (`SettleTwice`); `slipped` remembers this,
a malformed plan after its settlement, and a midnight during a call: from then on
`reserved` may be too low, and `CapHolds` and `SettledOnce` say nothing more. That
is a limit of the code, not of the model. Left out: `executeWithBudget` and
`RetryPolicy`, which no call path uses, `BGW_LLM_BREAKER=false`, a governor that
is off, the spend file shared by processes, changes of the key list.

### Outcomes

| Model | Code |
|---|---|
| `task[t]` | status, owner and attempts of a delegated task; `unmerged`: its receipt waits for integration |
| `phase` | `verified`, or any other phase: `open` |
| `fresh`, `vouched` | comparisons of times: a trusted passing check is younger than the last change, than task t |
| `saved` | the contract on disk |
| `cont` | the continuation of the contract; `newer` compares its revision with the claimed one; saved at once |
| `here` | the session of the contract is the active one |
| `flight`, `crashed` | workers under way; workers in the crash checkpoint |
| `turn`, `running`, `timer` | the engine's turn; `continuationRunning`; `continuationTimer` |
| `untold` | history: results settled that no wake was told of |
| `code` | history: `checked`, `changed`, or `unseen`: changed, and the contract lost the change or never saw it |
| `forced` | history: tasks the model called done itself with a result that is not merged |
| `stopped` | history: the user interrupted a wake |

A tool call is an action and needs a turn of the active session; a model that
chooses its own calls is any order of them. `UpdateTask` takes any status and any owner, none
included, as `update_task` does; which calls a run lets it make is `Updates`. "failed" stands for
"blocked" too. Assignments, settlements, integrations and the continuation are saved at
once (`SaveNow`); what only calls `touch()` waits for its timer (`Save`, 300 ms), and `Clear`
and `Crash` drop what is not saved yet (`Drop`): `/clear` sets the contract to null before the
timer fires, and a timer without a contract saves nothing. `/resume` of another session
saves first and is `Save`, then `Clear`. The code may also change while the contract
is not in memory (`MutateElsewhere`). A worker settles at any time, in the active session or,
through a manager that loads the contract from disk, in another. `WakeEnds` is the end of
`dispatchAutonomous` with all that follows it; the timer that a busy session sets again is one
timer. Left out: gaps, blockers, the graph editor, tasks defined again later, priorities and
scopes of tasks, the text of reports; the lease of 30 s that a wake holds and that is not
renewed (two engines on one session).

### Takeover

| Model | Code |
|---|---|
| `main` | `UserTakeoverAuthority` in the Electron main process: `paused`, `generation` |
| `mirror` | `NativeInputInterlock` in the provider, with the authority generation it last saw |
| `refresh[a]` | the request an actor has under way: `asked`, `answered` (with main's state of that moment), `done`, `failed` |
| `pc`, `admitted` | how far a call is; the mirror's generation it was admitted under |
| `kind[c]` | what the input of a call is: `press`, `hold`, `release` of `pointerPrimitive`; `drag`; `other` |
| `held`, `button` | `InputExecutor.held`; the button of the Mac: up, put down by `pointerPrimitive` (`kept`) or by another input (`loose`) |
| `session` | the compatibility session: `dispose` is `Dispose`, then `Settle` |
| `since`, `cause`, `unvouched`, `lost` | history for the properties |

Answers reach the provider in any order: `Serve` and `Apply` are steps of their own,
and `Fail` is a timeout or a refused connection at any point. Native calls run
concurrently; compatibility calls one at a time (the arbiter's queue is
`ArbiterFree`). A guarded call is one refresh and then the check with the input: the
code has no await between. `PostFails` leaves the button as before, as after, or, within a drag
or a hold, down.

Only `pointerPrimitive` keeps a record of what it presses (`NoteDown`), and only it catches the
refusal of the guard. A drag tries to release the button when its helper fails, swallows
how that went, and records nothing; keys, clicks, the move of a desktop item and
`mouse_down`, `hold` and `mouse_up` without a target or without a driver are `other`: after them
the button may be as it was, up, or down. There is one button; the code's records of the
left, right and middle one do not touch each other. Perception, coordinates, and what is
clicked are left out. `src/src/computer` holds copies of these files with the same text.

## 3. Runs

| Run | Question | Bounds |
|---|---|---|
| `SupervisorLife` | safety, refinement of the life cycle, every start ends | 2 launches, 1 project, unsupported protocol v4, a known and an unknown boot phase, limits 0 and 1, fairness |
| `SupervisorClient` | isolation of projects, queue | 2 launches, 2 projects, 1 session, 1 kind of read, queue of 1, capability switched off by the environment, spawn may throw |
| `CapacityShared` | limit, refinement of the semaphore, progress, crashed locks | 2 processes, 2 leases each in turn, limit 1, 2 attempts, crash anywhere, fairness |
| `TasksLife` | panel, ledger, pause, stability of outcomes, cancel | 2 tasks, 2 engines in turn, a `close()` may lag, fairness |
| `TasksShared` | truth of recorded outcomes | 1 task, 3 engines at once, disk may refuse |
| `TakeoverRace` | consent, causes of discards, record of the buttons of `pointerPrimitive` | 1 native and 1 compatibility call, repeated; 2 decisions, 1 failed refresh |
| `TakeoverHeld` | "the one cleanup that must not be best-effort" | 1 compatibility call, 1 decision; violated |
| `CallsGuarded` | cap, settlement, recovery of the breaker | 2 calls at once, repeated; `chat` and `plan`; 1 key; cap 2; trips at 2 samples, window 3; 1 midnight; save may fail; fairness |
| `KeyBench` | a hung key is benched | 1 `chat`, 2 keys; violated |
| `AgentsSettle` | board, checkpoint, worktrees, slots | 2 agents, 1 of them isolated, threads or processes, 1 crash, fairness |
| `OutcomeLoop` | no result forgotten, verified is fresh and integrated, continuations are taken | 2 tasks, the second after the first; 2 attempts, 2 spawns, 2 wakes, 2 without progress, 1 call of `update_task` (the second task completed and nobody's), 1 crash or clear, fairness |
| `OutcomeStuck` | only limits stop the loop | as `OutcomeLoop` without `update_task`, independent tasks one at a time; violated |

Why the bounds are enough for what is asked. The supervisor tells launches
apart only as "the current one" and "an older one": two launches give each order
of their events. Limits are 0, 1 or 2 instead of 20 or 32 so that they are hit.
Ages of 0 and 1 are below and above every limit. One attempt makes the second
failure the one that ends the budget. In `CapacityShared` two processes suffice to
lose an update and to find a dead lock; the third matters to one race only (see the
deviations). Two tasks and two engines give each order of a task's events with
a recovery. In `TasksShared` the third engine is the one that reads an old ledger while the
second recovers the first one's task; each task's record is independent of the others', so one
task is enough (two tasks with two overlapping engines, 2.7 million states, were checked
too). In `TakeoverRace` two decisions are a take and a give back, the shortest
change that a comparison of flags does not see; two actors are enough for an old answer
to overtake a younger one. Two calls share every guard, a cap of 2 is hit by them,
and a third call is one of them started again. In `AgentsSettle` agents interact only
through checkpoint and resume. In `OutcomeLoop` a second spawn is a retry, a
replacement after a crash or the second task. Its one call of `update_task` is the one that
gets past the gate, completed and nobody's; all fifteen pairs of status and owner on
both tasks were checked for the same invariants without fairness (9.1 million states, more
than belongs in a run). `MaxLaunches`, `MaxLeases`, `MaxTasks`,
`MaxChanges`, `MaxFailures`, `MaxDays`, `MaxCrashes`, `MaxSpawns`, `MaxUpdates` and `MaxBreaks` bound
behaviours and therefore stop the system: deadlock is not checked.

### Fairness

Supervisor: time passes, armed timers and the watchdog interval fire, a process
sent SIGKILL is reported gone. Of an engine nothing is assumed: it may hang,
babble or ignore SIGTERM. Capacity: a live process goes on with its call, a lock nobody
removes gets old, and heartbeats repeat (`setInterval`); nobody has to make a new call. Tasks:
the main thread goes on, so a rewrite that was begun is ended and exit events and waiting
`close()` calls are served (strong fairness, since a compaction in between disables them); a
browser told to close goes, by SIGKILL after 3 s, as long as its engine lives; a process that
runs and was sent SIGTERM ends. A stopped process does not, and no user acts. Sub-agents: events
are delivered, a terminated worker ends, the watchdog timeout goes off, a lease nobody
renews expires, an engine is started again and goes through the agents it resumes; no
worker has to answer. Model calls: only the clock, which ends an open duration and
ages a claim; a call may hang for ever. Outcomes: a turn ends (weak fairness); the
timer, which fires again and again while the session is busy, in the end fires when it is not
(strong fairness, since turns of the user disable it). No worker has to settle.

### What the violations show

1. `TakeoverHeld`: `dispose` releases a held button by a `mouse_up` through the
   guarded proxy (`desktop.runtime.ts:2260`), which refuses it while the user has control; the
   record was cleared before, and the button stays down.
2. `KeyBench`: after a hang, `reportKeyHang` benches the key and `reportKeyResult` on
   the next line puts it on the cool-down of two seconds (`llm.adapter.ts:1178`).
3. `OutcomeStuck`: after `/clear force` in the middle of a wake `completeContinuation` throws,
   `continuationRunning` stays set and no continuation of this engine is taken up again
   (`headless.entry.ts:199`).

### Known deviations that no run checks

Each is a definition of its module, or one of the properties under other constants,
that TLC refutes when a cfg asks for it.

| Property | Constants | Code |
|---|---|---|
| `RestartBudget` | `SupervisorLife` with `SpawnMayThrow` TRUE | a respawn that throws is measured with the age of an older launch and looks like a stable run (`supervisor.ts:383`, `:490`) |
| `LingeringEngineIsKilled` | as above | `dispose` drops the SIGKILL of a superseded engine (`supervisor.ts:237`) |
| `WithinLimit` | `CapacityShared` with 3 processes | two break the same stale lock, the second removes a fresh one (`subagent.capacity.ts:82`, `:115`) |
| `ExitSettlesTask` | `TasksLife` | the exit of a paused task's process asks for a move the table lacks (`shell.tasks.ts:90`, `task.registry.ts:64`) |
| `RecordedDeadIsDead` | `TasksLife` | shell tasks are detached and survive the engine that recovery takes them to have died with (`headless.entry.ts:424`) |
| `CancelEnds` | `TasksLife` | SIGTERM does not reach a stopped process (`shell.tasks.ts:41`) |
| `DeathIsTold` | `AgentsSettle`, `Transports` {"process"} | a worker killed by a signal has exit code `null`, taken as 0: resolved, and running on the board (`subagent.manager.ts:167`, `:501`) |
| `LiveCheckpointKept` | `AgentsSettle` | consuming a snapshot deletes the file that also lists agents spawned since the boot (`agent.checkpoint.ts:176`) |
| `RecordedOutcomeIsTrue` | `TasksShared` with `CloseMayLag` TRUE | `close()` reads the open browser before its wait for element handles and lets go of whichever is open after it: the task of a browser launched in between is recorded completed, and that browser goes on (`browser.runtime.ts:1492`) |
| `OutcomeIsFinal` | `TasksLife` with `Overlap` TRUE | recovery reads the interrupted tasks and then appends `failed-resumable` for each, and a compaction renames what it read earlier: an outcome another engine appended in between is overturned (`headless.entry.ts:421`, `execution.ledger.ts:203`) |
| `VerifiedIsTrue` | `OutcomeLoop` | a change only touches the contract: a `/clear` or a crash within 300 ms brings back `verified`, and so does a change made in another session (`outcome.manager.ts:66`, `:769`) |
| `ForcedIsIntegrated` | `OutcomeLoop` | `update_task` makes a task verified, or completed and nobody's, whose result is not merged, and the gate lets it pass (`outcome.manager.ts:200`); `validateTask` would refuse |
| `EveryPressRecorded` | `TakeoverRace` | a drag whose helper fails half-way and whose release fails too leaves the button down and unrecorded, and so may every other input that does not go through `pointerPrimitive` (`desktop.runtime.ts:7250`, `:6763`, `:7320`, `:5556`); the comment of `InputExecutor` says that drags are tracked (`input.executor.ts:10`) |

The passing runs are consistent with these: `RestartBudget` is checked where spawn does
not throw, `ObeyedCancelEnds` is about a process that runs, `WithinLimit` about two
processes, `BoardTellsOutcome` about threads, `CheckpointCovers` about the
first engine, `RecordedOutcomeIsTrue` about a `close()` that does not lag and `OutcomeIsFinal`
about engines in turn; `VerifiedIsFresh` excepts a change the contract lost or never saw,
`VerifiedIsIntegrated` a task the model itself called done, `HeldIsRecorded` what
`pointerPrimitive` did not press, and `ContinuationIsTaken` the wake that lost its contract.

## 4. Theorems

`EngineSupervisorProof`, for any launches, projects, reads and limits
(`SupervisorAssumption` only): `TypeCorrect`, `OneEngineAlways`,
`PhaseAlwaysHonest`, `RestartArmedWhenAnnounced`, `CondemnedAlwaysHasKill`,
`ImplementsLifecycle`. The invariants lean on one another, so they are proved
together as `IInv`: the held engine is the last launch (`Numbering`), the live
process with the current number is the held one, every armed kill timer has a
live process, and an undisposed supervisor is stopping only on purpose. Without
the last, for instance, a stop that a death turns into a restart could not be
excluded. Preservation is one lemma per handler, each part of `IInv` a step.
The refinement maps the phase to a mode, `child` to the current engine and
`generation` to the last launch; each handler is shown to be a step of
`EngineLifecycle` or a stutter, from `IInv`.

`EngineRecoveryProof`, from the same assumption. The policy counts over a sequence of
deaths; the lemmas say what becomes of the index sets it counts (`CrashIndices`,
`ResourceIndices`, `CountedRestarts`) when a death is appended, when a clean end
wipes what was before it, and when the oldest death leaves the window, which
shifts every index. The inductive invariant `Kept` has three parts: the floor of the profile
sheds what the counted resource deaths ask for (`Shed`), the restarts the policy counts are
within its budget (`WithinBudget`), and, where launches do not throw, the stable runs of the
history are those that really lasted (`UptimesAreTrue`).
- `ResourceDeathsAlwaysShed` is its first part. `LaunchesAlwaysShed` says more, of the
  step that launches: the profile it launches in is already the shed one. No run checks it.
- `PolicyBudgetAlwaysHolds` is the second part: in the policy's own terms the budget holds in
  every behaviour. `RestartBudgetHolds` is the same of what really happened, and needs
  `~SpawnMayThrow`, as in `SupervisorLife`: a launch that throws is booked with the age of
  an older one, so that a run of no length counts as stable (see the deviations). The gap
  between the two theorems is that deviation and nothing else.
- `ProjectAlwaysIsolated`: `Isolated` adds to `ProjectIsolation` that the held engine was
  started in the open project. Without it a report of the held engine could bring
  in a session of another project; reports of engines that are not held are ignored.
- `StaleExitsAreInert`, an action property: only the exit handler makes a process gone, and
  it returns early for any engine but the held one.

`SubAgentCapacityProof`, for any set of processes, limit and number of leases
(`CapacityAssumption`): `CapacityTypeCorrect` and `CallsProgress` as they stand, and
`LimitAlwaysHolds`, `NoGrantIsEverLost` and `LedgerIsSemaphore` under `OneBreaker`: no
process dies inside the section, or there are at most two processes. The invariant
says that the process in the section owns a lock that is not old, and that a lock about to be
broken is that of a dead process (`Exclusion`), that every live grant is in the
ledger and in any copy about to replace it, and that both fit the limit. The condition
is that of the code: the age of the lock is read by one call and the file removed by another, so
after a death in the section two others may both find it old, and the second to
remove it removes a fresh one. That takes three processes.

`LedgerIsSemaphore` is the comment of the class, "cross-process, fail-closed counting
semaphore", as a refinement: a lease is `taken` when it is in the ledger file, has not lapsed
and its holder lives; `running` is `granted`. The operation takes effect at the rename
(`WriteRefines`), and reading, locking and unlocking are stutters. Two more invariants make it
inductive: a copy about to be written is still what its operation makes of the ledger, but for
leases that lapsed or whose holder died since it was read (`CopyIsCurrent`), and a lease that
is being acquired is in no one's books yet (`LeasesAreNew`). The abstract action
`Revive` is what the code does when a lease lapses between the read and the rename of its own
heartbeat: it counts again, and the limit still holds because the copy had room for it.
`NoGrantIsEverLost` is no longer a property of the run, since a lost grant is not a step
of the semaphore.

`CallsProgress` is the part of `CallEnds` that is not about scheduling: every step
of a call, whoever holds, breaks or takes the lock in between, brings `Remaining` down, from at
most `2 * MaxAttempts + 4`. What is left to TLC is that a live process takes its steps.

`BackgroundTasksProof`, for any number of tasks and engines (`TasksAssumption`): on any disk
and for engines that overlap or not, `TasksTypeCorrect`, `PauseIsHonest` and
`CancellingSignalled` (a task being cancelled was really signalled). The invariant is
`TypeOK` and `IInv`. `Truthful` says of the ledger, and of every rewritten one that is about to
replace it, that what it has as completed or cancelled is over: without the drafts a
rename could bring back what was never true of the task as it is now. A task not created yet
has left no trace (`Traceless`), without which a new process could start under an old
outcome; engines that do not overlap take turns (`InTurn`); and a `close()` under way is for the
browser that is open (`ClosesTheOpen`). It is proved as a fact about one task (`Sound`), so that
a step has to be argued for its own task and `OthersSound` does the rest.
- `OutcomeRecordedIsTrue` needs `~CloseMayLag` and nothing else: engines may overlap and the
  disk may refuse. It excepts a browser that `close()` is ending, as the code records the
  outcome before the browser has gone.
- `OverturnedOnlyByOldReading` is what holds of outcomes when engines overlap in any number: a
  completed or cancelled that changes is overturned by an engine whose recovery or compaction
  had read the ledger before. No run checks it. `OutcomesAreFinal` follows for engines that
  follow one another (`~Overlap`), by any crash and on any disk.
- `LedgerAlwaysFollows` assumes `~Overlap` and `~AppendMayFail`: with two engines a recovery
  writes off the other's tasks, and a refused append leaves the ledger behind.

`SubAgentsProof`, for any agents, isolation, transports and number of crashes
(`SubAgentsAssumption`): `AgentsTypeCorrect`, `BoardAlwaysTells`,
`CheckpointAlwaysCovers`, `EditsAlwaysKept`, `SettledOnceAndForAll`. `IInv` adds that an agent without a promise
has no board entry, worker or mail (`Dormant`), that nothing is recovered which is still
to be spawned (`Recoverable`), and what may stand in an agent's inbox (`Mail`): a clean exit
comes after the result or the error of a thread, so that `OnQuietExit` finds the
promise settled. Without `Mail` the quiet exit could resolve a running agent,
which is what a process does (`DeathIsTold`).
`SettledOnceAndForAll` is an action property no run checks: while the engine runs, what comes
after a settlement changes neither the answer, nor the worktree, nor the slot, nor, with
threads, the board. It follows from the same invariant: an agent to be resumed has no promise
(`Dormant`), so that resuming cannot answer for the agent of the same name that is settled; and for
a stop on the board, from `BoardTellsOutcome`.

`ModelCallsProof`, for any calls, kinds, keys, cap and window
(`ModelCallsAssumption`): `CallsTypeCorrect`, `CapAlwaysHolds`, `AlwaysSettledOnce`. `IInv`
says that until a reservation slips the calls in flight that owe a settlement are those
that hold one (`Held`), and takes the cap and the account together (`MoneyOK`); the cap alone
is not inductive, since a call is admitted by what is reserved, not by who holds it.
The set of holders is finite because calls start one at a time, and its size is argued
by lemmas about adding and removing one call.

`OutcomesProof`, for any tasks, dependencies, limits, breaks and calls of `update_task`
(`OutcomesAssumption`, `UpdatesAssumption`): `OutcomesTypeCorrect`, `VerifiedAlwaysFresh`,
`VerifiedAlwaysIntegrated`, `ResultsAlwaysTold`. What is true of the contract in memory has to
be true of the one on disk as well, since a crash or `/clear` puts that in its place: `Truth`
says of both that a verified phase has its evidence and its results merged or forced
(`SoundInMemory`, `SoundOnDisk`), and that evidence which is fresh in memory has no later
change, but one the contract lost or never saw (`FreshIsSeen`). `NoResultForgotten` needs that during a
wake the continuation is still claimed or asked for again (`WakeIsClaimed`).

`TakeoverProof`, for any number of native and compatibility calls, decisions and
failures (`TakeoverAssumption`): `TakeoverTypeCorrect`, `InputAlwaysUnderConsent`,
`DiscardAlwaysHasCause`, `HeldAlwaysRecorded`. For consent `IInv` says that answers and
mirror are never ahead of main (`Answers`), and of every admitted action (`Consent`) that
while it passes the guard the mirror's authority is not past the one of its admission, and
that its own refresh was answered no earlier: together they leave one generation,
which is what makes a local comparison of counters speak for the user. For discards it says
that an undisturbed action is in step with main and still the one admitted
(`Undisturbed`); for the buttons `pointerPrimitive` puts down, and only for those, that
compatibility actions run alone and that what they may press is noted before (`Alone`,
`Noted`).

Only model-checked is liveness (`StartupEnds`, `CallEnds`, `CrashedLockIsBroken`,
`ObeyedCancelEnds`, `SlotReturned`, `BreakerRecovers`, `ContinuationIsTaken`), which is
out of the prover's reach here. Every other property of the passing runs is the conclusion of a
theorem; where the theorem has a condition the run meets it.

## 5. Not modelled

- *File claims*: the lock is the idiom of `SubAgentCapacity`, whose runs and proofs say
  what it gives; the unlocked write that follows a failed lock is by intention.
- *Edit transactions*: one transaction at a time inside one engine, whose edit tools run one
  after the other; a `/tx` command in the middle of one is the only interleaving. Two hazards are
  listed.
- *The agent loop's turns, headless approvals*: what happens next is chosen by a model's text or a
  user. The parts of the loop that are protocols are in `ModelCalls` and `Outcomes`.
- *Capability broker*: a library that only its tests call.
- *Browser pages, perception, grounding, native drivers*: I/O against a browser or the
  accessibility interface of macOS, whose behaviour the code does not determine.
- *Memory, mind, graph, evidence, review, evolution*: parsing, ranking and storing text.
- *Interfaces, site, benchmarks, scripts*: presentation and recorded results.
- *Shared files below the models*: the spend file of two processes, a hazard without a
  property. The ledger is kept as what folding its lines gives; the window between the read and
  the rename of a compaction is modelled, a line torn by two writers is not.

The modelled code is a small share of the repository, most of which is in the last five
items: a specification of it would repeat the code without a property to check. What is
modelled is what decides, across processes, crashes and overlapping requests, whether
the system does what it says.

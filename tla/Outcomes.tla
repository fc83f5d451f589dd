------------------------------ MODULE Outcomes -------------------------------
(***************************************************************************)
(* The outcome contract of one session: delegated tasks and their workers, *)
(* the parent's verification, the completion gate, and the loop that wakes *)
(* the coordinator when a worker settles (OutcomeManager, the tools that   *)
(* call it, and the continuation of headless.entry.ts).                    *)
(*                                                                          *)
(* The contract has one required criterion that wants fresh evidence, and  *)
(* its tasks are delegated ones.  Times are compared, never read: "fresh"  *)
(* and "vouched" say which evidence is younger than the last change, and   *)
(* no two events share a millisecond.  Assignments, results, integrations  *)
(* and the continuation are saved at once, with all of the contract; the   *)
(* other changes wait for a timer of 300 ms.  Of the phases only "verified" *)
(* is told from the others, and a "failed" task stands for a "blocked" one. *)
(* Gaps, blockers, scopes, priorities and the text of reports are left out. *)
(***************************************************************************)
EXTENDS Naturals, FiniteSets

CONSTANTS
  Tasks,
  After,          \* After[t]: the tasks t depends on
  MaxAttempts,    \* maxAttempts of a task
  MaxParallel,    \* the scheduler's limit
  MaxSpawns,      \* bound on the workers spawned
  MaxWakeups,     \* continuationWakeLimit
  NoProgressLimit,\* 3 in the code
  Updates,        \* what update_task is called with: task, status, and owner:
                  \* not given, "nobody", or "named" by the model
  MaxUpdates,     \* bound on the calls of update_task
  MaxBreaks       \* bound on crashes and clears together

ASSUME OutcomesAssumption ==
  /\ After \in [Tasks -> SUBSET Tasks]
  /\ MaxAttempts \in Nat \ {0} /\ MaxParallel \in Nat \ {0} /\ MaxSpawns \in Nat \ {0}
  /\ MaxWakeups \in Nat \ {0} /\ NoProgressLimit \in Nat \ {0}
  /\ MaxUpdates \in Nat /\ MaxBreaks \in Nat

ASSUME UpdatesAssumption ==
  Updates \subseteq [ task : Tasks, owner : {"not given", "nobody", "named"},
    status : {"pending", "in_progress", "failed", "completed", "verified"} ]

VARIABLES
  task,     \* the tasks: status, owner (0: none), attempts, and unmerged:
            \* its receipt's integrationStatus is pending or conflict
  phase,    \* the phase of the contract: verified, or another: open
  fresh,    \* a trusted passing check is younger than the last change
  vouched,  \* tasks younger than which there is a trusted passing check
  cont,     \* continuation: state, ids, wakeups, barren, and newer: its
            \* revision is above the one that the wake claimed; saved at once
  saved,    \* the contract on disk: task, phase, fresh, vouched.  The four
            \* variables are what is in memory, or would be once loaded
  here,     \* the session is the active one
  flight,   \* workers under way: <<task, owner>>
  crashed,  \* workers in the crash checkpoint
  spawned,  \* workers so far
  turn,     \* the engine's turn: idle, user, wake
  running,  \* continuationRunning
  timer,    \* continuationTimer is set
  untold,   \* history: settled tasks no wake has been told of
  code,     \* history: "checked": a trusted check passed since the last change;
            \* "unseen": the contract lost that change, or was not there
  forced,   \* history: tasks the model called done with a result not merged
  stopped,  \* history: the user interrupted a wake
  updates,  \* calls of update_task so far
  breaks    \* crashes and clears so far

memory == <<task, phase, fresh, vouched>>
contract == <<memory, cont, saved>>
loop == <<running, timer>>
history == <<untold, code, forced, stopped, updates, breaks>>
vars == <<contract, here, flight, crashed, spawned, turn, loop, history>>

Kept == [task |-> task, phase |-> phase, fresh |-> fresh, vouched |-> vouched]
SaveNow == saved' = Kept'

Load ==
  /\ task' = saved.task /\ phase' = saved.phase
  /\ fresh' = saved.fresh /\ vouched' = saved.vouched
  /\ UNCHANGED <<cont, saved>>

Schedule == timer' = (timer \/ ~running)
-----------------------------------------------------------------------------
(* Tasks.  The model's tool calls run in a turn of the active session. *)

Statuses == {"pending", "in_progress", "failed", "completed", "verified"}
Named == MaxSpawns + 1  \* an owner that the model made up

InTurn == here /\ turn # "idle"
With(t, status, owner) == [task EXCEPT ![t].status = status, ![t].owner = owner]
Done(r) == r.status = "verified" \/ (r.status = "completed" /\ r.owner = 0)
InProgress == {t \in Tasks : task[t].status = "in_progress"}

PhaseOf(status) ==
  IF status \in {"in_progress", "failed"} THEN "open" ELSE phase

\* updateTask's assignments: any change makes the task younger than the checks.
Update(t, status, owner) ==
  /\ task' = With(t, status, owner)
  /\ phase' = PhaseOf(status)
  /\ vouched' = vouched \ {t}

Dispatchable(t) ==
  /\ task[t].status = "pending"
  /\ \A d \in After[t] : Done(task[d])
  /\ Cardinality(InProgress) < MaxParallel
  /\ task[t].attempts < MaxAttempts

\* assignTask and the spawn: saved before the worker starts.
Bind(t) ==
  /\ task' = [task EXCEPT ![t].status = "in_progress", ![t].owner = spawned + 1,
                          ![t].attempts = @ + 1]
  /\ phase' = "open" /\ vouched' = vouched \ {t}
  /\ UNCHANGED <<fresh, cont>> /\ SaveNow

Fly(t) ==
  /\ spawned < MaxSpawns
  /\ spawned' = spawned + 1 /\ flight' = flight \cup {<<t, spawned + 1>>}

Assign(t) ==
  /\ InTurn /\ Dispatchable(t)
  /\ Bind(t) /\ Fly(t)
  /\ UNCHANGED <<here, crashed, turn, loop, history>>

\* What a tool that only touches the contract leaves alone: the timer saves.
Frame == UNCHANGED <<here, flight, crashed, spawned, turn, loop, untold, stopped, breaks>>
ToolFrame == Frame /\ UNCHANGED updates
Touch == ToolFrame /\ UNCHANGED <<cont, saved>>

OwnerOf(update) ==
  CASE update.owner = "not given" -> task[update.task].owner
    [] update.owner = "nobody" -> 0
    [] update.owner = "named" -> Named

\* update_task: any status, and any owner or none; only what is in progress
\* waits for its dependencies.
UpdateTask(t, status, owner) ==
  /\ InTurn /\ updates < MaxUpdates /\ updates' = updates + 1
  /\ status = "in_progress" => \A d \in After[t] : Done(task[d])
  /\ Update(t, status, owner)
  /\ forced' = IF task[t].unmerged /\ Done(task'[t]) THEN forced \cup {t} ELSE forced
  /\ UNCHANGED <<fresh, code, cont, saved>> /\ Frame

RetryTask(t) ==
  /\ InTurn /\ task[t].status = "failed" /\ task[t].attempts < MaxAttempts
  /\ Update(t, "pending", 0)
  /\ UNCHANGED <<fresh, code, forced>> /\ Touch

\* Mutant: a result that is not merged can be validated.
BugValidateTask(t) ==
  /\ InTurn /\ task[t].owner # 0 /\ task[t].status = "completed" /\ t \in vouched
  /\ Update(t, "verified", task[t].owner)
  /\ UNCHANGED <<fresh, code, forced>> /\ Touch

ValidateTask(t) ==
  /\ InTurn /\ task[t].owner # 0 /\ task[t].status = "completed"
  /\ ~task[t].unmerged
  /\ t \in vouched
  /\ Update(t, "verified", task[t].owner)
  /\ UNCHANGED <<fresh, code, forced>> /\ Touch

-----------------------------------------------------------------------------
(* Evidence, changes, integration, the gate. *)

\* Mutant: a change leaves the phase alone.
BugCodeChanged == code' = "changed" /\ fresh' = FALSE /\ UNCHANGED phase

\* onMutation, and the same lines of integrateTask and confirmTaskIntegration.
CodeChanged == code' = "changed" /\ fresh' = FALSE /\ phase' = "open"

Mutate ==
  /\ InTurn
  /\ CodeChanged
  /\ UNCHANGED <<task, vouched, forced>> /\ Touch

\* The code changes while the contract is not in memory: in another session,
\* or a crash cut the change off from its review_change.
MutateElsewhere ==
  /\ ~here /\ code = "checked"
  /\ code' = IF fresh THEN "unseen" ELSE "changed"
  /\ UNCHANGED <<contract, forced>> /\ ToolFrame

\* integrateTask, confirmTaskIntegration: merged, or a conflict to be retried.
IntegrateTask(t) ==
  /\ InTurn /\ task[t].unmerged
  /\ \/ task' = [task EXCEPT ![t].unmerged = FALSE] /\ CodeChanged
     \/ UNCHANGED <<task, fresh, phase, code>>
  /\ vouched' = vouched \ {t}
  /\ SaveNow
  /\ UNCHANGED <<cont, forced>> /\ ToolFrame

\* onBuildEvidence, onBrowserEvidence: a trusted check, at the end of a run.
Check(ok) ==
  /\ InTurn
  /\ phase' = "open"
  /\ IF ok THEN fresh' = TRUE /\ vouched' = Tasks /\ code' = "checked"
           ELSE UNCHANGED <<fresh, vouched, code>>
  /\ UNCHANGED <<task, forced>> /\ Touch

\* completionGate: whatever status set_criterion gave the criterion, the gate
\* looks at the evidence.
GateOpen == fresh /\ \A t \in Tasks : Done(task[t])

\* The criterion may also be pending or failed: then the finish is rejected.
RequestFinish ==
  /\ InTurn
  /\ phase' = "open" \/ (GateOpen /\ phase' = "verified")
  /\ UNCHANGED <<task, fresh, vouched, code, forced>> /\ Touch

\* The timer of touch() fires.
Save ==
  /\ here /\ saved # Kept
  /\ UNCHANGED <<memory, cont, code, forced>> /\ ToolFrame
  /\ SaveNow

-----------------------------------------------------------------------------
(* A worker settles, and the continuation it requests. *)

\* requestContinuation.
Requested(ids) ==
  [cont EXCEPT !.state = "pending", !.newer = TRUE,
    !.ids = ids \cup IF cont.state \in {"pending", "running"} THEN cont.ids ELSE {}]

\* A failure has no envelope: the receipt of an earlier attempt stays.
Unmerged(t, ok) == IF ok THEN BOOLEAN ELSE {task[t].unmerged}

\* settleAssignmentForSession: for the active session, or by a manager of its
\* own that loads and saves the contract of the session in the background.
Settle(t, owner, ok) ==
  /\ <<t, owner>> \in flight
  /\ flight' = flight \ {<<t, owner>>}
  /\ \/ /\ task[t].owner \notin {0, owner}
        /\ UNCHANGED <<contract, untold, forced, timer>>
     \/ /\ task[t].owner \in {0, owner}
        /\ \E unmerged \in Unmerged(t, ok) :
             task' = [task EXCEPT ![t] = [ status |-> IF ok THEN "completed" ELSE "failed",
                        owner |-> owner, attempts |-> task[t].attempts, unmerged |-> unmerged ]]
        /\ phase' = "open"
        /\ vouched' = vouched \ {t}
        /\ cont' = Requested({t}) /\ untold' = untold \cup {t}
        /\ UNCHANGED fresh /\ SaveNow
        /\ forced' = forced \ {t}
        /\ IF here THEN Schedule ELSE UNCHANGED timer
  /\ UNCHANGED <<here, crashed, spawned, turn, running, code, stopped, updates, breaks>>

-----------------------------------------------------------------------------
(* The loop of headless.entry.ts. *)

\* Mutant: the limit on wakes is not asked.
BugExhausted == cont.barren >= NoProgressLimit

Exhausted == cont.wakeups >= MaxWakeups \/ cont.barren >= NoProgressLimit
LoopFrame == UNCHANGED <<memory, here, flight, crashed, spawned, code, forced, stopped, updates, breaks>>

\* The timer fires and there is nothing to do.
TimerIdle ==
  /\ timer
  /\ ~here \/ cont.state \in {"none", "idle", "halted"}
  /\ timer' = FALSE
  /\ UNCHANGED <<cont, saved, untold, turn, running>> /\ LoopFrame

\* A busy session, or the lease of a wake that a crash ended, sets the timer
\* again: that changes nothing here, and the lease does run out.
Claimable == timer /\ here /\ turn = "idle" /\ cont.state \in {"pending", "running"}

Halt ==
  /\ Claimable /\ Exhausted
  /\ cont' = [cont EXCEPT !.state = "halted"]
  /\ UNCHANGED <<untold, turn, loop>> /\ LoopFrame
  /\ SaveNow

\* claimContinuation and dispatchAutonomous.
Wake ==
  /\ Claimable /\ ~Exhausted
  /\ cont' = [cont EXCEPT !.state = "running", !.wakeups = @ + 1, !.newer = FALSE]
  /\ timer' = FALSE /\ running' = TRUE
  /\ turn' = "wake"
  /\ untold' = untold \ cont.ids
  /\ LoopFrame /\ SaveNow

NeedsAnotherWake == phase # "verified" /\ InProgress = {}

\* Mutant: a result that arrived during the wake is taken as handled.
BugAfterWake(barren) ==
  [cont EXCEPT !.barren = barren,
               !.state = IF barren >= NoProgressLimit THEN "halted" ELSE "idle"]

\* completeContinuation.
AfterWake(barren) ==
  [cont EXCEPT !.barren = barren,
    !.state = IF cont.newer THEN "pending"
              ELSE IF barren >= NoProgressLimit THEN "halted" ELSE "idle"]

\* Mutant: after a wake only its own follow-up sets the timer.
BugReschedules(result, state, again) == again

\* The emit of requestContinuation, and what follows completeContinuation.
Reschedules(result, state, again) == again \/ (result # "interrupted" /\ state # "idle")

\* The wake ends: it completed and changed the contract ("progress") or not,
\* failed ("barren" too), or was interrupted.
WakeEnds(result) ==
  /\ turn = "wake" /\ turn' = "idle"
  /\ \/ /\ ~here
        \* requireContract throws, and continuationRunning stays set.
        /\ UNCHANGED <<contract, loop, stopped>>
     \/ /\ here
        /\ LET after == AfterWake(IF result = "progress" THEN 0 ELSE cont.barren + 1)
               again == result # "interrupted" /\ after.state = "idle" /\ NeedsAnotherWake
           IN /\ cont' = IF again THEN [after EXCEPT !.state = "pending", !.ids = {}] ELSE after
              /\ timer' = (timer \/ Reschedules(result, after.state, again))
        /\ running' = FALSE
        /\ stopped' = (stopped \/ result = "interrupted")
        /\ UNCHANGED memory /\ SaveNow
  /\ UNCHANGED <<here, flight, crashed, spawned, untold, code, forced, updates, breaks>>

UserTurn ==
  /\ here
  /\ \/ turn = "idle" /\ turn' = "user"
     \/ turn = "user" /\ turn' = "idle"
  /\ UNCHANGED <<contract, here, flight, crashed, spawned, loop, history>>

-----------------------------------------------------------------------------
(* The session and crashes. *)

\* What was not saved is gone: the last change may be, and the contract is
\* fresh again without a check.
Drop ==
  /\ Load
  /\ code' = IF saved.fresh /\ ~fresh THEN "unseen" ELSE code

\* /clear force, in a turn too: the recorder rotates, syncSession drops the
\* contract before its timer saves it, and the change of session schedules
\* the loop.
Clear ==
  /\ here /\ breaks < MaxBreaks
  /\ here' = FALSE /\ breaks' = breaks + 1
  /\ Drop /\ Schedule
  /\ UNCHANGED <<flight, crashed, spawned, turn, running, untold, forced, stopped, updates>>

\* /resume is refused during a turn.
Resume ==
  /\ ~here /\ turn = "idle"
  /\ here' = TRUE /\ Schedule
  /\ UNCHANGED <<contract, flight, crashed, spawned, turn, running, history>>

\* The engine dies with its workers; the checkpoint lists them.  What a wake
\* under way had been told must be told again.
Crash ==
  /\ breaks < MaxBreaks /\ breaks' = breaks + 1
  /\ crashed' = flight /\ flight' = {}
  /\ here' = FALSE /\ turn' = "idle"
  /\ running' = FALSE /\ timer' = FALSE
  /\ untold' = IF turn = "wake" THEN untold \cup cont.ids ELSE untold
  /\ Drop
  /\ UNCHANGED <<spawned, forced, stopped, updates>>

\* resumeAssignment: the worker is replaced, without a new attempt.
ResumeAssignment(t, previous) ==
  /\ here /\ <<t, previous>> \in crashed
  /\ crashed' = crashed \ {<<t, previous>>}
  /\ Fly(t)
  /\ \/ /\ task[t].status = "in_progress" /\ task[t].owner = previous
        /\ task' = [task EXCEPT ![t].owner = spawned + 1]
        /\ phase' = "open" /\ vouched' = vouched \ {t}
        /\ UNCHANGED <<fresh, cont>> /\ SaveNow
     \/ Dispatchable(t) /\ Bind(t)
  /\ UNCHANGED <<here, turn, loop, history>>

-----------------------------------------------------------------------------
NoTask == [status |-> "pending", owner |-> 0, attempts |-> 0, unmerged |-> FALSE]
NoCont == [state |-> "none", newer |-> FALSE, ids |-> {}, wakeups |-> 0, barren |-> 0]

\* A contract has been defined and its tasks set, in a turn of the user's, and
\* it has been saved.
Init ==
  /\ task = [t \in Tasks |-> NoTask] /\ phase = "open"
  /\ fresh = FALSE /\ vouched = {} /\ cont = NoCont
  /\ saved = Kept
  /\ here = TRUE /\ flight = {} /\ crashed = {} /\ spawned = 0
  /\ turn = "user"
  /\ running = FALSE /\ timer = FALSE
  /\ untold = {} /\ code = "changed" /\ forced = {} /\ stopped = FALSE
  /\ updates = 0 /\ breaks = 0

EndWake == \E result \in {"progress", "barren", "interrupted"} : WakeEnds(result)
Timer == TimerIdle \/ Halt \/ Wake

Next ==
  \/ \E t \in Tasks :
       \/ Assign(t) \/ RetryTask(t) \/ ValidateTask(t) \/ IntegrateTask(t)
       \/ \E owner \in 1..MaxSpawns :
            \/ Settle(t, owner, TRUE) \/ Settle(t, owner, FALSE)
            \/ ResumeAssignment(t, owner)
  \/ \E update \in Updates :
       UpdateTask(update.task, update.status, OwnerOf(update))
  \/ Mutate \/ MutateElsewhere \/ Check(TRUE) \/ Check(FALSE) \/ RequestFinish \/ Save
  \/ Timer \/ EndWake \/ UserTurn
  \/ Clear \/ Resume \/ Crash

Spec == Init /\ [][Next]_vars

\* Turns end, and the timer, set again while the session is busy, sometimes
\* fires when it is not.
FairSpec ==
  /\ Spec
  /\ WF_vars(EndWake)
  /\ SF_vars(Timer)
  /\ WF_vars(turn = "user" /\ UserTurn)

-----------------------------------------------------------------------------
(* Properties. *)

TaskStates ==
  [ status : Statuses, owner : 0..Named, attempts : 0..MaxAttempts,
    unmerged : BOOLEAN ]
Contracts ==
  [ task : [Tasks -> TaskStates], phase : {"open", "verified"}, fresh : BOOLEAN,
    vouched : SUBSET Tasks ]
ContStates ==
  [ state : {"none", "pending", "running", "idle", "halted"}, newer : BOOLEAN,
    ids : SUBSET Tasks, wakeups : 0..MaxWakeups, barren : Nat ]

\* The shape of the state; an assignment never exceeds its attempts.
TypeOK ==
  /\ Kept \in Contracts /\ saved \in Contracts /\ cont \in ContStates
  /\ untold \subseteq Tasks /\ forced \subseteq Tasks /\ spawned \in 0..MaxSpawns
  /\ flight \subseteq Tasks \X (1..spawned) /\ crashed \subseteq Tasks \X (1..spawned)
  /\ here \in BOOLEAN /\ running \in BOOLEAN /\ timer \in BOOLEAN /\ stopped \in BOOLEAN
  /\ turn \in {"idle", "user", "wake"} /\ code \in {"checked", "changed", "unseen"}

\* A result that settles while the coordinator is at work, or before a crash,
\* is told to a later wake, unless the loop has reached its limits.
NoResultForgotten ==
  \/ Exhausted
  \/ untold \subseteq cont.ids /\ (untold # {} => cont.state \in {"pending", "running"})

\* A verified outcome rests on a check that is younger than the last change, an
\* integration included, in a contract that was dropped and loaded again too;
\* unless the contract lost that change or never saw it.
VerifiedIsFresh == phase = "verified" => fresh /\ code # "changed"

\* A verified outcome has every delegated result integrated, but those of tasks
\* that the model called done itself (update_task) after they had settled.
VerifiedIsIntegrated ==
  phase = "verified" => \A t \in Tasks : task[t].unmerged => t \in forced

\* Not kept by the code.  Any mutation invalidates a passing criterion
\* (onMutation): not when a /clear or a crash comes within the 300 ms of its
\* save, nor when the code changes in another session.
VerifiedIsTrue == phase = "verified" => code = "checked"

\* Not kept by the code.  A delegated completion is promoted only by validation
\* (validateTask): update_task promotes it too, to verified or to completed and
\* nobody's, with its worktree not merged.
ForcedIsIntegrated == phase = "verified" => \A t \in Tasks : ~task[t].unmerged

\* A wake ended without its contract: continuationRunning is never reset.
Stuck == running /\ turn # "wake"

\* A waiting continuation of the active session is taken up, or the loop halts,
\* or the user interrupted it; not after a /clear in the middle of a wake.
ContinuationIsTaken ==
  here /\ cont.state = "pending" ~>
    ~here \/ cont.state # "pending" \/ stopped \/ Stuck

\* Violated.  Only three wakes without progress, the limit or the user stop the
\* loop (headless.entry.ts): a /clear in the middle of a wake stops it too.
OnlyLimitsStopTheLoop ==
  here /\ cont.state = "pending" ~>
    ~here \/ cont.state # "pending" \/ stopped
=============================================================================

--------------------------- MODULE BackgroundTasks ---------------------------
(***************************************************************************)
(* Background tasks: the registry of one engine process, the execution     *)
(* ledger every engine of a workspace appends to, the shell processes and  *)
(* browsers the tasks stand for, and the recovery at engine start.          *)
(*                                                                          *)
(* The engine's handlers run to completion on its main thread, so each is  *)
(* one action, but for what another engine of the workspace sees happen in *)
(* between: recovery reads the ledger and then appends task by task, and a *)
(* compaction reads the ledger and then renames a rewritten one over it.   *)
(* Processes are stopped, continued, killed and end on their own; the exit *)
(* event of a process comes some time after its end.  Shell processes have *)
(* a group of their own and outlive their engine.  A browser is closed in  *)
(* two steps: its handle is dropped and its outcome recorded, then it goes.*)
(*                                                                          *)
(* The ledger is kept as what folding it gives for each task (reconstruct). *)
(* Of the states the registry declares, the ones some caller moves a task  *)
(* to are modelled; titles, output, progress, pins and retry counts are    *)
(* display.                                                                 *)
(***************************************************************************)
EXTENDS Naturals, FiniteSets

CONSTANTS
  MaxTasks,       \* bound on the tasks created in a behaviour
  Engines,        \* engine processes started in the workspace
  Overlap,        \* TRUE when two engines may run in it at once
  AppendMayFail,  \* TRUE when the disk may refuse to append or rewrite the ledger
  CloseMayLag     \* TRUE when a close() may wait longer for the handles of page elements
                  \* than another close() and the launch of the next browser take

ASSUME TasksAssumption ==
  /\ MaxTasks \in Nat
  /\ Overlap \in BOOLEAN /\ AppendMayFail \in BOOLEAN /\ CloseMayLag \in BOOLEAN
  /\ "nobody" \notin Engines

Tasks == 1..MaxTasks
NoTask == 0
Absent == "absent"
Terminal == {"cancelled", "completed", "failed-resumable"}
States == Terminal \union {"queued", "starting", "running", "paused", "cancelling"}
Ledgers == [Tasks -> States \union {Absent}]
Blank == [t \in Tasks |-> Absent]

VARIABLES
  engine,     \* off, in its recovery at start, on, in the middle of a rewrite, ended
  found,      \* the interrupted tasks an engine's recovery has still to record
  draft,      \* the rewritten ledger an engine is about to rename over the ledger
  owner,      \* engine that created a task
  kind,       \* shell or browser
  state,      \* state of a task in its engine's registry, or Absent
  recorded,   \* state the ledger reconstructs for a task, or Absent
  proc,       \* running, stopped, closing, ended and not reported yet (zero, nonzero), gone
  term,       \* the process was sent SIGTERM, the browser told to close
  timer,      \* the timeout of a shell task is armed
  session,    \* task of the browser an engine has open, or NoTask
  closes      \* close() calls under way, each with the browser it was called for

vars == <<engine, found, draft, owner, kind, state, recorded, proc, term, timer,
          session, closes>>
ledger == <<engine, draft, recorded>>
browser == <<session, closes>>

On(e) == e \in Engines /\ engine[e] = "on"
Alive(e) == e \in Engines /\ engine[e] \in {"booting", "on", "rewriting"}
Listed(t) == state[t] # Absent
Fresh(t) == owner[t] = "nobody" /\ \A u \in Tasks : u < t => owner[u] # "nobody"
Ended == {"zero", "nonzero"}

-----------------------------------------------------------------------------
(* The execution ledger. *)

\* Compaction drops what is old of tasks that ended, and keeps every record of a task
\* that did not.
\* Mutant: retention goes by age alone.
BugCompacted(r, k) == [t \in Tasks |-> IF t <= k THEN Absent ELSE r[t]]

Compacted(r, k) == [t \in Tasks |-> IF t <= k /\ r[t] \in Terminal THEN Absent ELSE r[t]]

\* append, after which the engine goes on as s unless the file has grown too large: then
\* the ledger is read for a compaction.  No error of the disk reaches the caller.
Append(e, r, s) ==
  /\ recorded' = r \/ (AppendMayFail /\ UNCHANGED recorded)
  /\ \/ engine' = [engine EXCEPT ![e] = s] /\ UNCHANGED draft
     \/ /\ engine' = [engine EXCEPT ![e] = "rewriting"]
        /\ \E k \in {NoTask} \union Tasks :
             draft' = [draft EXCEPT ![e] = Compacted(recorded', k)]

\* rewrite: what was kept of the ledger as read replaces the ledger as it is now.
Rewrite(e) ==
  /\ engine[e] = "rewriting"
  /\ recorded' = draft[e] \/ (AppendMayFail /\ UNCHANGED recorded)
  /\ draft' = [draft EXCEPT ![e] = Blank]
  /\ engine' = [engine EXCEPT ![e] = IF found[e] = {} THEN "on" ELSE "booting"]
  /\ UNCHANGED <<found, owner, kind, state, proc, term, timer, browser>>

\* A transition record of a task whose creation is not in the ledger is ignored.
Noted(t, s) == [recorded EXCEPT ![t] = IF @ = Absent THEN @ ELSE s]

\* The records of a task just created, of which the disk may refuse some.
AppendNew(e, t, s) ==
  \E r \in {s} \union (IF AppendMayFail THEN {Absent, "queued", "starting", "running"}
                                        ELSE {}) :
    Append(e, [recorded EXCEPT ![t] = r], "on")

-----------------------------------------------------------------------------
(* The registry. *)

Legal(s) ==
  CASE s = "queued"     -> {"starting", "cancelled"}
    [] s = "starting"   -> {"running", "failed-resumable", "cancelling", "cancelled"}
    [] s = "running"    -> {"paused", "cancelling", "completed", "failed-resumable"}
    [] s = "paused"     -> {"running", "cancelling", "cancelled"}
    [] s = "cancelling" -> {"cancelled"}
    [] s = "failed-resumable" -> {"starting"}
    [] OTHER -> {}

\* transition: an illegal one is ignored.
Move(t, s) ==
  IF s \in Legal(state[t])
    THEN state' = [state EXCEPT ![t] = s] /\ Append(owner[t], Noted(t, s), "on")
    ELSE UNCHANGED <<state, ledger>>

\* A close() of the browser that is open now.
Asked(e) == IF session[e] = NoTask THEN {} ELSE {<<e, session[e]>>}

\* Mutant: a cancelled task is written off before its process has gone.
BugCancel(t) ==
  /\ On(owner[t]) /\ Listed(t) /\ state[t] \notin Terminal
  /\ IF "cancelling" \in Legal(state[t])
       THEN /\ state' = [state EXCEPT ![t] = "cancelled"]
            /\ Append(owner[t], Noted(t, "cancelled"), "on")
            /\ term' = [term EXCEPT ![t] = TRUE]
            /\ closes' = IF kind[t] = "browser" THEN closes \union Asked(owner[t]) ELSE closes
       ELSE UNCHANGED <<state, ledger, term, closes>>

\* cancel: SIGTERM to the group, or close() of the browser.
Cancel(t) ==
  /\ On(owner[t]) /\ Listed(t) /\ state[t] \notin Terminal
  /\ Move(t, "cancelling")
  /\ IF "cancelling" \in Legal(state[t])
       THEN /\ term' = [term EXCEPT ![t] = TRUE]
            /\ closes' = IF kind[t] = "browser" THEN closes \union Asked(owner[t]) ELSE closes
       ELSE UNCHANGED <<term, closes>>

UserCancel(t) ==
  /\ Cancel(t)
  /\ UNCHANGED <<found, owner, kind, proc, timer, session>>

\* Mutant: the state is changed, the process is not.
BugPause(t) ==
  /\ On(owner[t]) /\ kind[t] = "shell" /\ state[t] = "running"
  /\ Move(t, "paused")
  /\ UNCHANGED <<found, owner, kind, proc, term, timer, browser>>

\* pause: SIGSTOP, which may still be delivered to a process that ended but was not
\* waited for; when it throws nothing changes.
Pause(t) ==
  /\ On(owner[t]) /\ kind[t] = "shell" /\ state[t] = "running" /\ proc[t] # "gone"
  /\ proc' = [proc EXCEPT ![t] = IF @ = "running" THEN "stopped" ELSE @]
  /\ Move(t, "paused")
  /\ UNCHANGED <<found, owner, kind, term, timer, browser>>

\* resume: SIGCONT, under the same conditions.
Resume(t) ==
  /\ On(owner[t]) /\ state[t] = "paused" /\ proc[t] # "gone"
  /\ proc' = [proc EXCEPT ![t] = IF @ = "stopped" THEN "running" ELSE @]
  /\ Move(t, "running")
  /\ UNCHANGED <<found, owner, kind, term, timer, browser>>

\* close: off the panel; the ledger keeps its records.
Close(t) ==
  /\ On(owner[t]) /\ state[t] \in Terminal
  /\ state' = [state EXCEPT ![t] = Absent]
  /\ UNCHANGED <<ledger, found, owner, kind, proc, term, timer, browser>>

\* /tasks clear: clearCompleted reads the ledger to rewrite it, and the panel is cleared.
Clear(e) ==
  /\ On(e)
  /\ engine' = [engine EXCEPT ![e] = "rewriting"]
  /\ draft' = [draft EXCEPT ![e] = Compacted(recorded, MaxTasks)]
  /\ state' = [t \in Tasks |-> IF owner[t] = e /\ state[t] \in Terminal
                                 THEN Absent ELSE state[t]]
  /\ UNCHANGED <<found, owner, kind, recorded, proc, term, timer, browser>>

-----------------------------------------------------------------------------
(* Shell tasks. *)

Create(e, t, k) ==
  /\ On(e) /\ Fresh(t)
  /\ owner' = [owner EXCEPT ![t] = e]
  /\ kind' = [kind EXCEPT ![t] = k]
  /\ UNCHANGED <<found, term, closes>>

\* startShellTask: the process runs, or the spawn fails, at once or in its error event.
StartShell(e, t) ==
  /\ Create(e, t, "shell")
  /\ \/ /\ state' = [state EXCEPT ![t] = "running"]
        /\ AppendNew(e, t, "running")
        /\ proc' = [proc EXCEPT ![t] = "running"]
        /\ \E timed \in BOOLEAN : timer' = [timer EXCEPT ![t] = timed]
     \/ /\ state' = [state EXCEPT ![t] = "failed-resumable"]
        /\ AppendNew(e, t, "failed-resumable")
        /\ UNCHANGED <<proc, timer>>
  /\ UNCHANGED session

\* /tasks retry, of a task of this engine that failed or of any the ledger has: the
\* command is run again as a new task.
Retry(e, t, new) ==
  /\ kind[t] = "shell"
  /\ IF owner[t] = e /\ Listed(t) THEN state[t] \in {"failed-resumable", "cancelled"}
                                  ELSE recorded[t] # Absent
  /\ StartShell(e, new)

\* What the exit event settles.
ExitState(t) ==
  CASE state[t] = "cancelling" -> "cancelled"
    [] state[t] # "cancelling" /\ proc[t] = "zero" -> "completed"
    [] OTHER -> "failed-resumable"

\* Mutant: the timeout outlives the process.
BugExitTimed(t) ==
  /\ On(owner[t]) /\ proc[t] \in Ended
  /\ proc' = [proc EXCEPT ![t] = "gone"]
  /\ IF Listed(t) THEN Move(t, ExitState(t)) ELSE UNCHANGED <<state, ledger>>
  /\ UNCHANGED <<found, owner, kind, term, timer, browser>>

\* The exit event of a shell process.
Exit(t) ==
  /\ On(owner[t]) /\ proc[t] \in Ended
  /\ proc' = [proc EXCEPT ![t] = "gone"]
  /\ timer' = [timer EXCEPT ![t] = FALSE]
  /\ IF Listed(t) THEN Move(t, ExitState(t)) ELSE UNCHANGED <<state, ledger>>
  /\ UNCHANGED <<found, owner, kind, term, browser>>

\* The wall-clock bound of a task.
Timeout(t) ==
  /\ On(owner[t]) /\ timer[t]
  /\ timer' = [timer EXCEPT ![t] = FALSE]
  /\ IF state[t] \in {"running", "paused"} THEN Cancel(t)
                                           ELSE UNCHANGED <<state, ledger, term, closes>>
  /\ UNCHANGED <<found, owner, kind, proc, session>>

-----------------------------------------------------------------------------
(* Browsers. *)

\* ensure() launches a browser when none is open; it takes longer than a close() waits,
\* unless that may lag.
LaunchBrowser(e, t) ==
  /\ session[e] = NoTask
  /\ CloseMayLag \/ \A u \in Tasks : <<e, u>> \notin closes
  /\ Create(e, t, "browser")
  /\ state' = [state EXCEPT ![t] = "running"]
  /\ AppendNew(e, t, "running")
  /\ proc' = [proc EXCEPT ![t] = "running"]
  /\ session' = [session EXCEPT ![e] = t]
  /\ UNCHANGED timer

\* close() is called by the tool, after a crash of the browser or by ensure(); it takes
\* the browser that is open and waits for the handles of its elements.
AskClose(e) ==
  /\ On(e) /\ session[e] # NoTask
  /\ closes' = closes \union Asked(e)
  /\ UNCHANGED <<ledger, found, owner, kind, state, proc, term, timer, session>>

\* Mutant: the browser is let go of without being closed.
BugDropBrowser(e, t) ==
  /\ On(e) /\ <<e, t>> \in closes
  /\ closes' = closes \ {<<e, t>>}
  /\ session' = [session EXCEPT ![e] = NoTask]
  /\ LET open == session[e] IN
     IF open = NoTask THEN UNCHANGED <<state, ledger>>
       ELSE Move(open, IF state[open] = "cancelling" THEN "cancelled" ELSE "completed")
  /\ UNCHANGED <<found, owner, kind, proc, term, timer>>

\* close() after its wait: the browser open by now is let go of and its task's outcome
\* recorded, then the browser the call was made for is closed.  With CloseMayLag there may
\* be another such call.
CloseBrowser(e, t) ==
  /\ On(e) /\ <<e, t>> \in closes
  /\ closes' = closes \ {<<e, t>>} \/ (CloseMayLag /\ UNCHANGED closes)
  /\ session' = [session EXCEPT ![e] = NoTask]
  /\ LET open == session[e] IN
     IF open = NoTask THEN UNCHANGED <<state, ledger>>
       ELSE Move(open, IF state[open] = "cancelling" THEN "cancelled" ELSE "completed")
  /\ proc' = [proc EXCEPT ![t] = IF @ = "running" THEN "closing" ELSE @]
  /\ UNCHANGED <<found, owner, kind, term, timer>>

\* A browser crashes, or goes after close() told it to or killed it.
BrowserEnds(t) ==
  /\ kind[t] = "browser" /\ proc[t] \in {"running", "closing"}
  /\ proc' = [proc EXCEPT ![t] = "gone"]
  /\ UNCHANGED <<ledger, found, owner, kind, state, term, timer, browser>>

-----------------------------------------------------------------------------
(* Engines and processes. *)

\* Mutant: cancelled is left out of the terminal states.
BugInterrupted == {t \in Tasks : recorded[t] \in (States \ Terminal) \union {"cancelled"}}

\* interruptedTasks: what the ledger has as unfinished.
Interrupted == {t \in Tasks : recorded[t] \in States \ Terminal}

\* Start of an engine: it reads which tasks the ledger has as unfinished.
Boot(e) ==
  /\ engine[e] = "off"
  /\ Overlap \/ \A f \in Engines : ~Alive(f)
  /\ found' = [found EXCEPT ![e] = Interrupted]
  /\ engine' = [engine EXCEPT ![e] = IF Interrupted = {} THEN "on" ELSE "booting"]
  /\ UNCHANGED <<draft, owner, kind, state, recorded, proc, term, timer, browser>>

\* The recovery takes each for one of an engine that died and records its failure.
Recover(e, t) ==
  /\ engine[e] = "booting" /\ t \in found[e] /\ \A u \in found[e] : t <= u
  /\ found' = [found EXCEPT ![e] = @ \ {t}]
  /\ Append(e, Noted(t, "failed-resumable"), IF found[e] = {t} THEN "on" ELSE "booting")
  /\ UNCHANGED <<owner, kind, state, proc, term, timer, browser>>

\* An engine crashes or quits: its registry goes, its shell processes stay; its browsers
\* go with it when it could still end them, and stay when it was killed.
EngineEnds(e) ==
  /\ Alive(e)
  /\ engine' = [engine EXCEPT ![e] = "ended"]
  /\ found' = [found EXCEPT ![e] = {}]
  /\ draft' = [draft EXCEPT ![e] = Blank]
  /\ state' = [t \in Tasks |-> IF owner[t] = e THEN Absent ELSE state[t]]
  /\ timer' = [t \in Tasks |-> timer[t] /\ owner[t] # e]
  /\ \E killed \in BOOLEAN :
       proc' = [t \in Tasks |->
                  IF owner[t] = e /\ ((kind[t] = "browser" /\ ~killed) \/ proc[t] \in Ended)
                    THEN "gone" ELSE proc[t]]
  /\ session' = [session EXCEPT ![e] = NoTask]
  /\ closes' = {c \in closes : c[1] # e}
  /\ UNCHANGED <<owner, kind, recorded, term>>

\* A shell process ends; nobody hears of it when its engine has.
ProcessEnds(t, how) ==
  /\ kind[t] = "shell"
  /\ proc[t] = "running" \/ (proc[t] = "stopped" /\ how = "nonzero")  \* killed
  /\ proc' = [proc EXCEPT ![t] = IF Alive(owner[t]) THEN how ELSE "gone"]
  /\ UNCHANGED <<ledger, found, owner, kind, state, term, timer, browser>>

-----------------------------------------------------------------------------
Init ==
  /\ engine = [e \in Engines |-> "off"]
  /\ found = [e \in Engines |-> {}]
  /\ draft = [e \in Engines |-> Blank]
  /\ owner = [t \in Tasks |-> "nobody"]
  /\ kind = [t \in Tasks |-> "shell"]
  /\ state = Blank
  /\ recorded = Blank
  /\ proc = [t \in Tasks |-> "gone"]
  /\ term = [t \in Tasks |-> FALSE]
  /\ timer = [t \in Tasks |-> FALSE]
  /\ session = [e \in Engines |-> NoTask]
  /\ closes = {}

User(e) ==
  \/ \E t \in Tasks : StartShell(e, t) \/ LaunchBrowser(e, t)
  \/ \E t, new \in Tasks : Retry(e, t, new)
  \/ Clear(e) \/ AskClose(e)

Engine(e) ==
  \/ Boot(e) \/ Rewrite(e) \/ EngineEnds(e)
  \/ \E t \in Tasks : Recover(e, t) \/ CloseBrowser(e, t)

Task(t) ==
  \/ UserCancel(t) \/ Pause(t) \/ Resume(t) \/ Close(t)
  \/ Exit(t) \/ Timeout(t) \/ BrowserEnds(t)
  \/ \E how \in Ended : ProcessEnds(t, how)

Next ==
  \/ \E e \in Engines : User(e) \/ Engine(e)
  \/ \E t \in Tasks : Task(t)

Spec == Init /\ [][Next]_vars

(***************************************************************************)
(* Fairness: the main thread goes on, so a rewrite begun is ended and exit *)
(* events and waiting close() calls are served however often it compacts   *)
(* in between; a browser told to close goes, by SIGKILL after 3 s; a       *)
(* process that runs and was sent SIGTERM ends.  A stopped process receives*)
(* no SIGTERM.                                                              *)
(***************************************************************************)
Obeys(t) == term[t] /\ \E how \in Ended : ProcessEnds(t, how) /\ proc[t] = "running"
Killed(t) == proc[t] = "closing" /\ Alive(owner[t]) /\ BrowserEnds(t)

FairSpec ==
  /\ Spec
  /\ \A e \in Engines : WF_vars(Rewrite(e))
  /\ \A e \in Engines, t \in Tasks : SF_vars(CloseBrowser(e, t))
  /\ \A t \in Tasks : SF_vars(Exit(t)) /\ WF_vars(Obeys(t)) /\ WF_vars(Killed(t))

-----------------------------------------------------------------------------
(* Properties. *)

\* The type of the state; an engine has tasks only after its recovery, the registry lists
\* them only while it runs, the timeout of a task is armed only until its exit has been
\* handled, and the browser an engine has open is one of its own.
TypeOK ==
  /\ engine \in [Engines -> {"off", "booting", "on", "rewriting", "ended"}]
  /\ found \in [Engines -> SUBSET Tasks]
  /\ draft \in [Engines -> Ledgers]
  /\ owner \in [Tasks -> Engines \union {"nobody"}]
  /\ kind \in [Tasks -> {"shell", "browser"}]
  /\ state \in Ledgers
  /\ recorded \in Ledgers
  /\ proc \in [Tasks -> Ended \union {"running", "stopped", "closing", "gone"}]
  /\ term \in [Tasks -> BOOLEAN]
  /\ timer \in [Tasks -> BOOLEAN]
  /\ session \in [Engines -> Tasks \union {NoTask}]
  /\ closes \subseteq Engines \X Tasks
  /\ \A t \in Tasks : Listed(t) => Alive(owner[t])
  /\ \A t \in Tasks : timer[t] => kind[t] = "shell" /\ proc[t] # "gone" /\ Alive(owner[t])
  /\ \A e \in Engines : engine[e] \in {"off", "on"} => found[e] = {}
  /\ \A t \in Tasks : owner[t] # "nobody" => engine[owner[t]] # "off" /\ found[owner[t]] = {}
  /\ \A t \in Tasks : kind[t] = "browser" => proc[t] \in {"running", "closing", "gone"}
  /\ \A e \in Engines : session[e] # NoTask =>
       owner[session[e]] = e /\ kind[session[e]] = "browser"

\* While the ledger can be written and engines follow one another, it and the panel agree:
\* a task that goes on is in the ledger with the state the panel shows, through every
\* compaction, and one that ended is there with its outcome until a compaction drops it.
LedgerFollows ==
  \A t \in Tasks : Listed(t) =>
    recorded[t] = state[t] \/ (state[t] \in Terminal /\ recorded[t] = Absent)

\* "HONEST pause": no paused task has a process that runs, and no task is shown running
\* while its process is stopped (pause, resume and their signals).
HonestPause ==
  \A t \in Tasks : /\ state[t] = "paused" => proc[t] # "running"
                   /\ state[t] = "running" => proc[t] # "stopped"

\* A task shown as being cancelled has been signalled: cancel never only changes the state.
CancellingIsSignalled == \A t \in Tasks : state[t] = "cancelling" => term[t]

Settled == {"completed", "cancelled"}

\* A shell task the ledger has as completed or cancelled has no process left, whichever
\* engine wrote the record and whatever engines have come and gone since; a browser task
\* recorded so has none left or one that close() is ending, never one that goes on unseen.
RecordedOutcomeIsTrue ==
  \A t \in Tasks : recorded[t] \in Settled =>
    proc[t] = "gone" \/ (kind[t] = "browser" /\ proc[t] = "closing")

\* While engines follow one another, none of them, no recovery and no compaction, ended or
\* cut short by a crash, turns an outcome the ledger has into another: completed and
\* cancelled stay until they are dropped.
OutcomeIsFinal ==
  [][\A t \in Tasks : recorded[t] \in Settled => recorded'[t] \in {recorded[t], Absent}]_vars

\* A task being cancelled whose process runs is settled and its process ends, a browser's
\* too ("so a long session never accumulates zombie Chromes"), unless the engine ends first.
ObeyedCancelEnds ==
  \A t \in Tasks :
    (state[t] = "cancelling" /\ proc[t] = "running")
       ~> (state[t] # "cancelling" /\ (proc[t] = "gone" \/ ~Alive(owner[t])))

-----------------------------------------------------------------------------
(***************************************************************************)
(* The strengthening of the invariants and of OutcomeIsFinal.  What it     *)
(* says of the ledger it says of every rewritten ledger about to be        *)
(* renamed: it is true of the tasks, and the registry does not go on with  *)
(* a task whose outcome it has.  A task not created has left no trace.     *)
(* Engines that follow one another find the ledger as they read it.        *)
(***************************************************************************)
Over(t) == proc[t] = "gone" \/ (kind[t] = "browser" /\ (proc[t] = "closing" \/ CloseMayLag))

Truthful(l) ==
  \A t \in Tasks : l[t] \in Settled => state[t] \in {l[t], Absent} /\ Over(t)

Traceless(t) ==
  /\ recorded[t] = Absent /\ proc[t] = "gone"
  /\ \A e \in Engines : draft[e][t] = Absent /\ t \notin found[e] /\ <<e, t>> \notin closes

ClosesTheOpen ==
  CloseMayLag \/ \A e \in Engines, t \in Tasks :
                   <<e, t>> \in closes => session[e] \in {t, NoTask}

InTurn ==
  ~Overlap =>
    \A e \in Engines : Alive(e) =>
      /\ \A f \in Engines : Alive(f) => f = e
      /\ \A t \in found[e] : recorded[t] \notin Settled
      /\ engine[e] = "rewriting" =>
           \A t \in Tasks : \/ draft[e][t] = recorded[t]
                            \/ recorded[t] \in Terminal /\ draft[e][t] = Absent

IInv ==
  /\ HonestPause /\ CancellingIsSignalled /\ InTurn /\ ClosesTheOpen
  /\ Truthful(recorded) /\ \A e \in Engines : Truthful(draft[e])
  /\ \A t \in Tasks : owner[t] = "nobody" => Traceless(t)

\* With engines that overlap only one that has read the ledger earlier overturns an outcome:
\* its recovery takes the task for one that was cut short, or its compaction brings back
\* what the ledger had before.
OnlyOldReadingOverturns ==
  [][\A t \in Tasks :
       recorded[t] \in Settled /\ recorded'[t] \notin {recorded[t], Absent} =>
         \E e \in Engines :
           \/ engine[e] = "booting" /\ t \in found[e] /\ recorded'[t] = "failed-resumable"
           \/ engine[e] = "rewriting" /\ recorded'[t] = draft[e][t]]_vars

(* What comments of the code say and the code does not keep. *)

\* "tolerated (ignored + logged) at runtime so a bad caller can't wedge the registry": the
\* exit of a shell process settles the task it stands for.
ExitSettlesTask ==
  \A t \in Tasks : Listed(t) /\ kind[t] = "shell" /\ proc[t] = "gone" => state[t] \in Terminal

\* "their processes died with that engine": a task whose ledger record is terminal, the
\* interrupted ones of recovery included, has no process that runs.
RecordedDeadIsDead == \A t \in Tasks : recorded[t] \in Terminal => proc[t] # "running"

\* "a background task is not licence for a zombie": a cancel, the timeout's or the user's,
\* brings the task to an end.
CancelEnds == \A t \in Tasks : state[t] = "cancelling" ~> state[t] # "cancelling"
======

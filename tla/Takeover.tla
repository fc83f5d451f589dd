------------------------------ MODULE Takeover ------------------------------
(***************************************************************************)
(* Who has the hands on the Mac: the user's takeover latch in the Electron *)
(* main process, its mirror in the capability provider, and the input that *)
(* passes it.  Main owns the latch and only answers; the provider reads it *)
(* over loopback at the entry of every tool call and again right before it *)
(* delivers input.  Requests overlap, so answers are applied in any order. *)
(*                                                                          *)
(* Two kinds of input share the mirror.  A native action is prepared,      *)
(* approved and performed, several at a time.  A compatibility action runs *)
(* alone (the arbiter and the input executor queue it), and may leave a    *)
(* mouse button held for the next one to release.  Only pointerPrimitive   *)
(* keeps a record of that: a click, a drag, the move of a desktop item and *)
(* every pointer verb without a target or a driver press unrecorded.       *)
(* There is one button; the record of each is independent of the others.   *)
(***************************************************************************)
EXTENDS Integers

CONSTANTS
  Native,       \* native tool calls
  Compat,       \* calls of the compatibility runtime
  MaxChanges,   \* bound on the decisions of the user
  MaxFailures   \* bound on the refreshes that fail

Session == "session"
Actors == Native \cup Compat \cup {Session}

ASSUME TakeoverAssumption ==
  /\ MaxChanges \in Nat /\ MaxFailures \in Nat
  /\ Native \cap Compat = {} /\ Session \notin Native \cup Compat

VARIABLES
  main,       \* UserTakeoverAuthority: paused, generation
  mirror,     \* NativeInputInterlock, and the main generation it last saw
  refresh,    \* the last refreshTakeoverAuthority of an actor
  pc,         \* how far an actor's call is
  admitted,   \* mirror generation the action was admitted under
  kind,       \* what a compatibility action does
  held,       \* InputExecutor.held: a button is recorded as down
  button,     \* the physical button, and how it came down
  session,    \* the compatibility session
  failures,   \* refreshes that failed so far
  since,      \* history: main generation when the action was admitted
  cause,      \* history: something a native action may be discarded for
  unvouched,  \* history: who delivered what main had not allowed
  lost        \* history: why dispose gave up on the button, while it is down

latch == <<main, mirror, refresh, failures>>
hands == <<held, button, lost>>
vars == <<latch, pc, admitted, kind, hands, session, since, cause, unvouched>>

NoAuthority == -1

\* Inputs that pointerPrimitive delivers: mouse_down, hold, mouse_up.
Recorded == {"press", "hold"}
\* No other is recorded: a drag, which tries to release after a failure, and those
\* that do not: keys, a click, the move of a desktop item, and mouse_down, hold
\* and mouse_up without a target or a driver.
Kinds == Recorded \cup {"release", "drag", "other"}

Resting == {"idle", "discarded"}   \* of how a call ended only a discard is kept
Admitted == {"prepared", "final", "front", "post", "emergency"}
Running == {"begin", "front", "post", "emergency"}

ReasonOf(paused) == IF paused THEN "user" ELSE "none"
NoRefresh == [state |-> "none", paused |-> FALSE, generation |-> 0]
Refreshed(a) == refresh[a].state \in {"done", "failed"}

-----------------------------------------------------------------------------
(* The latch and its mirror. *)

\* History: whatever is prepared now may rightly be discarded.
Disturb ==
  cause' = [n \in Native |-> cause[n] \/ pc[n] \in {"prepared", "final"}]

\* set: a repeated value changes nothing, a real transition counts.
UserSets ==
  /\ main.generation < MaxChanges
  /\ main' = [paused |-> ~main.paused, generation |-> main.generation + 1]
  /\ Disturb
  /\ UNCHANGED <<mirror, refresh, failures, pc, admitted, kind, hands, session,
                 since, unvouched>>

\* Mutant: the generation is read only when the flag differs.
BugChanged(answer) ==
  answer.paused # mirror.paused \/ ReasonOf(answer.paused) # mirror.reason

\* Mutant: every answer counts as a change.
BugChurn(answer) == TRUE

\* synchronizeAuthority: does this answer invalidate what was prepared?
Changed(answer) ==
  \/ /\ mirror.authority = NoAuthority
     /\ answer.generation # 0 \/ answer.paused
  \/ /\ mirror.authority # NoAuthority
     /\ answer.generation # mirror.authority
  \/ answer.paused # mirror.paused
  \/ ReasonOf(answer.paused) # mirror.reason

Synchronize(answer) ==
  mirror' = [ paused     |-> answer.paused,
              reason     |-> ReasonOf(answer.paused),
              authority  |-> answer.generation,
              generation |-> mirror.generation + IF Changed(answer) THEN 1 ELSE 0 ]

\* Mutant: the mirror takes main's generation for its own, known or not.
BugPause ==
  mirror' = [ mirror EXCEPT !.paused = TRUE, !.reason = "unreachable",
                            !.generation = mirror.authority ]

\* The catch of refreshTakeoverAuthority: unknown is taken as paused.  The
\* reason has the error's text, so only the same error again changes nothing.
Pause ==
  \/ mirror.reason = "unreachable" /\ UNCHANGED mirror
  \/ mirror' = [ mirror EXCEPT !.paused = TRUE, !.reason = "unreachable",
                               !.generation = @ + 1 ]

Ask(a) == refresh' = [refresh EXCEPT ![a] = [NoRefresh EXCEPT !.state = "asked"]]

\* The broker answers with main's state of that moment.
Serve(a) ==
  /\ refresh[a].state = "asked"
  /\ refresh' = [refresh EXCEPT ![a] =
       [state |-> "answered", paused |-> main.paused, generation |-> main.generation]]
  /\ UNCHANGED <<main, mirror, failures, pc, admitted, kind, hands, session,
                 since, cause, unvouched>>

\* The answer reaches the provider, perhaps after younger ones.
Apply(a) ==
  /\ refresh[a].state = "answered"
  /\ refresh' = [refresh EXCEPT ![a].state = "done"]
  /\ Synchronize(refresh[a])
  /\ IF refresh[a].generation # main.generation THEN Disturb ELSE UNCHANGED cause
  /\ UNCHANGED <<main, failures, pc, admitted, kind, hands, session, since, unvouched>>

\* Timeout, connection refused, or an answer that is not one.
Fail(a) ==
  /\ refresh[a].state \in {"asked", "answered"} /\ failures < MaxFailures
  /\ failures' = failures + 1
  /\ refresh' = [refresh EXCEPT ![a] = [NoRefresh EXCEPT !.state = "failed"]]
  /\ Pause
  /\ Disturb
  /\ UNCHANGED <<main, pc, admitted, kind, hands, session, since, unvouched>>

-----------------------------------------------------------------------------
(* What the two kinds of action share. *)

Goto(a, phase) == pc' = [pc EXCEPT ![a] = phase]
Asking(a, phase) ==
  Goto(a, phase) /\ Ask(a) /\ UNCHANGED <<main, mirror, failures>>
Then(a, phase) ==
  /\ Goto(a, phase)
  /\ refresh' = [refresh EXCEPT ![a] = NoRefresh]
  /\ UNCHANGED <<main, mirror, failures>>

\* A call returns: its locals are gone (and end() unbinds the admission).
Return(a, phase) ==
  /\ Then(a, phase)
  /\ admitted' = [admitted EXCEPT ![a] = 0] /\ since' = [since EXCEPT ![a] = 0]
  /\ kind' = [kind EXCEPT ![a] = "other"]

Admit(a) ==
  /\ admitted' = [admitted EXCEPT ![a] = mirror.generation]
  /\ since' = [since EXCEPT ![a] = main.generation]

\* requireInputAvailable and TakeoverMutationGuard.require, after the refresh.
\* The release at the end of a session is bound to no admission.
Passes(a) ==
  ~mirror.paused /\ (a = Session \/ admitted[a] = mirror.generation)

Refusal == IF mirror.paused THEN "idle" ELSE "discarded"

\* History: main's answer to this very refresh was "running", and nothing had
\* changed hands between the admission and that answer.
Vouched(a) ==
  /\ refresh[a].state = "done" /\ ~refresh[a].paused
  /\ refresh[a].generation = since[a]
Delivered(a) == unvouched' = IF Vouched(a) THEN unvouched ELSE unvouched \cup {a}

\* Every mirror and every answer under way is main's state of now.
InSync ==
  /\ mirror.authority = main.generation
  /\ mirror.paused = main.paused /\ mirror.reason = ReasonOf(main.paused)
  /\ \A a \in Actors : refresh[a].state = "answered" =>
                         refresh[a].generation = main.generation

\* CallTool: one refresh per call, which refuses nothing yet.
StartCall(a) ==
  /\ pc[a] \in Resting
  /\ Asking(a, "gate")
  /\ UNCHANGED <<admitted, kind, hands, session, since, cause, unvouched>>

\* Preparation fails or the governor denies the approval.
Drop(a) ==
  /\ pc[a] \in {"prepared", "queued"}
  /\ Return(a, "idle")
  /\ cause' = IF a \in Native THEN [cause EXCEPT ![a] = FALSE] ELSE cause
  /\ UNCHANGED <<hands, session, unvouched>>

-----------------------------------------------------------------------------
(* Native actions: NativeToolCoordinator.prepare*, perform*. *)

Prepare(n) ==
  /\ pc[n] = "gate" /\ Refreshed(n)
  /\ Then(n, "prepared")
  /\ Admit(n)
  /\ cause' = [cause EXCEPT ![n] = ~InSync]
  /\ UNCHANGED <<kind, hands, session, unvouched>>

Perform(n) ==
  /\ pc[n] = "prepared"
  /\ Asking(n, "final")
  /\ UNCHANGED <<admitted, kind, hands, session, since, cause, unvouched>>

Deliver(n) ==
  /\ pc[n] = "final" /\ Refreshed(n) /\ Passes(n)
  /\ Return(n, "idle")
  /\ Delivered(n)
  /\ cause' = [cause EXCEPT ![n] = FALSE]
  /\ UNCHANGED <<hands, session>>

Refuse(n) ==
  /\ pc[n] = "final" /\ Refreshed(n) /\ ~Passes(n)
  /\ Return(n, Refusal)
  /\ cause' = [cause EXCEPT ![n] = @ /\ Refusal = "discarded"]
  /\ UNCHANGED <<hands, session, unvouched>>

-----------------------------------------------------------------------------
(* Compatibility actions: mac_control, then BimaxComputerRuntime.run. *)

\* assertUserHasNotTakenControl of a mutating action: a second refresh.
Enter(c) ==
  /\ pc[c] = "gate" /\ Refreshed(c)
  /\ Asking(c, "entry")
  /\ UNCHANGED <<admitted, kind, hands, session, since, cause, unvouched>>

Approve(c) ==
  /\ pc[c] = "entry" /\ Refreshed(c)
  /\ Then(c, IF mirror.paused THEN "idle" ELSE "queued")
  /\ UNCHANGED <<admitted, kind, hands, session, since, cause, unvouched>>

ArbiterFree ==
  session # "settling" /\ \A b \in Compat : pc[b] \notin Running

Begin(c) ==
  /\ pc[c] = "queued" /\ ArbiterFree
  /\ Asking(c, "begin")
  /\ session' = "open"
  /\ UNCHANGED <<admitted, kind, hands, since, cause, unvouched>>

\* Mutant: the button is recorded once the helper has returned.
BugNoteDown(k) == held

\* pointerPrimitive records a button that may go down before it awaits the
\* helper.  No other input is recorded.
NoteDown(k) == held \/ k \in Recorded

\* The input itself, whatever the command was, is next.
Input(c) ==
  /\ Asking(c, "post")
  /\ \E k \in Kinds : kind' = [kind EXCEPT ![c] = k] /\ held' = NoteDown(k)

\* begin binds the action to the mirror's generation; the first guarded call
\* brings the window to the front, or is the input itself.
Bind(c) ==
  /\ pc[c] = "begin" /\ Refreshed(c)
  /\ IF mirror.paused
     THEN Return(c, "idle") /\ UNCHANGED held
     ELSE /\ Admit(c)
          /\ Input(c) \/ (Asking(c, "front") /\ UNCHANGED <<kind, held>>)
  /\ UNCHANGED <<button, lost, session, cause, unvouched>>

Front(c) ==
  /\ pc[c] = "front" /\ Refreshed(c)
  /\ IF Passes(c)
     THEN Input(c) /\ Delivered(c) /\ UNCHANGED <<admitted, since>>
     ELSE Return(c, "idle") /\ UNCHANGED <<unvouched, held>>
  /\ UNCHANGED <<button, lost, session, cause>>

\* The button once the input has put it down: "kept" if pointerPrimitive did.
Down(c) == IF kind[c] \in Recorded \/ button = "kept" THEN "kept" ELSE "loose"

\* The button after the helper has run the whole of an input.  Another input
\* leaves it alone (keys), raises it (a click) or presses it (no target).
After(c) ==
  CASE kind[c] = "press" -> {Down(c)}
    [] kind[c] = "other" -> {button, "up", Down(c)}
    [] OTHER -> {"up"}

\* The button after a helper that failed before, within or after the input.
Within(c) ==
  {button} \cup After(c) \cup (IF kind[c] \in {"drag", "hold"} THEN {Down(c)} ELSE {})

\* History: a button that comes up is no longer lost, whoever released it.
Found == lost' = IF button' = "up" THEN "none" ELSE lost

Post(c) ==
  /\ pc[c] = "post" /\ Refreshed(c) /\ Passes(c)
  /\ Return(c, "idle")
  /\ Delivered(c)
  /\ button' \in After(c)
  /\ held' = (held /\ kind[c] \notin {"hold", "release"})
  /\ Found
  /\ UNCHANGED <<session, cause>>

\* Where an input that failed goes: those of `inputs` release the button first.
Recover(c, inputs) ==
  IF kind[c] \in inputs
  THEN Asking(c, "emergency") /\ UNCHANGED <<admitted, since, kind>>
  ELSE Return(c, "idle")

PostFails(c) ==
  /\ pc[c] = "post" /\ Refreshed(c) /\ Passes(c)
  /\ Recover(c, Recorded \cup {"drag"})
  /\ Delivered(c)
  /\ button' \in Within(c)
  /\ Found
  /\ UNCHANGED <<held, session, cause>>

\* The guard throws; only pointerPrimitive catches what it throws.
PostRefused(c) ==
  /\ pc[c] = "post" /\ Refreshed(c) /\ ~Passes(c)
  /\ Recover(c, Recorded)
  /\ UNCHANGED <<hands, session, cause, unvouched>>

\* The emergency mouse-up crosses the same guard, and its helper may fail.  A
\* drag swallows how it went, and has no record to clear.
Emergency(c) ==
  /\ pc[c] = "emergency" /\ Refreshed(c)
  /\ Return(c, "idle")
  /\ \/ /\ Passes(c) /\ Delivered(c)
        /\ button' = "up"
        /\ held' \in (IF kind[c] = "drag" THEN {held} ELSE {FALSE, held})
     \/ /\ Passes(c) /\ Delivered(c)
        /\ UNCHANGED <<button, held>>
     \/ ~Passes(c) /\ UNCHANGED <<button, held, unvouched>>
  /\ Found
  /\ UNCHANGED <<session, cause>>

-----------------------------------------------------------------------------
(* The end of a compatibility session: dispose, releaseHeldInput. *)

\* takeReleasePlan forgets the button before the mouse-up is tried.
Dispose ==
  /\ session = "open" /\ ArbiterFree
  /\ IF held
     THEN session' = "settling" /\ Ask(Session) /\ UNCHANGED <<main, mirror, failures>>
     ELSE session' = "closed" /\ UNCHANGED latch
  /\ held' = FALSE
  /\ UNCHANGED <<pc, admitted, kind, button, lost, since, cause, unvouched>>

Still(reason) == IF button = "up" THEN "none" ELSE reason

Settle ==
  /\ session = "settling" /\ Refreshed(Session)
  /\ session' = "closed"
  /\ \/ Passes(Session) /\ button' = "up" /\ lost' = "none"
     \/ Passes(Session) /\ UNCHANGED button /\ lost' = Still("helper")
     \/ ~Passes(Session) /\ UNCHANGED button /\ lost' = Still("guard")
  /\ refresh' = [refresh EXCEPT ![Session] = NoRefresh]
  /\ UNCHANGED <<main, mirror, failures, pc, admitted, kind, held, since, cause,
                 unvouched>>

-----------------------------------------------------------------------------
Init ==
  /\ main = [paused |-> FALSE, generation |-> 0]
  /\ mirror = [ paused |-> FALSE, reason |-> "none",
                authority |-> NoAuthority, generation |-> 0 ]
  /\ refresh = [a \in Actors |-> NoRefresh]
  /\ pc = [a \in Actors |-> "idle"]
  /\ admitted = [a \in Actors |-> 0] /\ since = [a \in Actors |-> 0]
  /\ kind = [a \in Actors |-> "other"]
  /\ held = FALSE /\ button = "up" /\ lost = "none"
  /\ session = "open" /\ failures = 0
  /\ cause = [n \in Native |-> FALSE]
  /\ unvouched = {}

NativeStep(n) == Prepare(n) \/ Perform(n) \/ Deliver(n) \/ Refuse(n)
CompatStep(c) ==
  \/ Enter(c) \/ Approve(c) \/ Begin(c) \/ Bind(c) \/ Front(c)
  \/ Post(c) \/ PostFails(c) \/ PostRefused(c) \/ Emergency(c)

Next ==
  \/ UserSets
  \/ \E a \in Actors : Serve(a) \/ Apply(a) \/ Fail(a)
  \/ \E a \in Native \cup Compat : StartCall(a) \/ Drop(a)
  \/ \E n \in Native : NativeStep(n)
  \/ \E c \in Compat : CompatStep(c)
  \/ Dispose \/ Settle

Spec == Init /\ [][Next]_vars

-----------------------------------------------------------------------------
(* Properties. *)

\* The shape of the state.
TypeOK ==
  /\ main \in [paused : BOOLEAN, generation : Nat]
  /\ mirror \in [ paused : BOOLEAN, reason : {"none", "user", "unreachable"},
                  authority : Nat \cup {NoAuthority}, generation : Nat ]
  /\ refresh \in [Actors -> [ state : {"none", "asked", "answered", "done", "failed"},
                              paused : BOOLEAN, generation : Nat ]]
  /\ pc \in [Actors -> Resting \cup Admitted \cup {"gate", "entry", "queued", "begin"}]
  /\ admitted \in [Actors -> Nat] /\ since \in [Actors -> Nat]
  /\ kind \in [Actors -> Kinds]
  /\ held \in BOOLEAN /\ button \in {"up", "kept", "loose"}
  /\ lost \in {"none", "helper", "guard"}
  /\ session \in {"open", "settling", "closed"}
  /\ failures \in Nat /\ cause \in [Native -> BOOLEAN]
  /\ unvouched \subseteq Native \cup Compat

\* No input is delivered unless main itself said "running" to the refresh made
\* for that delivery and the user took nothing over since the action was
\* admitted, whatever other refreshes write to the shared mirror meanwhile
\* (requireInputAvailable, TakeoverMutationGuard.require).
DeliveredUnderConsent == unvouched = {}

\* An action is discarded for a takeover only if there was one, or a refresh
\* failed, or the mirror was behind main: a session in which nothing happens
\* does not churn its generation (refreshTakeoverAuthority's comment).
DiscardHasCause ==
  \A n \in Native : pc[n] = "discarded" => cause[n]

\* A button that pointerPrimitive put down is on the record that dispose and
\* mouse_up work from as long as it is down, or dispose has already reported that
\* it could not be released: whatever fails or is refused between the press, its
\* emergency release and the inputs that follow (the comment of pointerPrimitive).
HeldIsRecorded == button = "kept" => held \/ lost # "none" \/ session = "settling"

\* After dispose no recorded button is left down unless the helper could not
\* release it: "the one cleanup that must not be best-effort-and-forget"
\* (dispose).  The code does not keep it: the mouse-up of releaseHeldInput passes
\* the guard too, which refuses it while the user has control.
DisposedIsNeutral == session = "closed" /\ button = "kept" => lost = "helper"

\* What the code does not keep: every button that is down is on the record, as
\* InputExecutor's comment says of drags too.  A click or a drag whose helper fails
\* half-way, or a mouse_down without a target or a driver, leaves it unrecorded.
EveryPressRecorded ==
  button # "up" => held \/ lost # "none" \/ session = "settling"
=============================================================================

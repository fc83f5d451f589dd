-------------------------- MODULE EngineSupervisor --------------------------
(***************************************************************************)
(* The desktop app's engine supervisor: it launches the headless engine as *)
(* a child process, follows its protocol stream, watches it with timers,   *)
(* restarts it within a budget after a crash, and stops it.                 *)
(*                                                                          *)
(* Every handler of the supervisor runs to completion on the JavaScript    *)
(* main thread, so a handler is one action.  What interleaves is the order *)
(* of the events: the user's clicks, the messages and exits of every       *)
(* engine process that is still alive (superseded ones included), and the  *)
(* restart, kill-escalation and watchdog timers.                            *)
(*                                                                          *)
(* Time: launchAge and beatAge are the ages (now - spawnedAt and            *)
(* now - heartbeat.at) that the code compares with its limits; Elapse      *)
(* advances them.  A timer armed with a delay may fire at any later point. *)
(***************************************************************************)
EXTENDS Integers, Sequences, FiniteSets

CONSTANTS
  MaxLaunches,     \* bound on the number of engine launches in a behaviour
  Projects,        \* project directories the user opens
  Sessions,        \* session ids of a project, which the user may resume
  Reads,           \* replay-safe messages of the renderer (ping, query, configGet)
  MaxQueue,        \* MAX_QUEUE of the code (32)
  BootPhases,      \* boot phases this engine build announces; the phase machine does
                   \* not know loading_interface
  Majors,          \* protocol majors an engine may announce
  MemoryProfiles,  \* profiles the free memory may call for at a launch
  UserShed,        \* TRUE when the environment switches a capability off
  SpawnMayThrow,   \* TRUE when deps.spawn may throw synchronously
  MalformedLimit,  \* malformed lines tolerated before the handshake (20)
  StartupTimeout, IdleTimeout, ActiveTimeout, StableTime, \* units of age
  AgeLimit,        \* ages saturate here, above every limit
  MaxAttempts      \* policy.maxAttempts

NoEngine  == 0
Detached  == -1
NoProject == "no_project"
NoSession == <<NoProject, "no_session">>
NotYet    == -1              \* launchAge while spawnedAt is still 0
NoVerdict == "no_verdict"

Launches == 1..MaxLaunches
Profiles == {"full", "conservative", "minimal"}
Supported == {"v2", "v3"}                    \* CLIENT_MIN..MAX_COMPATIBLE_MAJOR
StartupPhases == {"spawning", "booting", "loading_storage", "loading_graph",
                  "loading_tools", "restoring_session"}
Serving == {"ready", "degraded"}
Phases == StartupPhases \union Serving
            \union {"idle", "restarting", "stopping", "exited", "failed"}
Verdicts == {"startup_timeout", "unresponsive", "protocol_failure"}
ResourceKinds == {"external_kill", "unresponsive"}
Kinds == Verdicts \union {"clean_shutdown", "crash", "external_kill", "spawn_error"}
Exits == {"zero", "nonzero", "sigkill", "signal"}

ASSUME SupervisorAssumption ==
  /\ MaxLaunches \in Nat /\ MaxQueue \in Nat /\ MalformedLimit \in Nat
  /\ MaxAttempts \in Nat
  /\ NoProject \notin Projects
  /\ BootPhases \subseteq (StartupPhases \ {"spawning"}) \union {"loading_interface"}
  /\ Majors \subseteq {"v1", "v2", "v3", "v4"}
  /\ MemoryProfiles \subseteq Profiles
  /\ UserShed \in BOOLEAN /\ SpawnMayThrow \in BOOLEAN
  /\ {StartupTimeout, IdleTimeout, ActiveTimeout, StableTime} \subseteq Nat
  /\ AgeLimit \in Nat
  /\ \A limit \in {StartupTimeout, IdleTimeout, ActiveTimeout, StableTime} :
       limit <= AgeLimit

VARIABLES
  phase, generation,
  child,          \* launch whose handle the supervisor holds, or NoEngine
  childGen,       \* launch whose events count, or Detached
  intentional, verdict, protocol, malformed, beat, beatAge, launchAge,
  watchdog,       \* the watchdog interval is installed
  plan, floor,    \* profile of the last launch; tightest profile demanded so far
  history,        \* deaths inside the rolling window, oldest first
  project, queue, pendingResume, lastSession, interrupted,
  restartPending, \* the automatic-restart timer is armed
  killTimers,     \* launches with an armed SIGKILL timer and a process to kill
  disposed,
  proc,           \* the operating system's view of every launch
  home            \* project every launch was started in

lifeVars    == <<phase, floor, history, restartPending, interrupted>>
launchVars  == <<generation, child, childGen, intentional, verdict, protocol,
                 malformed, beat, beatAge, launchAge, watchdog, plan>>
clientVars  == <<project, queue, pendingResume, lastSession>>
processVars == <<killTimers, proc, home>>
vars == <<lifeVars, launchVars, clientVars, processVars, disposed>>

Alive(g) == proc[g] \in {"up", "term", "kill"}
SessionsOf(p) == {<<p, s>> : s \in Sessions}

-----------------------------------------------------------------------------
(* The phase machine (machine.ts). *)

Rank == [spawning |-> 1, booting |-> 2, loading_storage |-> 3, loading_graph |-> 4,
         loading_tools |-> 5, restoring_session |-> 6]

Legal(p) ==
  CASE p = "idle"            -> {"spawning"}
    [] p \in StartupPhases   -> {q \in StartupPhases : Rank[q] > Rank[p]} \union Serving
                                  \union {"exited", "failed", "stopping", "restarting"}
    [] p \in Serving         -> (Serving \ {p})
                                  \union {"restarting", "stopping", "exited", "failed"}
    [] p = "restarting"      -> {"spawning", "failed", "stopping", "idle"}
    [] p = "stopping"        -> {"exited", "idle", "spawning"}
    [] p \in {"exited", "failed"} -> {"spawning", "restarting", "idle"}

\* Mutants: a table without the ready -> exited entry; moves that are not normalized.
BugEnter(p, q) == q
BugLegalEnter(p, q) ==
  IF q \in Legal(p) /\ ~(p \in Serving /\ q = "exited") THEN q ELSE p

Enter(p, q) == IF q \in Legal(p) THEN q ELSE p

-----------------------------------------------------------------------------
(* The restart policy (policy.ts) and the capability plan (resources.ts).    *)
(* A death is [kind, stable, ran, auto]: stable is what the policy sees      *)
(* (uptimeMs >= stableMs), ran is whether the process really lived that      *)
(* long, auto is the journal's recovery = 'auto_restart'.                    *)

Tightness == [full |-> 0, conservative |-> 1, minimal |-> 2]
Tighter(a, b) == IF Tightness[a] >= Tightness[b] THEN a ELSE b

Classify(how) ==
  IF intentional THEN "clean_shutdown"
  ELSE IF verdict # NoVerdict THEN verdict
  ELSE CASE how = "sigkill" -> "external_kill"
         [] how = "zero"    -> "clean_shutdown"
         [] OTHER           -> "crash"

\* The deaths since the last clean shutdown.
SinceClean(h) ==
  {i \in 1..Len(h) : \A j \in i..Len(h) : h[j].kind # "clean_shutdown"}

\* The walk back stops after counting a death that followed a stable run.
ConsecutiveCrashes(h) ==
  Cardinality({i \in SinceClean(h) : \A j \in (i + 1)..Len(h) : ~h[j].stable})

ResourceCrashes(h) == Cardinality({i \in SinceClean(h) : h[i].kind \in ResourceKinds})

ShedProfile(current, h) ==
  CASE ResourceCrashes(h) >= 2 -> "minimal"
    [] ResourceCrashes(h) = 1  -> Tighter(current, "conservative")
    [] OTHER                   -> current

\* Mutant: one restart too many.
BugDecide(h) ==
  IF h[Len(h)].kind = "clean_shutdown" THEN "clean_shutdown"
  ELSE IF ConsecutiveCrashes(h) > MaxAttempts + 1 THEN "budget_exhausted"
  ELSE "auto_restart"

Decide(h) ==
  IF h[Len(h)].kind = "clean_shutdown" THEN "clean_shutdown"
  ELSE IF ConsecutiveCrashes(h) > MaxAttempts THEN "budget_exhausted"
  ELSE "auto_restart"

Degraded == plan # "full" \/ UserShed

-----------------------------------------------------------------------------
(* Steps the handlers share. *)

\* Mutants: no SIGTERM; no escalation.
BugTermed(pr, g) == pr
BugEscalating(timers, g) == timers

\* terminateChild on launch g: SIGTERM now, SIGKILL when the timer fires.
Termed(pr, g) == IF g # NoEngine /\ pr[g] = "up" THEN [pr EXCEPT ![g] = "term"] ELSE pr
Escalating(timers, g) == IF g = NoEngine THEN timers ELSE timers \union {g}

KillCurrentChild ==
  /\ proc' = Termed(proc, child)
  /\ killTimers' = Escalating(killTimers, child)
  /\ UNCHANGED home

\* What handleDeath and spawnChild read that an earlier part of the same handler
\* may just have changed.
Here == [phase |-> phase, floor |-> floor, history |-> history,
         timer |-> restartPending, interrupted |-> interrupted]

Become(s) ==
  /\ phase' = s.phase
  /\ floor' = s.floor
  /\ history' = s.history
  /\ restartPending' = s.timer
  /\ interrupted' = s.interrupted

\* handleDeath: record the death, offer the interrupted session, decide.
Died(s, kind, stable, ran, session, active) ==
  LET death(a) == [kind |-> kind, stable |-> stable, ran |-> ran, auto |-> a]
      d == Decide(Append(s.history, death(FALSE)))
      h == Append(s.history, death(d = "auto_restart"))
  IN  /\ child' = NoEngine
      /\ watchdog' = FALSE
      /\ Become([phase |-> Enter(s.phase, CASE d = "auto_restart"     -> "restarting"
                                            [] d = "budget_exhausted" -> "failed"
                                            [] d = "clean_shutdown"   -> "exited"),
                 floor |-> IF kind \in ResourceKinds
                             THEN Tighter(s.floor, ShedProfile(plan, h)) ELSE s.floor,
                 history |-> h,
                 timer |-> s.timer \/ d = "auto_restart",
                 interrupted |-> IF /\ kind # "clean_shutdown"
                                    /\ session.id # NoSession
                                    /\ session.work \/ active
                                   THEN session.id ELSE s.interrupted])

\* spawnChild, in state s with the processes pr; deps.spawn succeeds or throws.
SpawnChild(s, pr, dir, session) ==
  LET g == generation + 1
      routed == IF s.phase # "spawning" /\ "spawning" \notin Legal(s.phase)
                  THEN Enter(s.phase, "restarting") ELSE s.phase
      t == [s EXCEPT !.phase = Enter(routed, "spawning")]
  IN  /\ ~disposed
      /\ g <= MaxLaunches
      /\ generation' = g
      /\ childGen' = g
      /\ intentional' = FALSE
      /\ verdict' = NoVerdict
      /\ protocol' = "unknown"
      /\ malformed' = 0
      /\ beat' = "none" /\ beatAge' = 0
      /\ \E mem \in MemoryProfiles : plan' = Tighter(mem, s.floor)
      /\ \/ /\ child' = g
            /\ launchAge' = 0
            /\ watchdog' = TRUE
            /\ proc' = [pr EXCEPT ![g] = "up"]
            /\ home' = [home EXCEPT ![g] = dir]
            /\ Become(t)
         \/ /\ SpawnMayThrow
            /\ proc' = pr
            /\ Died(t, "spawn_error", launchAge >= StableTime, FALSE, session, FALSE)
            /\ UNCHANGED <<launchAge, home>>

\* Mutant: the armed restart is not cancelled.
BugReplace(s, dir, session) ==
  /\ SpawnChild(s, Termed(proc, child), dir, session)
  /\ killTimers' = Escalating(killTimers, child)

\* supersedeChild, then spawnChild.
Replace(s, dir, session) ==
  /\ SpawnChild([s EXCEPT !.timer = FALSE], Termed(proc, child), dir, session)
  /\ killTimers' = Escalating(killTimers, child)

-----------------------------------------------------------------------------
(* The user's requests. *)

OpenProject(p) ==
  /\ project' = p
  /\ queue' = <<>>
  /\ pendingResume' = NoSession
  /\ lastSession' = [id |-> NoSession, work |-> FALSE]
  /\ Replace([Here EXCEPT !.history = <<>>, !.floor = "full",
                          !.interrupted = NoSession], p, lastSession')
  /\ UNCHANGED disposed

Stop ==
  /\ restartPending' = FALSE
  /\ IF child = NoEngine
       THEN /\ phase' = Enter(phase, "idle")
            /\ UNCHANGED <<intentional, processVars>>
       ELSE /\ phase' = Enter(phase, "stopping")
            /\ intentional' = TRUE
            /\ KillCurrentChild
  /\ UNCHANGED <<floor, history, interrupted, generation, child, childGen, verdict,
                 protocol, malformed, beat, beatAge, launchAge, watchdog, plan,
                 clientVars, disposed>>

\* dispose() drops every armed SIGKILL timer, then terminates the current child.
Dispose ==
  /\ disposed' = TRUE
  /\ restartPending' = FALSE
  /\ watchdog' = FALSE
  /\ killTimers' = Escalating({}, child)
  /\ proc' = Termed(proc, child)
  /\ child' = NoEngine
  /\ childGen' = Detached
  /\ UNCHANGED <<phase, floor, history, interrupted, generation, intentional, verdict,
                 protocol, malformed, beat, beatAge, launchAge, plan, clientVars, home>>

\* manualRestart: ignored while an engine is already starting.
ManualRestart(f) ==
  /\ ~disposed
  /\ project # NoProject
  /\ ~(child # NoEngine /\ phase \in StartupPhases)
  /\ Replace([Here EXCEPT !.floor = f], project, lastSession)

\* Mutant: a retry starts from the full profile again.
BugRetry == ManualRestart("full") /\ UNCHANGED <<clientVars, disposed>>

Retry == ManualRestart(floor) /\ UNCHANGED <<clientVars, disposed>>

StartMinimal == ManualRestart("minimal") /\ UNCHANGED <<clientVars, disposed>>

\* The resume request is kept even when the restart itself is ignored.
RestartSafe(s) ==
  /\ pendingResume' = IF s = NoSession THEN pendingResume ELSE s
  /\ \/ ManualRestart(Tighter(floor, "conservative"))
     \/ /\ disposed \/ project = NoProject
            \/ (child # NoEngine /\ phase \in StartupPhases)
        /\ UNCHANGED <<lifeVars, launchVars, processVars>>
  /\ UNCHANGED <<project, queue, lastSession, disposed>>

RequestResume(s) ==
  /\ IF phase \in Serving /\ child # NoEngine
       THEN /\ interrupted' = NoSession                    \* sent at once
            /\ UNCHANGED <<pendingResume, phase, floor, history, restartPending,
                           launchVars, processVars>>
       ELSE /\ pendingResume' = s
            /\ IF child = NoEngine /\ phase # "restarting" /\ ~disposed
                    /\ project # NoProject
                 THEN ManualRestart(floor)
                 ELSE UNCHANGED <<lifeVars, launchVars, processVars>>
  /\ UNCHANGED <<project, queue, lastSession, disposed>>

\* Mutant: the queue is not bounded.
BugQueueRead(r) ==
  /\ ~(phase \in Serving /\ child # NoEngine)
  /\ queue' = Append(queue, [msg |-> r, from |-> project])
  /\ UNCHANGED <<lifeVars, launchVars, processVars, disposed,
                 project, pendingResume, lastSession>>

\* sendFromRenderer for a replay-safe read while no engine can take it.  The
\* other outcomes (written to the engine, or rejected) change no state.
QueueRead(r) ==
  /\ ~(phase \in Serving /\ child # NoEngine)
  /\ LET q == Append(queue, [msg |-> r, from |-> project])
     IN  queue' = IF Len(q) > MaxQueue THEN Tail(q) ELSE q
  /\ UNCHANGED <<lifeVars, launchVars, processVars, disposed,
                 project, pendingResume, lastSession>>

-----------------------------------------------------------------------------
(* Events of an engine process.  A superseded one still talks and exits.      *)

\* Mutant: events are not compared with the current generation.
BugCurrent(g) == TRUE

Current(g) == g = childGen

\* A rich hello.  An incompatible one condemns the engine.
Hello(g, major, overlaps) ==
  /\ Alive(g) /\ Current(g)
  /\ overlaps => major \in Supported
  /\ protocol' = major
  /\ IF overlaps THEN UNCHANGED <<verdict, processVars>>
     ELSE verdict' = "protocol_failure" /\ KillCurrentChild
  /\ UNCHANGED <<lifeVars, generation, child, childGen, intentional, malformed, beat,
                 beatAge, launchAge, watchdog, plan, clientVars, disposed>>

Boot(g, p) ==
  /\ Alive(g) /\ Current(g)
  /\ phase' = Enter(phase, p)
  /\ UNCHANGED <<floor, history, restartPending, interrupted, launchVars, clientVars,
                 processVars, disposed>>

Health(g, active) ==
  /\ Alive(g) /\ Current(g)
  /\ beat' = IF active THEN "active" ELSE "idle"
  /\ beatAge' = 0
  /\ UNCHANGED <<lifeVars, generation, child, childGen, intentional, verdict, protocol,
                 malformed, launchAge, watchdog, plan, clientVars, processVars, disposed>>

\* ready.  major is "unknown" when the line carries no legacy version.
Ready(g, major) ==
  LET known == IF protocol = "unknown" THEN major ELSE protocol
      refused == major # "unknown" /\ major \notin Supported
      resumes == pendingResume # NoSession /\ known \notin {"v1", "v2"}
  IN  /\ Alive(g) /\ Current(g)
      /\ protocol' = known
      /\ IF refused
           THEN /\ verdict' = "protocol_failure"
                /\ KillCurrentChild
                /\ UNCHANGED <<phase, interrupted, queue, pendingResume>>
           ELSE /\ phase' = Enter(phase, IF Degraded THEN "degraded" ELSE "ready")
                /\ queue' = <<>>                          \* flushQueue
                /\ pendingResume' = NoSession             \* maybeSendPendingResume
                /\ interrupted' = IF resumes THEN NoSession ELSE interrupted
                /\ UNCHANGED <<verdict, processVars>>
      /\ UNCHANGED <<floor, history, restartPending, generation, child, childGen,
                     intentional, malformed, beat, beatAge, launchAge, watchdog, plan,
                     project, lastSession, disposed>>

Snapshot(g, s, work) ==
  /\ Alive(g) /\ Current(g)
  /\ lastSession' = [id |-> s, work |-> work]
  /\ UNCHANGED <<lifeVars, launchVars, processVars, disposed, project, queue,
                 pendingResume>>

\* A line that is no protocol message; the counter saturates past its limit.
Malformed(g) ==
  LET n == IF malformed > MalformedLimit THEN malformed ELSE malformed + 1
  IN  /\ Alive(g) /\ Current(g)
      /\ malformed' = n
      /\ IF protocol = "unknown" /\ n > MalformedLimit /\ verdict = NoVerdict
           THEN verdict' = "protocol_failure" /\ KillCurrentChild
           ELSE UNCHANGED <<verdict, processVars>>
      /\ UNCHANGED <<lifeVars, generation, child, childGen, intentional, protocol, beat,
                     beatAge, launchAge, watchdog, plan, clientVars, disposed>>

\* The process is gone: onExit for a real exit, onError when it never ran.  The
\* adapter reports one of the two, once, and no message after it.
Ended(g, kind) ==
  /\ Alive(g)
  /\ proc' = [proc EXCEPT ![g] = "gone"]
  /\ IF Current(g)
       THEN /\ Died(Here, kind, launchAge >= StableTime, launchAge >= StableTime,
                    lastSession, beat = "active")
            /\ UNCHANGED <<generation, childGen, intentional, verdict, protocol,
                           malformed, beat, beatAge, launchAge, plan>>
       ELSE UNCHANGED <<lifeVars, launchVars>>
  /\ killTimers' = killTimers \ {g}      \* firing on a gone process does nothing
  /\ UNCHANGED <<clientVars, home, disposed>>

Exit(g, how) == Ended(g, Classify(how))

SpawnError(g) ==
  Ended(g, IF intentional THEN "clean_shutdown" ELSE "spawn_error")

-----------------------------------------------------------------------------
(* Timers and time. *)

RestartFires ==
  /\ restartPending
  /\ SpawnChild([Here EXCEPT !.timer = FALSE], proc, project, lastSession)
  /\ UNCHANGED <<clientVars, killTimers, disposed>>

KillFires(g) ==
  /\ g \in killTimers
  /\ killTimers' = killTimers \ {g}
  /\ proc' = [proc EXCEPT ![g] = "kill"]
  /\ UNCHANGED <<lifeVars, launchVars, clientVars, home, disposed>>

Condemn(v) ==
  /\ watchdog /\ child # NoEngine /\ verdict = NoVerdict
  /\ verdict' = v
  /\ KillCurrentChild
  /\ UNCHANGED <<lifeVars, generation, child, childGen, intentional, protocol, malformed,
                 beat, beatAge, launchAge, watchdog, plan, clientVars, disposed>>

\* Mutant: only an engine with heartbeats is watched.
BugTickStartup ==
  /\ phase \in StartupPhases /\ beat # "none"
  /\ launchAge > StartupTimeout
  /\ Condemn("startup_timeout")

TickStartup ==
  /\ phase \in StartupPhases
  /\ launchAge > StartupTimeout
  /\ Condemn("startup_timeout")

TickHeartbeat ==
  /\ phase \in Serving
  /\ beat # "none"
  /\ beatAge > (IF beat = "active" THEN ActiveTimeout ELSE IdleTimeout)
  /\ Condemn("unresponsive")

Older(age) == IF age < AgeLimit THEN age + 1 ELSE age

Elapse ==
  /\ launchAge' = IF launchAge = NotYet THEN launchAge ELSE Older(launchAge)
  /\ beatAge' = IF beat = "none" THEN beatAge ELSE Older(beatAge)
  /\ <<launchAge', beatAge'>> # <<launchAge, beatAge>>
  /\ UNCHANGED <<lifeVars, generation, child, childGen, intentional, verdict, protocol,
                 malformed, beat, watchdog, plan, clientVars, processVars, disposed>>

\* The oldest death leaves the rolling window.
LeaveWindow ==
  /\ history # <<>> /\ ~disposed
  /\ history' = Tail(history)
  /\ UNCHANGED <<phase, floor, restartPending, interrupted, launchVars, clientVars,
                 processVars, disposed>>

-----------------------------------------------------------------------------
Init ==
  /\ phase = "idle" /\ generation = 0 /\ child = NoEngine /\ childGen = 0
  /\ intentional = FALSE /\ verdict = NoVerdict /\ protocol = "unknown"
  /\ malformed = 0 /\ beat = "none" /\ beatAge = 0 /\ launchAge = NotYet
  /\ watchdog = FALSE
  /\ plan \in MemoryProfiles /\ floor = "full" /\ history = <<>>
  /\ project = NoProject /\ queue = <<>> /\ pendingResume = NoSession
  /\ lastSession = [id |-> NoSession, work |-> FALSE] /\ interrupted = NoSession
  /\ restartPending = FALSE /\ killTimers = {} /\ disposed = FALSE
  /\ proc = [g \in Launches |-> "none"]
  /\ home = [g \in Launches |-> NoProject]

\* The app drops its reference when it disposes the supervisor.
UserStep ==
  /\ ~disposed
  /\ \/ \E p \in Projects : OpenProject(p)
     \/ Stop \/ Dispose \/ Retry \/ StartMinimal
     \/ \E s \in SessionsOf(project) \union {NoSession} : RestartSafe(s)
     \/ \E s \in SessionsOf(project) : RequestResume(s)
     \/ \E r \in Reads : QueueRead(r)

EngineStep(g) ==
  \/ \E major \in Majors \union {"unknown"}, overlaps \in BOOLEAN :
       Hello(g, major, overlaps)
  \/ \E p \in BootPhases : Boot(g, p)
  \/ \E active \in BOOLEAN : Health(g, active)
  \/ \E major \in Majors \union {"unknown"} : Ready(g, major)
  \/ \E s \in SessionsOf(home[g]), work \in BOOLEAN : Snapshot(g, s, work)
  \/ Malformed(g)
  \/ \E how \in Exits : Exit(g, how)
  \/ SpawnError(g)

TimerStep ==
  \/ RestartFires
  \/ \E g \in Launches : KillFires(g)
  \/ TickStartup \/ TickHeartbeat \/ Elapse \/ LeaveWindow

Next == UserStep \/ (\E g \in Launches : EngineStep(g)) \/ TimerStep

Spec == Init /\ [][Next]_vars

(***************************************************************************)
(* Fairness: time passes, armed timers and the watchdog interval fire, and *)
(* a process that was sent SIGKILL is reported gone.  Nothing is assumed   *)
(* of an engine that was not killed: it may hang, or ignore SIGTERM.       *)
(***************************************************************************)
KilledEnds(g) == proc[g] = "kill" /\ Exit(g, "sigkill")

Fairness ==
  /\ WF_vars(Elapse) /\ WF_vars(RestartFires)
  /\ WF_vars(TickStartup) /\ WF_vars(TickHeartbeat)
  /\ \A g \in Launches : WF_vars(KillFires(g)) /\ WF_vars(KilledEnds(g))

FairSpec == Spec /\ Fairness

-----------------------------------------------------------------------------
(* Properties. *)

Deaths == [kind : Kinds, stable : BOOLEAN, ran : BOOLEAN, auto : BOOLEAN]
AnySession == {NoSession} \union ((Projects \union {NoProject}) \X Sessions)

\* Every variable has its type; the renderer's queue stays within MAX_QUEUE.
TypeOK ==
  /\ phase \in Phases
  /\ generation \in 0..MaxLaunches
  /\ child \in Launches \union {NoEngine}
  /\ childGen \in Launches \union {0, Detached}
  /\ intentional \in BOOLEAN
  /\ verdict \in Verdicts \union {NoVerdict}
  /\ protocol \in Majors \union {"unknown"}
  /\ malformed \in 0..(MalformedLimit + 1)
  /\ beat \in {"none", "idle", "active"}
  /\ beatAge \in 0..AgeLimit
  /\ launchAge \in NotYet..AgeLimit
  /\ watchdog \in BOOLEAN
  /\ plan \in Profiles /\ floor \in Profiles
  /\ history \in Seq(Deaths)
  /\ project \in Projects \union {NoProject}
  /\ queue \in Seq([msg : Reads, from : Projects \union {NoProject}])
  /\ Len(queue) <= MaxQueue
  /\ pendingResume \in AnySession
  /\ lastSession \in [id : AnySession, work : BOOLEAN]
  /\ interrupted \in AnySession
  /\ restartPending \in BOOLEAN
  /\ killTimers \in SUBSET Launches
  /\ disposed \in BOOLEAN
  /\ proc \in [Launches -> {"none", "up", "term", "kill", "gone"}]
  /\ home \in [Launches -> Projects \union {NoProject}]

\* At most one engine works for the app: a process that was not told to terminate is
\* the one whose handle the supervisor holds and whose events it accepts.
OneEngine ==
  /\ \A g \in Launches : proc[g] = "up" => g = child
  /\ child # NoEngine => child = childGen /\ Alive(child)

\* The phase the renderer is shown tells whether an engine is held, whatever order the
\* clicks, the timers and the events of old engines come in.
PhaseIsHonest ==
  ~disposed =>
    (child # NoEngine <=> phase \in StartupPhases \union Serving \union {"stopping"})

\* The automatic restart is armed exactly while the app announces it; it never runs
\* beside a live engine, after stop() or after dispose().
RestartIsArmedWhenAnnounced ==
  /\ restartPending => child = NoEngine /\ ~disposed /\ ~intentional
  /\ ~disposed => (restartPending <=> phase = "restarting")

\* An engine the watchdog condemned or the user stopped has a SIGKILL on its way, and
\* a held engine is always watched.
CondemnedHasKill ==
  child # NoEngine =>
    /\ watchdog
    /\ (verdict # NoVerdict \/ intentional) =>
          child \in killTimers \/ proc[child] = "kill"

\* Nothing of one project reaches another: what is queued, to be resumed or offered for
\* resumption after a crash comes from the project now open.
ProjectIsolation ==
  /\ \A i \in 1..Len(queue) : queue[i].from = project
  /\ {pendingResume, lastSession.id, interrupted} \subseteq
       SessionsOf(project) \union {NoSession}

\* Bounded recovery: inside the window, without a clean shutdown or an engine that
\* really ran for the stable time in between, at most MaxAttempts automatic restarts.
FruitlessRestarts ==
  {i \in SinceClean(history) :
     history[i].auto /\ \A j \in (i + 1)..Len(history) : ~history[j].ran}

RestartBudget == Cardinality(FruitlessRestarts) <= MaxAttempts

\* Resource deaths that still count keep capabilities shed for every later launch in
\* the project, whatever the user restarts in between.
ResourceDeathsShed ==
  CASE ResourceCrashes(history) >= 2 -> floor = "minimal"
    [] ResourceCrashes(history) = 1  -> floor # "full"
    [] OTHER                         -> TRUE

\* The strengthening that makes the four invariants on the held engine inductive.
Numbering ==
  /\ child \in {NoEngine, generation}
  /\ childGen = (IF disposed THEN Detached ELSE generation)
  /\ disposed => child = NoEngine
  /\ \A g \in Launches : g > generation => proc[g] = "none"

IInv ==
  /\ OneEngine /\ PhaseIsHonest /\ RestartIsArmedWhenAnnounced /\ CondemnedHasKill
  /\ Numbering
  /\ \A g \in Launches : Alive(g) /\ Current(g) => g = child
  /\ \A g \in killTimers : Alive(g)
  /\ ~disposed /\ phase = "stopping" => intentional

\* The exit of a superseded engine changes nothing the supervisor acts on.
StaleExitIsInert ==
  [][(\E g \in Launches : Alive(g) /\ g # child /\ proc'[g] = "gone")
       => UNCHANGED <<lifeVars, launchVars, clientVars>>]_vars

\* Every launch resolves: it serves, dies into a restart or a failure, or is stopped.
StartupEnds ==
  (~disposed /\ phase \in StartupPhases) ~> (disposed \/ phase \notin StartupPhases)

\* Not kept by the code (dispose): "SIGTERM, then SIGKILL if the child lingers".
LingeringEngineIsKilled ==
  \A g \in Launches : (proc[g] = "term") ~> (proc[g] = "gone")

-----------------------------------------------------------------------------
(* What the rest of the app may rely on: the abstract lifecycle. *)

Mode ==
  IF disposed THEN "closed"
  ELSE CASE phase \in StartupPhases      -> "starting"
         [] phase \in Serving            -> "serving"
         [] phase = "restarting"         -> "waiting"
         [] phase \in {"idle", "exited"} -> "off"
         [] OTHER                        -> phase

Lifecycle == INSTANCE EngineLifecycle
               WITH mode <- Mode, current <- child, launched <- generation

\* The supervisor implements the abstract lifecycle.
LifecycleSpec == Lifecycle!Spec
=============================================================================

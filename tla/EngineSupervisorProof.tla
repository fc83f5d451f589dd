----------------------- MODULE EngineSupervisorProof -----------------------
(* Type correctness and the one-engine invariant of EngineSupervisor, for     *)
(* every value of its constants.                                              *)
EXTENDS EngineSupervisor, SequenceTheorems, TLAPS

Situations == [phase : Phases, floor : Profiles, history : Seq(Deaths),
               timer : BOOLEAN, interrupted : AnySession]
SessionInfo == [id : AnySession, work : BOOLEAN]
Decisions == {"clean_shutdown", "budget_exhausted", "auto_restart"}
Processes == [Launches -> {"none", "up", "term", "kill", "gone"}]

-----------------------------------------------------------------------------
(* The phase machine and the policy. *)

\* A move of the phase machine, legal or not, ends in a phase.
LEMMA EnterType ==
  ASSUME NEW p \in Phases, NEW q
  PROVE  Enter(p, q) \in Phases
BY DEF Enter, Legal, Phases, StartupPhases, Serving

\* spawnChild reaches spawning from every phase.
LEMMA SpawningIsReached ==
  ASSUME NEW p \in Phases
  PROVE  Enter(IF p # "spawning" /\ "spawning" \notin Legal(p)
                 THEN Enter(p, "restarting") ELSE p, "spawning") = "spawning"
BY DEF Enter, Legal, Phases, StartupPhases, Serving, Rank

\* The tighter of two profiles is one of them.
LEMMA TighterType ==
  ASSUME NEW a \in Profiles, NEW b \in Profiles
  PROVE  Tighter(a, b) \in Profiles
BY DEF Tighter

\* The shed profile is a profile.
LEMMA ShedType ==
  ASSUME NEW a \in Profiles, NEW h
  PROVE  ShedProfile(a, h) \in Profiles
<1>1. "conservative" \in Profiles /\ "minimal" \in Profiles
  BY DEF Profiles
<1> QED BY <1>1, TighterType DEF ShedProfile

\* A death is answered by no restart exactly when it was a clean shutdown, and else by
\* a restart or by giving up.
LEMMA DecideLast ==
  ASSUME NEW h \in Seq(Deaths), NEW d \in Deaths
  PROVE  /\ Decide(Append(h, d)) \in Decisions
         /\ Decide(Append(h, d)) = "clean_shutdown" <=> d.kind = "clean_shutdown"
<1> DEFINE g == Append(h, d)
<1>1. g[Len(g)] = d
  OBVIOUS
<1> QED BY <1>1 DEF Decide, Decisions

\* handleDeath gives every variable it writes a value of its type, and says which phase.
LEMMA DiedStep ==
  ASSUME NEW s \in Situations, NEW kind \in Kinds, NEW stable \in BOOLEAN,
         NEW ran \in BOOLEAN, NEW session \in SessionInfo, NEW active \in BOOLEAN,
         plan \in Profiles,
         Died(s, kind, stable, ran, session, active)
  PROVE  /\ child' = NoEngine /\ watchdog' = FALSE
         /\ phase' \in Phases /\ floor' \in Profiles /\ history' \in Seq(Deaths)
         /\ restartPending' \in BOOLEAN /\ interrupted' \in AnySession
         /\ \/ kind = "clean_shutdown" /\ phase' = Enter(s.phase, "exited")
               /\ restartPending' = s.timer
            \/ kind # "clean_shutdown" /\ phase' = Enter(s.phase, "restarting")
               /\ restartPending' = TRUE
            \/ kind # "clean_shutdown" /\ phase' = Enter(s.phase, "failed")
               /\ restartPending' = s.timer
<1> DEFINE death(a) == [kind |-> kind, stable |-> stable, ran |-> ran, auto |-> a]
           d == Decide(Append(s.history, death(FALSE)))
           h == Append(s.history, death(d = "auto_restart"))
<1>1. death(FALSE) \in Deaths /\ death(d = "auto_restart") \in Deaths
  BY DEF Deaths
<1>2. s.history \in Seq(Deaths) /\ s.phase \in Phases /\ s.floor \in Profiles
        /\ s.timer \in BOOLEAN /\ s.interrupted \in AnySession
  BY DEF Situations
<1>3. d \in Decisions /\ (d = "clean_shutdown" <=> kind = "clean_shutdown")
  BY <1>1, <1>2, DecideLast
<1>4. h \in Seq(Deaths)
  BY <1>1, <1>2
<1>5. Tighter(s.floor, ShedProfile(plan, h)) \in Profiles
  BY <1>2, ShedType, TighterType
<1>6. session.id \in AnySession
  BY DEF SessionInfo
<1>7. /\ child' = NoEngine /\ watchdog' = FALSE
      /\ history' = h
      /\ floor' = IF kind \in ResourceKinds
                    THEN Tighter(s.floor, ShedProfile(plan, h)) ELSE s.floor
      /\ phase' = Enter(s.phase, CASE d = "auto_restart"     -> "restarting"
                                   [] d = "budget_exhausted" -> "failed"
                                   [] d = "clean_shutdown"   -> "exited")
      /\ restartPending' = (s.timer \/ d = "auto_restart")
      /\ \/ interrupted' = session.id
         \/ interrupted' = s.interrupted
  BY DEF Died, Become
<1>8. phase' \in Phases
  BY <1>2, <1>7, EnterType
<1>9. floor' \in Profiles /\ history' \in Seq(Deaths) /\ interrupted' \in AnySession
  BY <1>2, <1>4, <1>5, <1>6, <1>7
<1>10. restartPending' \in BOOLEAN
  BY <1>2, <1>7
<1>11. CASE d = "clean_shutdown"
  BY <1>2, <1>3, <1>7, <1>8, <1>9, <1>10, <1>11
<1>12. CASE d = "auto_restart"
  BY <1>2, <1>3, <1>7, <1>8, <1>9, <1>10, <1>12
<1>13. CASE d = "budget_exhausted"
  BY <1>2, <1>3, <1>7, <1>8, <1>9, <1>10, <1>13
<1> QED BY <1>3, <1>11, <1>12, <1>13 DEF Decisions

\* What spawnChild leaves: a fresh launch that is held, or a failed attempt that is
\* already answered by a restart or by giving up.
LEMMA SpawnStep ==
  ASSUME TypeOK, NEW s \in Situations, NEW pr \in Processes,
         NEW dir \in Projects \union {NoProject}, NEW session \in SessionInfo,
         SpawnChild(s, pr, dir, session)
  PROVE  /\ ~disposed /\ generation' = generation + 1 /\ generation' \in Launches
         /\ childGen' = generation' /\ intentional' = FALSE /\ verdict' = NoVerdict
         /\ protocol' = "unknown" /\ malformed' = 0 /\ beat' = "none" /\ beatAge' = 0
         /\ launchAge' \in NotYet..AgeLimit /\ plan' \in Profiles
         /\ floor' \in Profiles /\ history' \in Seq(Deaths) /\ interrupted' \in AnySession
         /\ \/ /\ child' = generation' /\ watchdog' = TRUE /\ phase' = "spawning"
               /\ restartPending' = s.timer
               /\ proc' = [pr EXCEPT ![generation'] = "up"]
               /\ home' = [home EXCEPT ![generation'] = dir]
            \/ /\ child' = NoEngine /\ watchdog' = FALSE /\ proc' = pr /\ home' = home
               /\ \/ phase' = "restarting" /\ restartPending' = TRUE
                  \/ phase' = "failed" /\ restartPending' = s.timer
<1> DEFINE routed == IF s.phase # "spawning" /\ "spawning" \notin Legal(s.phase)
                       THEN Enter(s.phase, "restarting") ELSE s.phase
           t == [s EXCEPT !.phase = Enter(routed, "spawning")]
<1>1. s.phase \in Phases /\ s.floor \in Profiles /\ s.history \in Seq(Deaths)
        /\ s.timer \in BOOLEAN /\ s.interrupted \in AnySession
  BY DEF Situations
<1>2. t.phase = "spawning" /\ t.floor = s.floor /\ t.history = s.history
        /\ t.timer = s.timer /\ t.interrupted = s.interrupted /\ t \in Situations
  BY <1>1, SpawningIsReached DEF Situations, Phases, StartupPhases
<1>3. /\ ~disposed /\ generation' = generation + 1 /\ generation + 1 <= MaxLaunches
      /\ childGen' = generation + 1 /\ intentional' = FALSE /\ verdict' = NoVerdict
      /\ protocol' = "unknown" /\ malformed' = 0 /\ beat' = "none" /\ beatAge' = 0
      /\ \E mem \in MemoryProfiles : plan' = Tighter(mem, s.floor)
  BY DEF SpawnChild
<1>4. generation' \in Launches
  BY <1>3, SupervisorAssumption DEF TypeOK, Launches
<1>5. plan' \in Profiles
  BY <1>1, <1>3, TighterType, SupervisorAssumption
<1>6. NotYet..AgeLimit \subseteq Int /\ 0 \in NotYet..AgeLimit
  BY SupervisorAssumption DEF NotYet
<1>7. CASE /\ child' = generation + 1
           /\ launchAge' = 0
           /\ watchdog' = TRUE
           /\ proc' = [pr EXCEPT ![generation + 1] = "up"]
           /\ home' = [home EXCEPT ![generation + 1] = dir]
           /\ Become(t)
  <2>1. /\ phase' = "spawning" /\ floor' = s.floor /\ history' = s.history
        /\ restartPending' = s.timer /\ interrupted' = s.interrupted
    BY <1>2, <1>7 DEF Become
  <2> QED BY <1>1, <1>3, <1>4, <1>5, <1>6, <1>7, <2>1
<1>8. CASE /\ SpawnMayThrow
           /\ proc' = pr
           /\ Died(t, "spawn_error", launchAge >= StableTime, FALSE, session, FALSE)
           /\ UNCHANGED <<launchAge, home>>
  <2>1. "spawn_error" \in Kinds /\ (launchAge >= StableTime) \in BOOLEAN
    BY DEF Kinds
  <2>2. plan \in Profiles /\ launchAge \in NotYet..AgeLimit
    BY DEF TypeOK
  <2>3. /\ child' = NoEngine /\ watchdog' = FALSE
        /\ floor' \in Profiles /\ history' \in Seq(Deaths) /\ interrupted' \in AnySession
        /\ \/ phase' = Enter(t.phase, "restarting") /\ restartPending' = TRUE
           \/ phase' = Enter(t.phase, "failed") /\ restartPending' = t.timer
    BY <1>2, <1>8, <2>1, <2>2, DiedStep
  <2>4. /\ Enter(t.phase, "restarting") = "restarting"
        /\ Enter(t.phase, "failed") = "failed"
    BY <1>2 DEF Enter, Legal, StartupPhases
  <2> QED BY <1>2, <1>3, <1>4, <1>5, <1>8, <2>2, <2>3, <2>4
<1> QED BY <1>7, <1>8 DEF SpawnChild

\* The processes and the timers after a SIGTERM.
LEMMA TermedType ==
  ASSUME NEW pr \in Processes, NEW g \in Launches \union {NoEngine}
  PROVE  Termed(pr, g) \in Processes
BY DEF Termed, Processes

LEMMA EscalatingType ==
  ASSUME NEW timers \in SUBSET Launches, NEW g \in Launches \union {NoEngine}
  PROVE  Escalating(timers, g) \in SUBSET Launches
BY DEF Escalating

\* Sessions of a project are session ids.
LEMMA SessionType ==
  ASSUME NEW p \in Projects \union {NoProject}
  PROVE  SessionsOf(p) \union {NoSession} \subseteq AnySession
BY DEF SessionsOf, AnySession

\* What the handlers hand to spawnChild and handleDeath is well typed.
LEMMA HereType ==
  ASSUME TypeOK
  PROVE  /\ Here \in Situations
         /\ \A f \in Profiles : [Here EXCEPT !.floor = f] \in Situations
         /\ [Here EXCEPT !.history = <<>>, !.floor = "full",
                         !.interrupted = NoSession] \in Situations
         /\ \A s \in Situations :
              /\ [s EXCEPT !.timer = FALSE] \in Situations
              /\ [s EXCEPT !.timer = FALSE].timer = FALSE
         /\ Here.timer = restartPending /\ Here.phase = phase
<1>1. Here \in Situations
  BY DEF TypeOK, Here, Situations
<1>2. ASSUME NEW f \in Profiles
      PROVE  [Here EXCEPT !.floor = f] \in Situations
  BY <1>1 DEF Situations
<1>3. "full" \in Profiles /\ NoSession \in AnySession /\ <<>> \in Seq(Deaths)
  BY DEF Profiles, AnySession
<1>4. [Here EXCEPT !.history = <<>>, !.floor = "full",
                   !.interrupted = NoSession] \in Situations
  BY <1>1, <1>3 DEF Situations
<1>5. ASSUME NEW s \in Situations
      PROVE  /\ [s EXCEPT !.timer = FALSE] \in Situations
             /\ [s EXCEPT !.timer = FALSE].timer = FALSE
  BY DEF Situations
<1> QED BY <1>1, <1>2, <1>4, <1>5 DEF Here

-----------------------------------------------------------------------------
(* Type correctness. *)

\* The types of the variables the supervisor's own steps write.
SupervisorTypes ==
  /\ phase \in Phases
  /\ generation \in 0..MaxLaunches
  /\ child \in Launches \union {NoEngine}
  /\ childGen \in Launches \union {0, Detached}
  /\ intentional \in BOOLEAN
  /\ verdict \in Verdicts \union {NoVerdict}
  /\ protocol \in Majors \union {"unknown"}
  /\ malformed \in 0..(MalformedLimit + 1)
  /\ beat \in {"none", "idle", "active"}
  /\ beatAge \in 0..AgeLimit
  /\ launchAge \in NotYet..AgeLimit
  /\ watchdog \in BOOLEAN
  /\ plan \in Profiles /\ floor \in Profiles
  /\ history \in Seq(Deaths)
  /\ interrupted \in AnySession
  /\ restartPending \in BOOLEAN
  /\ killTimers \in SUBSET Launches
  /\ proc \in Processes
  /\ home \in [Launches -> Projects \union {NoProject}]

ClientTypes ==
  /\ project \in Projects \union {NoProject}
  /\ queue \in Seq([msg : Reads, from : Projects \union {NoProject}])
  /\ Len(queue) <= MaxQueue
  /\ pendingResume \in AnySession
  /\ lastSession \in SessionInfo
  /\ disposed \in BOOLEAN

LEMMA TypesSplit == TypeOK <=> SupervisorTypes /\ ClientTypes
BY DEF TypeOK, SupervisorTypes, ClientTypes, Processes, SessionInfo

LEMMA SpawnType ==
  ASSUME TypeOK, NEW s \in Situations, NEW pr \in Processes,
         NEW dir \in Projects \union {NoProject}, NEW session \in SessionInfo,
         SpawnChild([s EXCEPT !.timer = FALSE], pr, dir, session),
         killTimers' \in SUBSET Launches
  PROVE  SupervisorTypes'
<1> DEFINE t == [s EXCEPT !.timer = FALSE]
<1>1. t \in Situations /\ t.timer = FALSE
  BY HereType
<1> HIDE DEF t
<1>2. SpawnChild(t, pr, dir, session)
  BY DEF t
<1>3. /\ generation' \in Launches /\ childGen' = generation' /\ intentional' = FALSE
      /\ verdict' = NoVerdict /\ protocol' = "unknown" /\ malformed' = 0
      /\ beat' = "none" /\ beatAge' = 0
      /\ launchAge' \in NotYet..AgeLimit /\ plan' \in Profiles
      /\ floor' \in Profiles /\ history' \in Seq(Deaths) /\ interrupted' \in AnySession
      /\ \/ /\ child' = generation' /\ watchdog' = TRUE /\ phase' = "spawning"
            /\ restartPending' = FALSE
            /\ proc' = [pr EXCEPT ![generation'] = "up"]
            /\ home' = [home EXCEPT ![generation'] = dir]
         \/ /\ child' = NoEngine /\ watchdog' = FALSE /\ proc' = pr /\ home' = home
            /\ phase' \in {"restarting", "failed"} /\ restartPending' \in BOOLEAN
  BY <1>1, <1>2, SpawnStep
<1>4. generation' \in 0..MaxLaunches /\ malformed' \in 0..(MalformedLimit + 1)
        /\ beatAge' \in 0..AgeLimit
  BY <1>3, SupervisorAssumption DEF Launches
<1>5. phase' \in Phases /\ child' \in Launches \union {NoEngine}
        /\ watchdog' \in BOOLEAN /\ restartPending' \in BOOLEAN
  BY <1>3 DEF Phases, StartupPhases
<1>6. proc' \in Processes /\ home' \in [Launches -> Projects \union {NoProject}]
  BY <1>3 DEF TypeOK, Processes
<1> QED BY <1>3, <1>4, <1>5, <1>6 DEF SupervisorTypes

LEMMA ReplaceType ==
  ASSUME TypeOK, NEW s \in Situations,
         NEW dir \in Projects \union {NoProject}, NEW session \in SessionInfo,
         Replace(s, dir, session)
  PROVE  SupervisorTypes'
<1>1. Termed(proc, child) \in Processes /\ Escalating(killTimers, child) \in SUBSET Launches
  BY TermedType, EscalatingType DEF TypeOK, Processes
<1> QED BY <1>1, SpawnType DEF Replace

LEMMA ManualRestartType ==
  ASSUME TypeOK, NEW f \in Profiles, ManualRestart(f)
  PROVE  SupervisorTypes'
<1>1. [Here EXCEPT !.floor = f] \in Situations
  BY HereType
<1>2. project \in Projects \union {NoProject} /\ lastSession \in SessionInfo
  BY DEF TypeOK, SessionInfo
<1> QED BY <1>1, <1>2, ReplaceType DEF ManualRestart

LEMMA KillType ==
  ASSUME TypeOK, KillCurrentChild
  PROVE  /\ proc' \in Processes /\ killTimers' \in SUBSET Launches
         /\ home' \in [Launches -> Projects \union {NoProject}]
BY TermedType, EscalatingType DEF TypeOK, Processes, KillCurrentChild

\* A request of the user keeps the types.
LEMMA UserType == TypeOK /\ UserStep => TypeOK'
<1> SUFFICES ASSUME TypeOK, UserStep PROVE SupervisorTypes' /\ ClientTypes'
  BY TypesSplit DEF TypeOK, SupervisorTypes, ClientTypes, Processes, SessionInfo
<1> USE TypesSplit
<1>1. ASSUME NEW p \in Projects, OpenProject(p) PROVE SupervisorTypes' /\ ClientTypes'
  <2>1. lastSession' \in SessionInfo
    BY <1>1 DEF OpenProject, SessionInfo, AnySession
  <2>2. [Here EXCEPT !.history = <<>>, !.floor = "full",
                     !.interrupted = NoSession] \in Situations
    BY HereType
  <2>3. SupervisorTypes'
    BY <1>1, <2>1, <2>2, ReplaceType DEF OpenProject
  <2>4. ClientTypes'
    BY <1>1, <2>1, SupervisorAssumption
    DEF OpenProject, ClientTypes, AnySession
  <2> QED BY <2>3, <2>4
<1>2. CASE Stop
  <2>1. phase' \in Phases
    BY <1>2, EnterType DEF Stop, SupervisorTypes
  <2>2. proc' \in Processes /\ killTimers' \in SUBSET Launches
          /\ home' \in [Launches -> Projects \union {NoProject}]
    BY <1>2, KillType DEF Stop, SupervisorTypes, processVars
  <2>3. SupervisorTypes'
    BY <1>2, <2>1, <2>2 DEF Stop, SupervisorTypes
  <2> QED BY <1>2, <2>3 DEF Stop, ClientTypes, clientVars
<1>3. CASE Dispose
  <2>1. Termed(proc, child) \in Processes /\ Escalating({}, child) \in SUBSET Launches
    BY TermedType, EscalatingType DEF SupervisorTypes
  <2>2. SupervisorTypes'
    BY <1>3, <2>1 DEF Dispose, SupervisorTypes
  <2> QED BY <1>3, <2>2 DEF Dispose, ClientTypes, clientVars
<1>4. CASE Retry
  BY <1>4, ManualRestartType DEF Retry, SupervisorTypes, ClientTypes, clientVars
<1>5. CASE StartMinimal
  BY <1>5, ManualRestartType DEF StartMinimal, Profiles, ClientTypes, clientVars
<1>6. ASSUME NEW s \in SessionsOf(project) \union {NoSession}, RestartSafe(s)
      PROVE  SupervisorTypes' /\ ClientTypes'
  <2>1. Tighter(floor, "conservative") \in Profiles
    BY TighterType DEF SupervisorTypes, Profiles
  <2>2. SupervisorTypes'
    BY <1>6, <2>1, ManualRestartType
    DEF RestartSafe, SupervisorTypes, lifeVars, launchVars, processVars
  <2>3. s \in AnySession
    BY <1>6, SessionType DEF ClientTypes
  <2> QED BY <1>6, <2>2, <2>3 DEF RestartSafe, ClientTypes
<1>7. ASSUME NEW s \in SessionsOf(project), RequestResume(s)
      PROVE  SupervisorTypes' /\ ClientTypes'
  <2>1. s \in AnySession /\ NoSession \in AnySession
    BY <1>7, SessionType DEF ClientTypes, AnySession
  <2>2. SupervisorTypes'
    BY <1>7, <2>1, ManualRestartType
    DEF RequestResume, SupervisorTypes, lifeVars, launchVars, processVars
  <2> QED BY <1>7, <2>1, <2>2 DEF RequestResume, ClientTypes
<1>8. ASSUME NEW r \in Reads, QueueRead(r) PROVE SupervisorTypes' /\ ClientTypes'
  <2> DEFINE Messages == [msg : Reads, from : Projects \union {NoProject}]
             q == Append(queue, [msg |-> r, from |-> project])
  <2>1. [msg |-> r, from |-> project] \in Messages
    BY DEF ClientTypes
  <2>2. q \in Seq(Messages) /\ Len(q) = Len(queue) + 1 /\ Len(queue) \in Nat
    BY <2>1 DEF ClientTypes
  <2> HIDE DEF q, Messages
  <2>3. Tail(q) \in Seq(Messages) /\ Len(Tail(q)) = Len(q) - 1
    BY <2>2, HeadTailProperties
  <2> MaxQueue \in Nat
    BY SupervisorAssumption
  <2>4. queue' = IF Len(q) > MaxQueue THEN Tail(q) ELSE q
    BY <1>8 DEF QueueRead, q
  <2>5. queue' \in Seq(Messages) /\ Len(queue') <= MaxQueue
    BY <2>2, <2>3, <2>4, MaxQueue \in Nat DEF ClientTypes
  <2>6. SupervisorTypes'
    BY <1>8 DEF QueueRead, SupervisorTypes, lifeVars, launchVars, processVars
  <2> QED BY <1>8, <2>5, <2>6 DEF QueueRead, ClientTypes, Messages
<1> QED BY <1>1, <1>2, <1>3, <1>4, <1>5, <1>6, <1>7, <1>8 DEF UserStep

\* The kind a real exit is given.
LEMMA ClassifyType ==
  ASSUME verdict \in Verdicts \union {NoVerdict}, NEW how \in Exits
  PROVE  Classify(how) \in Kinds
BY DEF Classify, Kinds, Verdicts

LEMMA EndedType ==
  ASSUME TypeOK, NEW g \in Launches, NEW kind \in Kinds, Ended(g, kind)
  PROVE  SupervisorTypes' /\ ClientTypes'
<1> USE TypesSplit
<1>1. proc' \in Processes /\ killTimers' \in SUBSET Launches
        /\ home' \in [Launches -> Projects \union {NoProject}]
  BY DEF Ended, SupervisorTypes, Processes
<1>2. ClientTypes'
  BY DEF Ended, ClientTypes, clientVars
<1>3. CASE Current(g)
  <2> DEFINE stable == launchAge >= StableTime
             active == beat = "active"
  <2>1. Here \in Situations /\ lastSession \in SessionInfo /\ plan \in Profiles
          /\ stable \in BOOLEAN /\ active \in BOOLEAN
    BY HereType DEF SupervisorTypes, ClientTypes
  <2>2. Died(Here, kind, stable, stable, lastSession, active)
          /\ UNCHANGED <<generation, childGen, intentional, verdict, protocol,
                         malformed, beat, beatAge, launchAge, plan>>
    BY <1>3 DEF Ended
  <2> HIDE DEF stable, active
  <2>3. /\ child' = NoEngine /\ watchdog' = FALSE
        /\ phase' \in Phases /\ floor' \in Profiles /\ history' \in Seq(Deaths)
        /\ restartPending' \in BOOLEAN /\ interrupted' \in AnySession
    BY <2>1, <2>2, DiedStep
  <2> QED BY <1>1, <1>2, <2>2, <2>3 DEF SupervisorTypes
<1>4. CASE ~Current(g)
  BY <1>1, <1>2, <1>4 DEF Ended, SupervisorTypes, lifeVars, launchVars
<1> QED BY <1>3, <1>4

\* An event of an engine process keeps the types.
LEMMA EngineType ==
  ASSUME TypeOK, NEW g \in Launches, EngineStep(g)
  PROVE  TypeOK'
<1> SUFFICES SupervisorTypes' /\ ClientTypes'
  BY DEF TypeOK, SupervisorTypes, ClientTypes, Processes, SessionInfo
<1> USE TypesSplit
<1>1. ASSUME NEW major \in Majors \union {"unknown"}, NEW overlaps \in BOOLEAN,
             Hello(g, major, overlaps)
      PROVE  SupervisorTypes' /\ ClientTypes'
  <2>1. /\ proc' \in Processes /\ killTimers' \in SUBSET Launches
        /\ home' \in [Launches -> Projects \union {NoProject}]
        /\ verdict' \in Verdicts \union {NoVerdict}
    BY <1>1, KillType DEF Hello, SupervisorTypes, processVars, Verdicts
  <2>2. SupervisorTypes'
    BY <1>1, <2>1 DEF Hello, SupervisorTypes, lifeVars
  <2> QED BY <1>1, <2>2 DEF Hello, ClientTypes, clientVars
<1>2. ASSUME NEW p \in BootPhases, Boot(g, p) PROVE SupervisorTypes' /\ ClientTypes'
  <2>1. phase' \in Phases
    BY <1>2, EnterType DEF Boot, SupervisorTypes
  <2>2. SupervisorTypes'
    BY <1>2, <2>1 DEF Boot, SupervisorTypes, launchVars, processVars
  <2> QED BY <1>2, <2>2 DEF Boot, ClientTypes, clientVars
<1>3. ASSUME NEW active \in BOOLEAN, Health(g, active)
      PROVE  SupervisorTypes' /\ ClientTypes'
  <2>1. SupervisorTypes'
    BY <1>3, SupervisorAssumption DEF Health, SupervisorTypes, lifeVars, processVars
  <2> QED BY <1>3, <2>1 DEF Health, ClientTypes, clientVars
<1>4. ASSUME NEW major \in Majors \union {"unknown"}, Ready(g, major)
      PROVE  SupervisorTypes' /\ ClientTypes'
  <2>1. NoSession \in AnySession /\ <<>> \in Seq([msg : Reads, from : Projects \union {NoProject}])
          /\ Len(<<>>) <= MaxQueue
    BY SupervisorAssumption DEF AnySession
  <2>2. /\ proc' \in Processes /\ killTimers' \in SUBSET Launches
        /\ home' \in [Launches -> Projects \union {NoProject}]
        /\ verdict' \in Verdicts \union {NoVerdict}
        /\ phase' \in Phases
    BY <1>4, KillType, EnterType DEF Ready, SupervisorTypes, processVars, Verdicts
  <2>3. /\ protocol' \in Majors \union {"unknown"}
        /\ interrupted' \in AnySession
        /\ pendingResume' \in AnySession
    BY <1>4, <2>1 DEF Ready, SupervisorTypes, ClientTypes
  <2>4. SupervisorTypes'
    BY <1>4, <2>2, <2>3 DEF Ready, SupervisorTypes
  <2>5. queue' \in Seq([msg : Reads, from : Projects \union {NoProject}])
          /\ Len(queue') <= MaxQueue
    BY <1>4, <2>1 DEF Ready, ClientTypes
  <2> QED BY <1>4, <2>3, <2>4, <2>5 DEF Ready, ClientTypes
<1>5. ASSUME NEW s \in SessionsOf(home[g]), NEW work \in BOOLEAN, Snapshot(g, s, work)
      PROVE  SupervisorTypes' /\ ClientTypes'
  <2>1. home[g] \in Projects \union {NoProject}
    BY DEF SupervisorTypes
  <2>2. s \in AnySession
    BY <2>1, <1>5, SessionType
  <2>3. SupervisorTypes'
    BY <1>5 DEF Snapshot, SupervisorTypes, lifeVars, launchVars, processVars
  <2> QED BY <1>5, <2>2, <2>3 DEF Snapshot, ClientTypes, SessionInfo
<1>6. ASSUME Malformed(g) PROVE SupervisorTypes' /\ ClientTypes'
  <2>1. malformed' \in 0..(MalformedLimit + 1)
    BY <1>6, SupervisorAssumption DEF Malformed, SupervisorTypes
  <2>2. /\ proc' \in Processes /\ killTimers' \in SUBSET Launches
        /\ home' \in [Launches -> Projects \union {NoProject}]
        /\ verdict' \in Verdicts \union {NoVerdict}
    BY <1>6, KillType DEF Malformed, SupervisorTypes, processVars, Verdicts
  <2>3. SupervisorTypes'
    BY <1>6, <2>1, <2>2 DEF Malformed, SupervisorTypes, lifeVars
  <2> QED BY <1>6, <2>3 DEF Malformed, ClientTypes, clientVars
<1>7. ASSUME NEW how \in Exits, Exit(g, how) PROVE SupervisorTypes' /\ ClientTypes'
  BY <1>7, ClassifyType, EndedType DEF Exit, SupervisorTypes
<1>8. ASSUME SpawnError(g) PROVE SupervisorTypes' /\ ClientTypes'
  BY <1>8, EndedType DEF SpawnError, Kinds
<1> QED BY <1>1, <1>2, <1>3, <1>4, <1>5, <1>6, <1>7, <1>8 DEF EngineStep

LEMMA CondemnType ==
  ASSUME TypeOK, NEW v \in Verdicts, Condemn(v)
  PROVE  SupervisorTypes' /\ ClientTypes'
<1> USE TypesSplit
<1>1. SupervisorTypes'
  BY KillType DEF Condemn, SupervisorTypes, lifeVars
<1> QED BY <1>1 DEF Condemn, ClientTypes, clientVars

\* A timer, the clock and the rolling window keep the types.
LEMMA TimerType == TypeOK /\ TimerStep => TypeOK'
<1> SUFFICES ASSUME TypeOK, TimerStep PROVE SupervisorTypes' /\ ClientTypes'
  BY TypesSplit DEF TypeOK, SupervisorTypes, ClientTypes, Processes, SessionInfo
<1> USE TypesSplit
<1>1. CASE RestartFires
  <2>1. Here \in Situations /\ proc \in Processes /\ lastSession \in SessionInfo
          /\ project \in Projects \union {NoProject}
    BY HereType DEF SupervisorTypes, ClientTypes
  <2>2. killTimers' \in SUBSET Launches
    BY <1>1 DEF RestartFires, SupervisorTypes
  <2>3. SupervisorTypes'
    BY <1>1, <2>1, <2>2, SpawnType DEF RestartFires
  <2> QED BY <1>1, <2>3 DEF RestartFires, ClientTypes, clientVars
<1>2. ASSUME NEW g \in Launches, KillFires(g) PROVE SupervisorTypes' /\ ClientTypes'
  <2>1. SupervisorTypes'
    BY <1>2 DEF KillFires, SupervisorTypes, Processes, lifeVars, launchVars
  <2> QED BY <1>2, <2>1 DEF KillFires, ClientTypes, clientVars
<1>3. CASE TickStartup
  BY <1>3, CondemnType DEF TickStartup, Verdicts
<1>4. CASE TickHeartbeat
  BY <1>4, CondemnType DEF TickHeartbeat, Verdicts
<1>5. CASE Elapse
  <2>1. launchAge' \in NotYet..AgeLimit /\ beatAge' \in 0..AgeLimit
    BY <1>5, SupervisorAssumption DEF Elapse, Older, SupervisorTypes, NotYet
  <2>2. SupervisorTypes'
    BY <1>5, <2>1 DEF Elapse, SupervisorTypes, lifeVars, processVars
  <2> QED BY <1>5, <2>2 DEF Elapse, ClientTypes, clientVars
<1>6. CASE LeaveWindow
  <2>1. history' \in Seq(Deaths)
    BY <1>6, HeadTailProperties DEF LeaveWindow, SupervisorTypes
  <2>2. SupervisorTypes'
    BY <1>6, <2>1 DEF LeaveWindow, SupervisorTypes, launchVars, processVars
  <2> QED BY <1>6, <2>2 DEF LeaveWindow, ClientTypes, clientVars
<1> QED BY <1>1, <1>2, <1>3, <1>4, <1>5, <1>6 DEF TimerStep

\* Every variable of the supervisor keeps its type in every behaviour, and the
\* renderer's queue never exceeds MAX_QUEUE.
THEOREM TypeCorrect == Spec => []TypeOK
<1>1. Init => TypeOK
  <2> SUFFICES ASSUME Init PROVE TypeOK
    OBVIOUS
  <2>1. NoSession \in AnySession
    BY DEF AnySession
  <2>2. MaxLaunches \in Nat /\ MalformedLimit \in Nat /\ AgeLimit \in Nat
          /\ MaxQueue \in Nat /\ MemoryProfiles \subseteq Profiles
    BY SupervisorAssumption
  <2>3. phase \in Phases /\ plan \in Profiles /\ floor \in Profiles
    BY <2>2 DEF Init, Phases, Profiles
  <2>4. /\ generation \in 0..MaxLaunches /\ malformed \in 0..(MalformedLimit + 1)
        /\ beatAge \in 0..AgeLimit /\ launchAge \in NotYet..AgeLimit
    BY <2>2 DEF Init, NotYet
  <2>5. proc \in Processes /\ home \in [Launches -> Projects \union {NoProject}]
    BY DEF Init, Processes
  <2>6. /\ history \in Seq(Deaths)
        /\ queue \in Seq([msg : Reads, from : Projects \union {NoProject}])
        /\ Len(queue) <= MaxQueue
    BY <2>2 DEF Init
  <2>7. SupervisorTypes
    BY <2>1, <2>3, <2>4, <2>5, <2>6 DEF Init, SupervisorTypes
  <2>8. ClientTypes
    BY <2>1, <2>6 DEF Init, ClientTypes, SessionInfo
  <2> QED BY <2>7, <2>8, TypesSplit
<1>2. TypeOK /\ [Next]_vars => TypeOK'
  <2>1. ASSUME TypeOK, UNCHANGED vars PROVE TypeOK'
    BY <2>1 DEF TypeOK, vars, lifeVars, launchVars, clientVars, processVars
  <2> QED BY <2>1, UserType, EngineType, TimerType DEF Next
<1> QED BY <1>1, <1>2, PTL DEF Spec

-----------------------------------------------------------------------------
(* One engine. *)

\* SIGTERM and the escalation touch the held engine alone.
LEMMA TermedFacts ==
  ASSUME TypeOK, IInv
  PROVE  LET pr == Termed(proc, child)
             timers == Escalating(killTimers, child)
         IN  /\ pr \in Processes
             /\ \A g \in Launches :
                  /\ pr[g] # "up"
                  /\ (pr[g] = "none") <=> (proc[g] = "none")
                  /\ (pr[g] \in {"up", "term", "kill"}) <=> Alive(g)
             /\ child # NoEngine => child \in timers
             /\ \A g \in timers : g \in Launches /\ Alive(g)
<1>1. proc \in Processes /\ child \in Launches \union {NoEngine}
        /\ killTimers \in SUBSET Launches /\ NoEngine \notin Launches
  BY DEF TypeOK, Processes, NoEngine, Launches
<1>2. \A g \in Launches : proc[g] = "up" => g = child
  BY DEF IInv, OneEngine
<1>3. Termed(proc, child) \in Processes
  BY <1>1, TermedType
<1>4. child # NoEngine => Alive(child)
  BY DEF IInv, OneEngine
<1>5. \A g \in killTimers : Alive(g)
  BY DEF IInv
<1> QED BY <1>1, <1>2, <1>3, <1>4, <1>5 DEF Termed, Escalating, Alive, Processes

\* A launch keeps the invariant when the processes it finds were all told to
\* terminate and the launch number is fresh.
LEMMA SpawnInv ==
  ASSUME TypeOK, IInv, NEW s \in Situations, NEW pr \in Processes,
         NEW dir \in Projects \union {NoProject}, NEW session \in SessionInfo,
         SpawnChild([s EXCEPT !.timer = FALSE], pr, dir, session),
         UNCHANGED disposed,
         \A g \in Launches : pr[g] # "up" /\ (pr[g] = "none" <=> proc[g] = "none"),
         \A g \in killTimers' : g \in Launches /\ pr[g] \in {"up", "term", "kill"}
  PROVE  IInv'
<1> DEFINE t == [s EXCEPT !.timer = FALSE]
           n == generation + 1
<1>1. t \in Situations /\ t.timer = FALSE
  BY HereType
<1> HIDE DEF t
<1>2. SpawnChild(t, pr, dir, session)
  BY DEF t
<1>3. /\ ~disposed /\ generation' = n /\ n \in Launches
      /\ childGen' = n /\ intentional' = FALSE /\ verdict' = NoVerdict
      /\ \/ /\ child' = n /\ watchdog' = TRUE /\ phase' = "spawning"
            /\ restartPending' = FALSE
            /\ proc' = [pr EXCEPT ![n] = "up"]
         \/ /\ child' = NoEngine /\ watchdog' = FALSE /\ proc' = pr
            /\ \/ phase' = "restarting" /\ restartPending' = TRUE
               \/ phase' = "failed" /\ restartPending' = FALSE
  BY <1>1, <1>2, SpawnStep
<1>4. generation \in Nat /\ NoEngine \notin Launches /\ Launches \subseteq Nat
  BY SupervisorAssumption DEF TypeOK, Launches, NoEngine
<1>5. proc[n] = "none" /\ pr[n] = "none"
        /\ \A g \in Launches : g > n => pr[g] = "none"
  BY <1>3, <1>4 DEF IInv, Numbering
<1>6. \A g \in Launches : g # n => proc'[g] = pr[g]
  BY <1>3 DEF Processes
<1>7. n \notin killTimers'
  BY <1>5
<1>8. CASE child' = n
  <2>1. proc'[n] = "up" /\ watchdog' = TRUE /\ phase' = "spawning"
          /\ restartPending' = FALSE
    BY <1>3, <1>4, <1>8 DEF Processes
  <2>2. OneEngine'
    BY <1>3, <1>6, <1>8, <2>1 DEF OneEngine, Alive
  <2>3. PhaseIsHonest'
    BY <1>3, <1>4, <1>8, <2>1 DEF PhaseIsHonest, StartupPhases
  <2>4. RestartIsArmedWhenAnnounced' /\ CondemnedHasKill'
    BY <1>3, <2>1 DEF RestartIsArmedWhenAnnounced, CondemnedHasKill
  <2>5. Numbering'
    BY <1>3, <1>4, <1>5, <1>6, <1>8 DEF Numbering
  <2>6. \A g \in killTimers' : Alive(g)'
    BY <1>6, <1>7 DEF Alive
  <2>7. (\A g \in Launches : Alive(g) /\ Current(g) => g = child)'
    BY <1>3, <1>8 DEF Current
  <2> QED BY <2>1, <2>2, <2>3, <2>4, <2>5, <2>6, <2>7 DEF IInv
<1>9. CASE child' = NoEngine
  <2>1. /\ proc' = pr
        /\ \/ phase' = "restarting" /\ restartPending' = TRUE
           \/ phase' = "failed" /\ restartPending' = FALSE
    BY <1>3, <1>4, <1>9
  <2>2. OneEngine' /\ CondemnedHasKill'
    BY <1>9, <2>1 DEF OneEngine, CondemnedHasKill
  <2>3. PhaseIsHonest'
    BY <1>9, <2>1 DEF PhaseIsHonest, StartupPhases, Serving
  <2>4. RestartIsArmedWhenAnnounced'
    BY <1>3, <1>9, <2>1 DEF RestartIsArmedWhenAnnounced
  <2>5. Numbering'
    BY <1>3, <1>4, <1>5, <1>9, <2>1 DEF Numbering
  <2>6. \A g \in killTimers' : Alive(g)'
    BY <2>1 DEF Alive
  <2>7. (\A g \in Launches : Alive(g) /\ Current(g) => g = child)'
    BY <1>3, <1>5, <2>1 DEF Current, Alive
  <2> QED BY <2>1, <2>2, <2>3, <2>4, <2>5, <2>6, <2>7 DEF IInv
<1> QED BY <1>3, <1>8, <1>9

LEMMA ReplaceInv ==
  ASSUME TypeOK, IInv, NEW s \in Situations,
         NEW dir \in Projects \union {NoProject}, NEW session \in SessionInfo,
         Replace(s, dir, session), UNCHANGED disposed
  PROVE  IInv'
<1> DEFINE pr == Termed(proc, child)
<1>1. /\ pr \in Processes
      /\ \A g \in Launches : pr[g] # "up" /\ (pr[g] = "none" <=> proc[g] = "none")
      /\ \A g \in killTimers' : g \in Launches /\ pr[g] \in {"up", "term", "kill"}
  BY TermedFacts DEF Replace
<1>2. SpawnChild([s EXCEPT !.timer = FALSE], pr, dir, session)
  BY DEF Replace
<1> HIDE DEF pr
<1> QED BY <1>1, <1>2, SpawnInv

LEMMA ManualRestartInv ==
  ASSUME TypeOK, IInv, NEW f \in Profiles, ManualRestart(f), UNCHANGED disposed
  PROVE  IInv'
<1>1. [Here EXCEPT !.floor = f] \in Situations
  BY HereType
<1>2. project \in Projects \union {NoProject} /\ lastSession \in SessionInfo
  BY DEF TypeOK, SessionInfo
<1> QED BY <1>1, <1>2, ReplaceInv DEF ManualRestart

Live == StartupPhases \union Serving \union {"stopping"}

\* A handler that neither launches, ends nor signals an engine keeps the invariant
\* when the phase stays on its side of the live phases.
LEMMA QuietInv ==
  ASSUME TypeOK, IInv,
         UNCHANGED <<generation, child, childGen, intentional, verdict, watchdog,
                     restartPending, disposed, proc, killTimers>>,
         ~disposed => /\ phase' \in Live <=> phase \in Live
                      /\ phase' = "restarting" <=> phase = "restarting"
                      /\ phase' = "stopping" => phase = "stopping"
  PROVE  IInv'
BY DEF IInv, OneEngine, PhaseIsHonest, RestartIsArmedWhenAnnounced, CondemnedHasKill,
       Numbering, Alive, Current, Live

\* The same for a handler that terminates the held engine.
LEMMA KillInv ==
  ASSUME TypeOK, IInv, KillCurrentChild, child # NoEngine,
         UNCHANGED <<generation, child, childGen, watchdog, restartPending, disposed>>,
         phase' \in Live <=> phase \in Live,
         phase' = "restarting" <=> phase = "restarting",
         phase' = "stopping" => intentional'
  PROVE  IInv'
<1>1. /\ \A g \in Launches :
           /\ proc'[g] # "up"
           /\ (proc'[g] = "none") <=> (proc[g] = "none")
           /\ (proc'[g] \in {"up", "term", "kill"}) <=> Alive(g)
      /\ child \in killTimers'
      /\ \A g \in killTimers' : g \in Launches /\ Alive(g)
  BY TermedFacts DEF KillCurrentChild
<1>2. child \in Launches /\ Alive(child) /\ child = childGen /\ ~disposed
  BY DEF TypeOK, IInv, OneEngine, Numbering
<1>3. OneEngine'
  BY <1>1, <1>2 DEF OneEngine, Alive
<1>4. PhaseIsHonest'
  BY <1>2 DEF IInv, PhaseIsHonest, Live
<1>5. RestartIsArmedWhenAnnounced' /\ CondemnedHasKill'
  BY <1>1, <1>2 DEF IInv, RestartIsArmedWhenAnnounced, CondemnedHasKill
<1>6. Numbering'
  BY <1>1 DEF IInv, Numbering
<1>7. (\A g \in Launches : Alive(g) /\ Current(g) => g = child)'
  BY <1>2 DEF Current
<1>8. (\A g \in killTimers : Alive(g))'
  BY <1>1 DEF Alive
<1> QED BY <1>2, <1>3, <1>4, <1>5, <1>6, <1>7, <1>8 DEF IInv

\* A request of the user keeps the invariant.
LEMMA UserInv == TypeOK /\ IInv /\ UserStep => IInv'
<1> SUFFICES ASSUME TypeOK, IInv, UserStep PROVE IInv'
  OBVIOUS
<1>1. ASSUME NEW p \in Projects, OpenProject(p) PROVE IInv'
  <2>1. lastSession' \in SessionInfo
    BY <1>1 DEF OpenProject, SessionInfo, AnySession
  <2>2. [Here EXCEPT !.history = <<>>, !.floor = "full",
                     !.interrupted = NoSession] \in Situations
    BY HereType
  <2> QED BY <1>1, <2>1, <2>2, ReplaceInv DEF OpenProject
<1>2. CASE Stop
  <2>1. CASE child = NoEngine
    <3>1. phase' = Enter(phase, "idle") /\ restartPending' = FALSE
            /\ UNCHANGED <<generation, child, childGen, intentional, verdict, watchdog,
                           disposed, proc, killTimers>>
      BY <1>2, <2>1 DEF Stop, processVars
    <3>2. ~disposed => phase \notin Live
      BY <2>1 DEF IInv, PhaseIsHonest, Live
    <3>3. ~disposed => phase' = "idle"
      BY <3>1, <3>2 DEF TypeOK, Phases, Live, Enter, Legal, Serving, StartupPhases
    <3> QED BY <2>1, <3>1, <3>3
        DEF IInv, OneEngine, PhaseIsHonest, RestartIsArmedWhenAnnounced, CondemnedHasKill,
            Numbering, Alive, Current, StartupPhases, Serving
  <2>2. CASE child # NoEngine
    <3>1. /\ phase' = Enter(phase, "stopping") /\ intentional' = TRUE
          /\ KillCurrentChild /\ restartPending' = FALSE
          /\ UNCHANGED <<generation, child, childGen, watchdog, disposed>>
      BY <1>2, <2>2 DEF Stop
    <3>2. ~disposed /\ phase \in Live /\ restartPending = FALSE
      BY <2>2 DEF TypeOK, IInv, Numbering, PhaseIsHonest, RestartIsArmedWhenAnnounced, Live
    <3>3. phase' = "stopping"
      BY <3>1, <3>2 DEF Live, Enter, Legal, Serving, StartupPhases
    <3>4. phase' \in Live /\ phase # "restarting"
      BY <3>2, <3>3 DEF Live, Serving, StartupPhases
    <3> QED BY <2>2, <3>1, <3>2, <3>3, <3>4, KillInv
  <2> QED BY <2>1, <2>2
<1>3. CASE Dispose
  <2>1. /\ \A g \in Launches :
             /\ proc'[g] # "up"
             /\ (proc'[g] = "none") <=> (proc[g] = "none")
             /\ (proc'[g] \in {"up", "term", "kill"}) <=> Alive(g)
        /\ \A g \in killTimers' : Alive(g)
    BY <1>3, TermedFacts DEF Dispose, Escalating
  <2>2. /\ disposed' /\ ~restartPending' /\ child' = NoEngine /\ childGen' = Detached
        /\ UNCHANGED generation
    BY <1>3 DEF Dispose
  <2>3. \A g \in Launches : g # Detached
    BY DEF Launches, Detached
  <2>4. killTimers' \subseteq Launches
    BY <1>3, EscalatingType DEF Dispose, TypeOK
  <2>5. OneEngine' /\ PhaseIsHonest' /\ RestartIsArmedWhenAnnounced' /\ CondemnedHasKill'
    BY <2>1, <2>2
    DEF OneEngine, PhaseIsHonest, RestartIsArmedWhenAnnounced, CondemnedHasKill
  <2>6. Numbering'
    BY <2>1, <2>2 DEF IInv, Numbering
  <2>7. (\A g \in Launches : Alive(g) /\ Current(g) => g = child)'
    BY <2>2, <2>3 DEF Current
  <2>8. (\A g \in killTimers : Alive(g))'
    BY <2>1, <2>4 DEF Alive
  <2> QED BY <2>2, <2>5, <2>6, <2>7, <2>8 DEF IInv
<1>4. CASE Retry
  BY <1>4, ManualRestartInv DEF Retry, TypeOK
<1>5. CASE StartMinimal
  BY <1>5, ManualRestartInv DEF StartMinimal, Profiles
<1>6. ASSUME NEW s \in SessionsOf(project) \union {NoSession}, RestartSafe(s) PROVE IInv'
  <2>1. CASE ManualRestart(Tighter(floor, "conservative"))
    <3>1. Tighter(floor, "conservative") \in Profiles
      BY TighterType DEF TypeOK, Profiles
    <3> QED BY <1>6, <2>1, <3>1, ManualRestartInv DEF RestartSafe
  <2>2. CASE UNCHANGED <<lifeVars, launchVars, processVars>>
    BY <1>6, <2>2, QuietInv DEF RestartSafe, lifeVars, launchVars, processVars
  <2> QED BY <1>6, <2>1, <2>2 DEF RestartSafe
<1>7. ASSUME NEW s \in SessionsOf(project), RequestResume(s) PROVE IInv'
  <2>1. CASE ManualRestart(floor)
    BY <1>7, <2>1, ManualRestartInv DEF RequestResume, TypeOK
  <2>2. CASE UNCHANGED <<phase, restartPending, launchVars, processVars>>
    BY <1>7, <2>2, QuietInv DEF RequestResume, launchVars, processVars
  <2> QED BY <1>7, <2>1, <2>2 DEF RequestResume, lifeVars
<1>8. ASSUME NEW r \in Reads, QueueRead(r) PROVE IInv'
  BY <1>8, QuietInv DEF QueueRead, lifeVars, launchVars, processVars
<1> QED BY <1>1, <1>2, <1>3, <1>4, <1>5, <1>6, <1>7, <1>8 DEF UserStep

\* An event that counts comes from the held engine of a supervisor in a live phase.
LEMMA CurrentIsHeld ==
  ASSUME TypeOK, IInv, NEW g \in Launches, Alive(g), Current(g)
  PROVE  /\ child = g /\ child # NoEngine /\ ~disposed /\ phase \in Live
         /\ restartPending = FALSE
<1>1. g # Detached /\ g # NoEngine
  BY DEF Launches, Detached, NoEngine
<1>2. child = g /\ ~disposed
  BY <1>1 DEF IInv, Numbering, Current
<1> QED BY <1>1, <1>2
    DEF TypeOK, IInv, PhaseIsHonest, RestartIsArmedWhenAnnounced, Live

\* The exit of an engine keeps the invariant: an intended one is clean.
LEMMA EndedInv ==
  ASSUME TypeOK, IInv, NEW g \in Launches, NEW kind \in Kinds, Ended(g, kind),
         intentional => kind = "clean_shutdown"
  PROVE  IInv'
<1>1. /\ Alive(g) /\ proc' = [proc EXCEPT ![g] = "gone"] /\ killTimers' = killTimers \ {g}
      /\ UNCHANGED disposed
      /\ proc \in Processes /\ killTimers \in SUBSET Launches
  BY DEF Ended, TypeOK, Processes
<1>2. /\ proc'[g] = "gone" /\ proc[g] # "none"
      /\ \A f \in Launches : f # g => proc'[f] = proc[f]
  BY <1>1 DEF Alive, Processes
<1>3. (\A f \in killTimers : Alive(f))'
  BY <1>1, <1>2 DEF IInv, Alive
<1>4. CASE Current(g)
  <2>1. child = g /\ child # NoEngine /\ ~disposed /\ phase \in Live
          /\ restartPending = FALSE
    BY <1>1, <1>4, CurrentIsHeld
  <2> DEFINE stable == launchAge >= StableTime
             active == beat = "active"
  <2>2. Here \in Situations /\ lastSession \in SessionInfo /\ plan \in Profiles
          /\ stable \in BOOLEAN /\ active \in BOOLEAN
          /\ Here.phase = phase /\ Here.timer = restartPending
    BY HereType DEF TypeOK, SessionInfo
  <2>3. Died(Here, kind, stable, stable, lastSession, active)
          /\ UNCHANGED <<generation, childGen, intentional, verdict>>
    BY <1>4 DEF Ended
  <2> HIDE DEF stable, active
  <2>4. /\ child' = NoEngine
        /\ \/ kind = "clean_shutdown" /\ phase' = Enter(phase, "exited")
              /\ restartPending' = FALSE
           \/ kind # "clean_shutdown" /\ phase' = Enter(phase, "restarting")
              /\ restartPending' = TRUE
           \/ kind # "clean_shutdown" /\ phase' = Enter(phase, "failed")
              /\ restartPending' = FALSE
    BY <2>1, <2>2, <2>3, DiedStep
  <2>5. kind # "clean_shutdown" => ~intentional /\ phase # "stopping"
    BY <2>1 DEF IInv
  <2>6. \/ phase' \in {"exited", "failed"} /\ restartPending' = FALSE
        \/ phase' = "restarting" /\ restartPending' = TRUE /\ ~intentional
    BY <2>1, <2>4, <2>5 DEF Live, Enter, Legal, StartupPhases, Serving
  <2>7. OneEngine' /\ CondemnedHasKill'
    BY <1>2, <2>1, <2>4 DEF IInv, OneEngine, CondemnedHasKill
  <2>8. PhaseIsHonest' /\ RestartIsArmedWhenAnnounced'
    BY <1>1, <2>1, <2>3, <2>4, <2>6
    DEF PhaseIsHonest, RestartIsArmedWhenAnnounced, StartupPhases, Serving
  <2>9. Numbering'
    BY <1>1, <1>2, <2>1, <2>3, <2>4 DEF IInv, Numbering
  <2>10. (\A f \in Launches : Alive(f) /\ Current(f) => f = child)'
    BY <1>2, <1>4, <2>3 DEF Current, Alive
  <2> QED BY <1>3, <2>6, <2>7, <2>8, <2>9, <2>10 DEF IInv
<1>5. CASE ~Current(g)
  <2>1. UNCHANGED <<phase, restartPending, generation, child, childGen, intentional,
                    verdict, watchdog>>
    BY <1>5 DEF Ended, lifeVars, launchVars
  <2>2. g # child
    BY <1>5 DEF IInv, OneEngine, Current, Launches, NoEngine
  <2>3. child \in Launches \union {NoEngine}
    BY DEF TypeOK
  <2>4. OneEngine'
    BY <1>2, <2>1, <2>2, <2>3 DEF IInv, OneEngine, Alive
  <2>5. PhaseIsHonest' /\ RestartIsArmedWhenAnnounced'
    BY <1>1, <2>1 DEF IInv, PhaseIsHonest, RestartIsArmedWhenAnnounced
  <2>6. CondemnedHasKill'
    BY <1>1, <1>2, <2>1, <2>2, <2>3 DEF IInv, CondemnedHasKill
  <2>7. Numbering'
    BY <1>1, <1>2, <2>1 DEF IInv, Numbering
  <2>8. (\A f \in Launches : Alive(f) /\ Current(f) => f = child)'
    BY <1>2, <2>1 DEF IInv, Current, Alive
  <2> QED BY <1>1, <1>3, <2>1, <2>4, <2>5, <2>6, <2>7, <2>8 DEF IInv
<1> QED BY <1>4, <1>5

\* An event of an engine process keeps the invariant.
LEMMA EngineInv ==
  ASSUME TypeOK, IInv, NEW g \in Launches, EngineStep(g)
  PROVE  IInv'
<1>1. ASSUME NEW major \in Majors \union {"unknown"}, NEW overlaps \in BOOLEAN,
             Hello(g, major, overlaps)
      PROVE  IInv'
  <2>1. child # NoEngine /\ ~disposed
          /\ UNCHANGED <<phase, generation, child, childGen, intentional, watchdog,
                         restartPending, disposed>>
    BY <1>1, CurrentIsHeld DEF Hello, lifeVars
  <2>2. CASE overlaps
    BY <1>1, <2>1, <2>2, QuietInv DEF Hello, processVars
  <2>3. CASE ~overlaps
    <3>1. phase' = "stopping" => intentional'
      BY <2>1 DEF IInv
    <3> QED BY <1>1, <2>1, <2>3, <3>1, KillInv DEF Hello
  <2> QED BY <2>2, <2>3
<1>2. ASSUME NEW p \in BootPhases, Boot(g, p) PROVE IInv'
  <2>1. phase \in Live /\ phase' = Enter(phase, p)
          /\ p \in (StartupPhases \ {"spawning"}) \union {"loading_interface"}
    BY <1>2, CurrentIsHeld, SupervisorAssumption DEF Boot
  <2>2. phase' \in Live /\ phase' # "restarting" /\ phase # "restarting"
          /\ (phase' = "stopping" => phase = "stopping")
    BY <2>1 DEF Live, Enter, Legal, StartupPhases, Serving
  <2> QED BY <1>2, <2>1, <2>2, QuietInv DEF Boot, launchVars, processVars
<1>3. ASSUME NEW active \in BOOLEAN, Health(g, active) PROVE IInv'
  BY <1>3, QuietInv DEF Health, lifeVars, processVars
<1>4. ASSUME NEW major \in Majors \union {"unknown"}, Ready(g, major) PROVE IInv'
  <2>1. /\ child # NoEngine /\ ~disposed /\ phase \in Live
        /\ UNCHANGED <<generation, child, childGen, intentional, watchdog,
                       restartPending, disposed>>
    BY <1>4, CurrentIsHeld DEF Ready
  <2>2. CASE /\ verdict' = "protocol_failure"
             /\ KillCurrentChild
             /\ UNCHANGED <<phase, interrupted, queue, pendingResume>>
    <3>1. phase' = "stopping" => intentional'
      BY <2>1, <2>2 DEF IInv
    <3> QED BY <2>1, <2>2, <3>1, KillInv
  <2>3. CASE /\ phase' = Enter(phase, IF Degraded THEN "degraded" ELSE "ready")
             /\ UNCHANGED <<verdict, processVars>>
    <3>1. phase' \in Live /\ phase' # "restarting" /\ phase # "restarting"
            /\ (phase' = "stopping" => phase = "stopping")
      BY <2>1, <2>3 DEF Live, Enter, Legal, StartupPhases, Serving
    <3> QED BY <2>1, <2>3, <3>1, QuietInv DEF processVars
  <2> QED BY <1>4, <2>2, <2>3 DEF Ready
<1>5. ASSUME NEW s \in SessionsOf(home[g]), NEW work \in BOOLEAN, Snapshot(g, s, work)
      PROVE  IInv'
  BY <1>5, QuietInv DEF Snapshot, lifeVars, launchVars, processVars
<1>6. ASSUME Malformed(g) PROVE IInv'
  <2>1. child # NoEngine /\ ~disposed
          /\ UNCHANGED <<phase, generation, child, childGen, intentional, watchdog,
                         restartPending, disposed>>
    BY <1>6, CurrentIsHeld DEF Malformed, lifeVars
  <2>2. CASE KillCurrentChild
    <3>1. phase' = "stopping" => intentional'
      BY <2>1 DEF IInv
    <3> QED BY <2>1, <2>2, <3>1, KillInv
  <2>3. CASE UNCHANGED <<verdict, processVars>>
    BY <2>1, <2>3, QuietInv DEF processVars
  <2> QED BY <1>6, <2>2, <2>3 DEF Malformed
<1>7. ASSUME NEW how \in Exits, Exit(g, how) PROVE IInv'
  BY <1>7, ClassifyType, EndedInv DEF Exit, TypeOK, Classify
<1>8. ASSUME SpawnError(g) PROVE IInv'
  BY <1>8, EndedInv DEF SpawnError, Kinds
<1> QED BY <1>1, <1>2, <1>3, <1>4, <1>5, <1>6, <1>7, <1>8 DEF EngineStep

LEMMA CondemnInv ==
  ASSUME TypeOK, IInv, NEW v \in Verdicts, Condemn(v)
  PROVE  IInv'
<1>1. /\ child # NoEngine /\ KillCurrentChild
      /\ UNCHANGED <<phase, generation, child, childGen, intentional, watchdog,
                     restartPending, disposed>>
  BY DEF Condemn, lifeVars
<1>2. phase' = "stopping" => intentional'
  BY <1>1 DEF IInv, Numbering
<1> QED BY <1>1, <1>2, KillInv

\* A timer, the clock and the rolling window keep the invariant.
LEMMA TimerInv == TypeOK /\ IInv /\ TimerStep => IInv'
<1> SUFFICES ASSUME TypeOK, IInv, TimerStep PROVE IInv'
  OBVIOUS
<1>1. CASE RestartFires
  <2>1. Here \in Situations /\ proc \in Processes /\ lastSession \in SessionInfo
          /\ project \in Projects \union {NoProject}
    BY HereType DEF TypeOK, Processes, SessionInfo
  <2>2. child = NoEngine
    BY <1>1 DEF RestartFires, IInv, RestartIsArmedWhenAnnounced
  <2>3. \A g \in Launches : proc[g] # "up"
    BY <2>2 DEF IInv, OneEngine, Launches, NoEngine
  <2>4. \A g \in killTimers' : g \in Launches /\ proc[g] \in {"up", "term", "kill"}
    BY <1>1 DEF RestartFires, IInv, Alive, TypeOK
  <2> QED BY <1>1, <2>1, <2>3, <2>4, SpawnInv DEF RestartFires
<1>2. ASSUME NEW g \in Launches, KillFires(g) PROVE IInv'
  <2>1. /\ Alive(g) /\ proc' = [proc EXCEPT ![g] = "kill"]
        /\ killTimers' = killTimers \ {g}
        /\ proc \in Processes /\ killTimers \in SUBSET Launches
        /\ UNCHANGED <<phase, restartPending, generation, child, childGen, intentional,
                       verdict, watchdog, disposed>>
    BY <1>2 DEF KillFires, IInv, TypeOK, Processes, lifeVars, launchVars
  <2>2. /\ proc'[g] = "kill" /\ proc[g] # "none"
        /\ \A f \in Launches : f # g => proc'[f] = proc[f]
    BY <2>1 DEF Alive, Processes
  <2>3. child \in Launches \union {NoEngine}
    BY DEF TypeOK
  <2>4. OneEngine' /\ CondemnedHasKill'
    BY <2>1, <2>2, <2>3 DEF IInv, OneEngine, CondemnedHasKill, Alive
  <2>5. PhaseIsHonest' /\ RestartIsArmedWhenAnnounced' /\ Numbering'
    BY <2>1, <2>2 DEF IInv, PhaseIsHonest, RestartIsArmedWhenAnnounced, Numbering
  <2>6. /\ (\A f \in Launches : Alive(f) /\ Current(f) => f = child)'
        /\ (\A f \in killTimers : Alive(f))'
    BY <2>1, <2>2 DEF IInv, Current, Alive
  <2> QED BY <2>1, <2>4, <2>5, <2>6 DEF IInv
<1>3. CASE TickStartup
  BY <1>3, CondemnInv DEF TickStartup, Verdicts
<1>4. CASE TickHeartbeat
  BY <1>4, CondemnInv DEF TickHeartbeat, Verdicts
<1>5. CASE Elapse
  BY <1>5, QuietInv DEF Elapse, lifeVars, processVars
<1>6. CASE LeaveWindow
  BY <1>6, QuietInv DEF LeaveWindow, launchVars, processVars
<1> QED BY <1>1, <1>2, <1>3, <1>4, <1>5, <1>6 DEF TimerStep

LEMMA Invariance == Spec => []IInv
<1>1. Init => IInv
  BY DEF Init, IInv, OneEngine, PhaseIsHonest, RestartIsArmedWhenAnnounced,
         CondemnedHasKill, Numbering, Alive, Current, Launches, NoEngine,
         StartupPhases, Serving
<1>2. TypeOK /\ IInv /\ [Next]_vars => IInv'
  <2>1. ASSUME TypeOK, IInv, UNCHANGED vars PROVE IInv'
    BY <2>1, QuietInv DEF vars, lifeVars, launchVars, processVars
  <2> QED BY <2>1, UserInv, EngineInv, TimerInv DEF Next
<1> QED BY <1>1, <1>2, TypeCorrect, PTL DEF Spec

\* However clicks, timers and the events of old and new engines interleave, at most one
\* engine process has not been told to terminate, and it is the one whose events count.
THEOREM OneEngineAlways == Spec => []OneEngine
BY Invariance, PTL DEF IInv

\* The phase shown to the user tells whether an engine is held.
THEOREM PhaseAlwaysHonest == Spec => []PhaseIsHonest
BY Invariance, PTL DEF IInv

\* An automatic restart is armed exactly while it is announced, never beside an engine,
\* after stop() or after dispose().
THEOREM RestartArmedWhenAnnounced == Spec => []RestartIsArmedWhenAnnounced
BY Invariance, PTL DEF IInv

\* A condemned or stopped engine always has a SIGKILL on its way.
THEOREM CondemnedAlwaysHasKill == Spec => []CondemnedHasKill
BY Invariance, PTL DEF IInv

-----------------------------------------------------------------------------
(* The supervisor implements the abstract lifecycle. *)

\* The abstract mode of every phase.
LEMMA ModeFacts ==
  /\ disposed => Mode = "closed"
  /\ ~disposed =>
       /\ phase \in StartupPhases => Mode = "starting"
       /\ phase \in Serving => Mode = "serving"
       /\ phase = "restarting" => Mode = "waiting"
       /\ phase \in {"idle", "exited"} => Mode = "off"
       /\ phase = "stopping" => Mode = "stopping"
       /\ phase = "failed" => Mode = "failed"
BY DEF Mode, StartupPhases, Serving

LEMMA ModeFactsNext ==
  /\ disposed' => Mode' = "closed"
  /\ ~disposed' =>
       /\ phase' \in StartupPhases => Mode' = "starting"
       /\ phase' \in Serving => Mode' = "serving"
       /\ phase' = "restarting" => Mode' = "waiting"
       /\ phase' \in {"idle", "exited"} => Mode' = "off"
       /\ phase' = "stopping" => Mode' = "stopping"
       /\ phase' = "failed" => Mode' = "failed"
BY DEF Mode, StartupPhases, Serving

\* A step that leaves what the mapping reads is a stutter of the lifecycle.
LEMMA QuietRefines ==
  ASSUME UNCHANGED <<phase, disposed, child, generation>>
  PROVE  UNCHANGED Lifecycle!vars
BY DEF Lifecycle!vars, Mode

\* spawnChild is a launch.
LEMMA SpawnRefines ==
  ASSUME TypeOK, NEW s \in Situations, NEW pr \in Processes,
         NEW dir \in Projects \union {NoProject}, NEW session \in SessionInfo,
         SpawnChild(s, pr, dir, session), UNCHANGED disposed
  PROVE  Lifecycle!Launch
<1>1. /\ ~disposed /\ ~disposed' /\ generation' = generation + 1
      /\ \/ child' = generation' /\ phase' = "spawning"
         \/ child' = NoEngine /\ phase' \in {"restarting", "failed"}
  BY SpawnStep
<1>2. Mode # "closed"
  BY <1>1 DEF Mode, TypeOK, Phases, StartupPhases, Serving
<1>3. \/ child' = generation + 1 /\ Mode' = "starting"
      \/ child' = NoEngine /\ Mode' \in {"waiting", "failed"}
  BY <1>1, ModeFactsNext DEF StartupPhases
<1> QED BY <1>1, <1>2, <1>3 DEF Lifecycle!Launch, Lifecycle!None, NoEngine

LEMMA ReplaceRefines ==
  ASSUME TypeOK, NEW s \in Situations,
         NEW dir \in Projects \union {NoProject}, NEW session \in SessionInfo,
         Replace(s, dir, session), UNCHANGED disposed
  PROVE  Lifecycle!Launch
<1>1. Termed(proc, child) \in Processes
  BY TermedType DEF TypeOK, Processes
<1>2. [s EXCEPT !.timer = FALSE] \in Situations
  BY HereType
<1> QED BY <1>1, <1>2, SpawnRefines DEF Replace

LEMMA ManualRestartRefines ==
  ASSUME TypeOK, NEW f \in Profiles, ManualRestart(f), UNCHANGED disposed
  PROVE  Lifecycle!Launch
<1>1. [Here EXCEPT !.floor = f] \in Situations
  BY HereType
<1>2. project \in Projects \union {NoProject} /\ lastSession \in SessionInfo
  BY DEF TypeOK, SessionInfo
<1> QED BY <1>1, <1>2, ReplaceRefines DEF ManualRestart

\* The end of the held engine is the abstract death, of another one a stutter.
LEMMA EndedRefines ==
  ASSUME TypeOK, IInv, NEW g \in Launches, NEW kind \in Kinds, Ended(g, kind),
         intentional => kind = "clean_shutdown"
  PROVE  Lifecycle!Die \/ UNCHANGED Lifecycle!vars
<1>1. Alive(g) /\ UNCHANGED disposed
  BY DEF Ended
<1>2. CASE ~Current(g)
  BY <1>1, <1>2, QuietRefines DEF Ended, lifeVars, launchVars
<1>3. CASE Current(g)
  <2>1. child # NoEngine /\ ~disposed /\ phase \in Live /\ restartPending = FALSE
    BY <1>1, <1>3, CurrentIsHeld
  <2> DEFINE stable == launchAge >= StableTime
             active == beat = "active"
  <2>2. Here \in Situations /\ lastSession \in SessionInfo /\ plan \in Profiles
          /\ stable \in BOOLEAN /\ active \in BOOLEAN /\ Here.phase = phase
    BY HereType DEF TypeOK, SessionInfo
  <2>3. Died(Here, kind, stable, stable, lastSession, active) /\ UNCHANGED generation
    BY <1>3 DEF Ended
  <2> HIDE DEF stable, active
  <2>4. /\ child' = NoEngine
        /\ \/ kind = "clean_shutdown" /\ phase' = Enter(phase, "exited")
           \/ kind # "clean_shutdown" /\ phase' = Enter(phase, "restarting")
           \/ kind # "clean_shutdown" /\ phase' = Enter(phase, "failed")
    BY <2>2, <2>3, DiedStep
  <2>5. kind # "clean_shutdown" => phase # "stopping"
    BY <2>1 DEF IInv
  <2>6. /\ phase' \in {"exited", "restarting", "failed"}
        /\ phase = "stopping" => phase' = "exited"
    BY <2>1, <2>4, <2>5 DEF Live, Enter, Legal, StartupPhases, Serving
  <2>7. Mode \in {"starting", "serving", "stopping"}
          /\ (Mode = "stopping" => phase = "stopping")
    BY <2>1, ModeFacts DEF Live
  <2>8. /\ Mode' \in {"off", "waiting", "failed"}
        /\ phase' = "exited" => Mode' = "off"
    BY <1>1, <2>1, <2>6, ModeFactsNext
  <2> QED BY <2>3, <2>4, <2>6, <2>7, <2>8
      DEF Lifecycle!Die, Lifecycle!Held, Lifecycle!None, NoEngine
<1> QED BY <1>2, <1>3

\* Every step of the supervisor is a step of the lifecycle or a stutter.
LEMMA StepRefines ==
  TypeOK /\ IInv /\ [Next]_vars => [Lifecycle!Next]_(Lifecycle!vars)
<1> SUFFICES ASSUME TypeOK, IInv, [Next]_vars
             PROVE  Lifecycle!Next \/ UNCHANGED Lifecycle!vars
  OBVIOUS
<1>1. CASE UserStep
  <2>1. ASSUME NEW p \in Projects, OpenProject(p) PROVE Lifecycle!Launch
    <3>1. lastSession' \in SessionInfo
      BY <2>1 DEF OpenProject, SessionInfo, AnySession
    <3> QED BY <2>1, <3>1, HereType, ReplaceRefines DEF OpenProject
  <2>2. ASSUME Stop PROVE Lifecycle!Stop
    <3>1. /\ UNCHANGED <<child, generation, disposed>> /\ ~disposed /\ phase \in Phases
          /\ phase' = Enter(phase, IF child = NoEngine THEN "idle" ELSE "stopping")
      BY <1>1, <2>2 DEF Stop, UserStep, TypeOK
    <3>2. child # NoEngine <=> phase \in Live
      BY <3>1 DEF IInv, PhaseIsHonest, Live
    <3>3. CASE child = NoEngine
      <4>1. phase' = "idle" /\ phase \in {"idle", "restarting", "exited", "failed"}
        BY <3>1, <3>2, <3>3 DEF Phases, Live, Enter, Legal, Serving, StartupPhases
      <4> QED BY <3>1, <4>1, ModeFacts, ModeFactsNext DEF Lifecycle!Stop, Lifecycle!Held
    <3>4. CASE child # NoEngine
      <4>1. phase' = "stopping"
        BY <3>1, <3>2, <3>4 DEF Live, Enter, Legal, Serving, StartupPhases
      <4> QED BY <3>1, <3>2, <3>4, <4>1, ModeFacts, ModeFactsNext
          DEF Lifecycle!Stop, Lifecycle!Held, Live
    <3> QED BY <3>3, <3>4
  <2>3. ASSUME Dispose PROVE Lifecycle!Close
    BY <2>3, ModeFactsNext DEF Dispose, Lifecycle!Close, Lifecycle!None, NoEngine
  <2>4. ASSUME Retry PROVE Lifecycle!Launch
    BY <2>4, ManualRestartRefines DEF Retry, TypeOK
  <2>5. ASSUME StartMinimal PROVE Lifecycle!Launch
    BY <2>5, ManualRestartRefines DEF StartMinimal, Profiles
  <2>6. ASSUME NEW s, RestartSafe(s) PROVE Lifecycle!Launch \/ UNCHANGED Lifecycle!vars
    <3>1. Tighter(floor, "conservative") \in Profiles
      BY TighterType DEF TypeOK, Profiles
    <3>2. CASE ManualRestart(Tighter(floor, "conservative"))
      BY <2>6, <3>1, <3>2, ManualRestartRefines DEF RestartSafe
    <3>3. CASE UNCHANGED <<lifeVars, launchVars, processVars>>
      BY <2>6, <3>3, QuietRefines DEF RestartSafe, lifeVars, launchVars
    <3> QED BY <2>6, <3>2, <3>3 DEF RestartSafe
  <2>7. ASSUME NEW s, RequestResume(s)
        PROVE  Lifecycle!Launch \/ UNCHANGED Lifecycle!vars
    <3>1. CASE ManualRestart(floor)
      BY <2>7, <3>1, ManualRestartRefines DEF RequestResume, TypeOK
    <3>2. CASE UNCHANGED <<phase, launchVars>>
      BY <2>7, <3>2, QuietRefines DEF RequestResume, launchVars
    <3> QED BY <2>7, <3>1, <3>2 DEF RequestResume, lifeVars
  <2>8. ASSUME NEW r, QueueRead(r) PROVE UNCHANGED Lifecycle!vars
    BY <2>8, QuietRefines DEF QueueRead, lifeVars, launchVars
  <2> QED BY <1>1, <2>1, <2>2, <2>3, <2>4, <2>5, <2>6, <2>7, <2>8
      DEF UserStep, Lifecycle!Next
<1>2. ASSUME NEW g \in Launches, EngineStep(g)
      PROVE  Lifecycle!Next \/ UNCHANGED Lifecycle!vars
  <2>1. ASSUME NEW major, NEW overlaps, Hello(g, major, overlaps)
        PROVE  UNCHANGED Lifecycle!vars
    BY <2>1, QuietRefines DEF Hello, lifeVars
  <2>2. ASSUME NEW p \in BootPhases, Boot(g, p) PROVE UNCHANGED Lifecycle!vars
    <3>1. /\ ~disposed /\ phase \in Live /\ phase' = Enter(phase, p)
          /\ UNCHANGED <<child, generation, disposed>>
          /\ p \in (StartupPhases \ {"spawning"}) \union {"loading_interface"}
      BY <2>2, CurrentIsHeld, SupervisorAssumption DEF Boot, launchVars
    <3>2. phase' = phase \/ (phase \in StartupPhases /\ phase' \in StartupPhases)
      BY <3>1 DEF Live, Enter, Legal, StartupPhases, Serving
    <3> QED BY <3>1, <3>2, ModeFacts, ModeFactsNext, QuietRefines DEF Lifecycle!vars
  <2>3. ASSUME NEW active, Health(g, active) PROVE UNCHANGED Lifecycle!vars
    BY <2>3, QuietRefines DEF Health, lifeVars
  <2>4. ASSUME NEW major, Ready(g, major)
        PROVE  Lifecycle!Serve \/ UNCHANGED Lifecycle!vars
    <3>1. /\ ~disposed /\ phase \in Live
          /\ UNCHANGED <<child, generation, disposed>>
          /\ \/ phase' = phase
             \/ phase' = Enter(phase, "degraded")
             \/ phase' = Enter(phase, "ready")
      BY <2>4, CurrentIsHeld DEF Ready
    <3>2. \/ phase' = phase
          \/ phase \in Serving /\ phase' \in Serving
          \/ phase \in StartupPhases /\ phase' \in Serving
      BY <3>1 DEF Live, Enter, Legal, StartupPhases, Serving
    <3>3. Mode' = Mode \/ (Mode = "starting" /\ Mode' = "serving")
      BY <3>1, <3>2, ModeFacts, ModeFactsNext DEF Mode
    <3> QED BY <3>1, <3>3 DEF Lifecycle!Serve, Lifecycle!vars
  <2>5. ASSUME NEW s, NEW work, Snapshot(g, s, work) PROVE UNCHANGED Lifecycle!vars
    BY <2>5, QuietRefines DEF Snapshot, lifeVars, launchVars
  <2>6. ASSUME Malformed(g) PROVE UNCHANGED Lifecycle!vars
    BY <2>6, QuietRefines DEF Malformed, lifeVars
  <2>7. ASSUME NEW how \in Exits, Exit(g, how)
        PROVE  Lifecycle!Die \/ UNCHANGED Lifecycle!vars
    BY <2>7, ClassifyType, EndedRefines DEF Exit, TypeOK, Classify
  <2>8. ASSUME SpawnError(g) PROVE Lifecycle!Die \/ UNCHANGED Lifecycle!vars
    BY <2>8, EndedRefines DEF SpawnError, Kinds
  <2> QED BY <1>2, <2>1, <2>2, <2>3, <2>4, <2>5, <2>6, <2>7, <2>8
      DEF EngineStep, Lifecycle!Next
<1>3. CASE TimerStep
  <2>1. ASSUME RestartFires PROVE Lifecycle!Launch
    <3>1. [Here EXCEPT !.timer = FALSE] \in Situations /\ proc \in Processes
            /\ lastSession \in SessionInfo /\ project \in Projects \union {NoProject}
      BY HereType DEF TypeOK, Processes, SessionInfo
    <3> QED BY <2>1, <3>1, SpawnRefines DEF RestartFires
  <2>2. ASSUME NEW g \in Launches, KillFires(g) PROVE UNCHANGED Lifecycle!vars
    BY <2>2, QuietRefines DEF KillFires, lifeVars, launchVars
  <2>3. ASSUME NEW v, Condemn(v) PROVE UNCHANGED Lifecycle!vars
    BY <2>3, QuietRefines DEF Condemn, lifeVars
  <2>4. ASSUME Elapse PROVE UNCHANGED Lifecycle!vars
    BY <2>4, QuietRefines DEF Elapse, lifeVars
  <2>5. ASSUME LeaveWindow PROVE UNCHANGED Lifecycle!vars
    BY <2>5, QuietRefines DEF LeaveWindow, launchVars
  <2> QED BY <1>3, <2>1, <2>2, <2>3, <2>4, <2>5
      DEF TimerStep, TickStartup, TickHeartbeat, Lifecycle!Next
<1>4. CASE UNCHANGED vars
  BY <1>4, QuietRefines DEF vars, lifeVars, launchVars
<1> QED BY <1>1, <1>2, <1>3, <1>4 DEF Next

\* The supervisor implements the abstract engine lifecycle: launch numbers are used
\* once, an engine serves only after it started, a stopped engine stays off until the
\* next launch, and a closed supervisor never launches again.
THEOREM ImplementsLifecycle == Spec => LifecycleSpec
<1>1. Init => Lifecycle!Init
  BY DEF Init, Lifecycle!Init, Lifecycle!None, Mode, NoEngine, StartupPhases, Serving
<1> QED BY <1>1, StepRefines, TypeCorrect, Invariance, PTL
    DEF Spec, LifecycleSpec, Lifecycle!Spec
=============================================================================

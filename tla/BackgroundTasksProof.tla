------------------------ MODULE BackgroundTasksProof ------------------------
(* What the registry shows and the ledger says of a task is true for any    *)
(* number of tasks and engines, and what engines that overlap can do to it.  *)
EXTENDS BackgroundTasks, TLAPS

-----------------------------------------------------------------------------
(* The ledger and the registry. *)

\* Compaction keeps what a task that goes on has in the ledger.
LEMMA CompactedFacts ==
  ASSUME NEW r \in Ledgers, NEW k
  PROVE  /\ Compacted(r, k) \in Ledgers
         /\ \A t \in Tasks : \/ Compacted(r, k)[t] = r[t]
                             \/ r[t] \in Terminal /\ Compacted(r, k)[t] = Absent
<1> DEFINE c == Compacted(r, k)
<1>1. c = [t \in Tasks |-> IF t <= k /\ r[t] \in Terminal THEN Absent ELSE r[t]]
  BY DEF Compacted
<1>2. \A t \in Tasks : c[t] = r[t] \/ (r[t] \in Terminal /\ c[t] = Absent)
  BY <1>1
<1>3. c \in Ledgers
  BY <1>1 DEF Ledgers
<1> QED BY <1>2, <1>3

\* The draft of a compaction that engine e has begun.
Drafted(e) == /\ engine'[e] = "rewriting"
              /\ \A t \in Tasks : \/ draft'[e][t] = recorded'[t]
                                  \/ recorded'[t] \in Terminal /\ draft'[e][t] = Absent

\* What appending leaves in the ledger, in the engine and in its draft.
LEMMA AppendFacts ==
  ASSUME TypeOK, NEW e \in Engines, NEW r \in Ledgers, NEW s \in {"on", "booting"},
         Append(e, r, s)
  PROVE  /\ recorded' \in Ledgers
         /\ recorded' = r \/ (AppendMayFail /\ recorded' = recorded)
         /\ draft' \in [Engines -> Ledgers]
         /\ engine' \in [Engines -> {"off", "booting", "on", "rewriting", "ended"}]
         /\ \A f \in Engines \ {e} : engine'[f] = engine[f] /\ draft'[f] = draft[f]
         /\ \/ engine'[e] = s /\ draft' = draft
            \/ Drafted(e)
<1>1. recorded' \in Ledgers /\ (recorded' = r \/ (AppendMayFail /\ recorded' = recorded))
  BY DEF Append, TypeOK
<1>2. CASE engine' = [engine EXCEPT ![e] = s] /\ UNCHANGED draft
  BY <1>1, <1>2 DEF TypeOK
<1>3. CASE engine' = [engine EXCEPT ![e] = "rewriting"]
           /\ \E k \in {NoTask} \union Tasks :
                draft' = [draft EXCEPT ![e] = Compacted(recorded', k)]
  <2>1. PICK k : draft' = [draft EXCEPT ![e] = Compacted(recorded', k)]
    BY <1>3
  <2>2. draft'[e] = Compacted(recorded', k) /\ draft' \in [Engines -> Ledgers]
    BY <1>1, <2>1, CompactedFacts DEF TypeOK
  <2> QED BY <1>1, <1>3, <2>1, <2>2, CompactedFacts DEF TypeOK, Drafted
<1> QED BY <1>2, <1>3 DEF Append

\* Of other engines nothing changes, and an engine that runs goes on.
OthersStay(e) ==
  /\ engine' \in [Engines -> {"off", "booting", "on", "rewriting", "ended"}]
  /\ draft' \in [Engines -> Ledgers]
  /\ \A f \in Engines \ {e} : engine'[f] = engine[f] /\ draft'[f] = draft[f]
  /\ engine'[e] \in {"on", "rewriting"}

\* What a move of t leaves in all tasks: it is ignored, or it is one the table has and is
\* noted in the ledger or not.
LEMMA MoveFacts ==
  ASSUME TypeOK, NEW t \in Tasks, NEW s \in States, Move(t, s), On(owner[t])
  PROVE  /\ state' \in Ledgers /\ recorded' \in Ledgers
         /\ OthersStay(owner[t])
         /\ \A u \in Tasks \ {t} : state'[u] = state[u] /\ recorded'[u] = recorded[u]
         /\ \A u \in Tasks :
              draft'[owner[t]][u] \in {draft[owner[t]][u], recorded'[u], Absent}
         /\ engine'[owner[t]] = "on" \/ Drafted(owner[t])
         /\ \/ /\ s \notin Legal(state[t])
               /\ state' = state /\ recorded' = recorded /\ draft' = draft
            \/ /\ s \in Legal(state[t]) /\ state'[t] = s
               /\ recorded'[t] \in {recorded[t], s}
               /\ ~AppendMayFail => recorded'[t] = Noted(t, s)[t]
<1>1. CASE s \notin Legal(state[t])
  BY <1>1 DEF Move, ledger, TypeOK, OthersStay, On
<1>2. CASE s \in Legal(state[t])
  <2>1. state' = [state EXCEPT ![t] = s] /\ Append(owner[t], Noted(t, s), "on")
    BY <1>2 DEF Move
  <2>2. Noted(t, s) \in Ledgers
    BY DEF Noted, TypeOK, Ledgers
  <2>3. Noted(t, s)[t] \in {recorded[t], s}
        /\ \A u \in Tasks \ {t} : Noted(t, s)[u] = recorded[u]
    BY DEF Noted, TypeOK, Ledgers
  <2>4. state' \in Ledgers /\ state'[t] = s
        /\ \A u \in Tasks \ {t} : state'[u] = state[u]
    BY <2>1 DEF TypeOK, Ledgers
  <2> HIDE DEF Noted
  <2>5. /\ recorded' \in Ledgers
        /\ recorded' = Noted(t, s) \/ (AppendMayFail /\ recorded' = recorded)
        /\ draft' \in [Engines -> Ledgers]
        /\ engine' \in [Engines -> {"off", "booting", "on", "rewriting", "ended"}]
        /\ \A f \in Engines \ {owner[t]} : engine'[f] = engine[f] /\ draft'[f] = draft[f]
        /\ (engine'[owner[t]] = "on" /\ draft' = draft) \/ Drafted(owner[t])
    BY <2>1, <2>2, AppendFacts DEF On
  <2>6. \A u \in Tasks : draft'[owner[t]][u] \in {draft[owner[t]][u], recorded'[u], Absent}
    BY <2>5 DEF Drafted
  <2> QED BY <1>2, <2>3, <2>4, <2>5, <2>6 DEF OthersStay, Drafted
<1> QED BY <1>1, <1>2

\* What the records of a new task leave.
LEMMA AppendNewFacts ==
  ASSUME TypeOK, NEW e \in Engines, NEW t \in Tasks,
         NEW s \in {"running", "failed-resumable"}, AppendNew(e, t, s)
  PROVE  /\ recorded' \in Ledgers
         /\ OthersStay(e)
         /\ \A u \in Tasks \ {t} : recorded'[u] = recorded[u]
         /\ recorded'[t] \in {recorded[t], s, Absent, "queued", "starting", "running"}
         /\ \A u \in Tasks : draft'[e][u] \in {draft[e][u], recorded'[u], Absent}
         /\ engine'[e] = "on" \/ Drafted(e)
         /\ ~AppendMayFail => recorded'[t] = s
<1>1. PICK r \in {s} \union {Absent, "queued", "starting", "running"} :
        /\ Append(e, [recorded EXCEPT ![t] = r], "on")
        /\ ~AppendMayFail => r = s
  BY DEF AppendNew
<1>2. [recorded EXCEPT ![t] = r] \in Ledgers
  BY DEF TypeOK, Ledgers, States, Terminal
<1>3. /\ recorded' \in Ledgers
      /\ recorded' = [recorded EXCEPT ![t] = r] \/ (AppendMayFail /\ recorded' = recorded)
      /\ draft' \in [Engines -> Ledgers]
      /\ engine' \in [Engines -> {"off", "booting", "on", "rewriting", "ended"}]
      /\ \A f \in Engines \ {e} : engine'[f] = engine[f] /\ draft'[f] = draft[f]
      /\ (engine'[e] = "on" /\ draft' = draft) \/ Drafted(e)
  BY <1>1, <1>2, AppendFacts
<1>4. \A u \in Tasks : draft'[e][u] \in {draft[e][u], recorded'[u], Absent}
  BY <1>3 DEF Drafted
<1>5. /\ \A u \in Tasks \ {t} : recorded'[u] = recorded[u]
      /\ recorded'[t] \in {recorded[t], s, Absent, "queued", "starting", "running"}
      /\ ~AppendMayFail => recorded'[t] = s
  BY <1>1, <1>3 DEF TypeOK, Ledgers
<1> QED BY <1>3, <1>4, <1>5 DEF OthersStay, Drafted

-----------------------------------------------------------------------------
(* The types. *)

LEMMA TypeInit == Init => TypeOK
BY TasksAssumption DEF Init, TypeOK, Listed, Alive, Blank, Ledgers, NoTask

\* A step of an engine that runs, after which all of its tasks are as they should be.
LEMMA TypeNext ==
  ASSUME TypeOK, NEW e \in Engines, On(e), OthersStay(e),
         state' \in Ledgers, recorded' \in Ledgers, UNCHANGED found,
         owner' \in [Tasks -> Engines \union {"nobody"}],
         \A t \in Tasks : owner'[t] \in {owner[t], e},
         kind' \in [Tasks -> {"shell", "browser"}],
         proc' \in [Tasks -> Ended \union {"running", "stopped", "closing", "gone"}],
         \A t \in Tasks : kind'[t] = "browser" => proc'[t] \in {"running", "closing", "gone"},
         term' \in [Tasks -> BOOLEAN], timer' \in [Tasks -> BOOLEAN],
         \A t \in Tasks : timer'[t] => kind'[t] = "shell" /\ proc'[t] # "gone"
                                       /\ ((timer[t] /\ owner'[t] = owner[t]) \/ owner'[t] = e),
         \A t \in Tasks : Listed(t)' => (Listed(t) /\ owner'[t] = owner[t]) \/ owner'[t] = e,
         session' \in [Engines -> Tasks \union {NoTask}],
         \A f \in Engines : session'[f] # NoTask =>
           owner'[session'[f]] = f /\ kind'[session'[f]] = "browser",
         closes' \subseteq Engines \X Tasks
  PROVE  TypeOK'
<1>1. \A f \in Engines : Alive(f) => Alive(f)'
  BY DEF OthersStay, Alive, On
<1>2. \A f \in Engines : engine'[f] \in {"off", "on"} => found'[f] = {}
  BY DEF OthersStay, On, TypeOK
<1>3. \A t \in Tasks : owner'[t] # "nobody" => engine'[owner'[t]] # "off"
                                               /\ found'[owner'[t]] = {}
  BY TasksAssumption DEF OthersStay, On, TypeOK
<1>4. \A t \in Tasks : Listed(t)' => Alive(owner[t])'
  BY <1>1 DEF OthersStay, On, TypeOK, Alive
<1>5. \A t \in Tasks :
        timer'[t] => kind'[t] = "shell" /\ proc'[t] # "gone" /\ Alive(owner[t])'
  BY <1>1 DEF OthersStay, On, TypeOK, Alive
<1>6. found' \in [Engines -> SUBSET Tasks]
  BY DEF TypeOK
<1> QED BY <1>2, <1>3, <1>4, <1>5, <1>6 DEF TypeOK, OthersStay

LEMMA CreateType ==
  ASSUME TypeOK, NEW e \in Engines, NEW t \in Tasks, NEW k \in {"shell", "browser"},
         Create(e, t, k), NEW s \in {"running", "failed-resumable"}, AppendNew(e, t, s),
         state' = [state EXCEPT ![t] = s],
         NEW p \in {"running", proc[t]}, proc' = [proc EXCEPT ![t] = p],
         k = "browser" => p = "running",
         NEW b \in BOOLEAN, timer' = [timer EXCEPT ![t] = b],
         b => k = "shell" /\ p = "running",
         NEW n \in {session[e], t}, session' = [session EXCEPT ![e] = n],
         n = t => k = "browser"
  PROVE  TypeOK'
<1>1. /\ UNCHANGED <<found, term, closes>> /\ On(e) /\ owner[t] = "nobody"
      /\ owner' = [owner EXCEPT ![t] = e] /\ kind' = [kind EXCEPT ![t] = k]
  BY DEF Create, Fresh
<1>2. recorded' \in Ledgers /\ OthersStay(e)
  BY AppendNewFacts
<1>3. state' \in Ledgers
  BY DEF TypeOK, Ledgers, States, Terminal
<1>4. \A f \in Engines : session'[f] # NoTask =>
           owner'[session'[f]] = f /\ kind'[session'[f]] = "browser"
  <2>1. ASSUME NEW f \in Engines \ {e}, session'[f] # NoTask
        PROVE  owner'[session'[f]] = f /\ kind'[session'[f]] = "browser"
    <3>1. session'[f] = session[f] /\ session[f] \in Tasks
      BY <2>1 DEF TypeOK
    <3>2. owner[session[f]] = f /\ kind[session[f]] = "browser" /\ session[f] # t
      BY <1>1, <2>1, <3>1, TasksAssumption DEF TypeOK
    <3> QED BY <1>1, <3>1, <3>2 DEF TypeOK
  <2>2. ASSUME session'[e] # NoTask
        PROVE  owner'[session'[e]] = e /\ kind'[session'[e]] = "browser"
    <3>1. session'[e] = n
      BY DEF TypeOK
    <3>2. CASE n = t
      BY <1>1, <3>1, <3>2 DEF TypeOK
    <3>3. CASE n = session[e] /\ n # t
      BY <1>1, <2>2, <3>1, <3>3 DEF TypeOK
    <3> QED BY <3>2, <3>3
  <2> QED BY <2>1, <2>2
<1>5. \A u \in Tasks : timer'[u] => kind'[u] = "shell" /\ proc'[u] # "gone"
                            /\ ((timer[u] /\ owner'[u] = owner[u]) \/ owner'[u] = e)
  BY <1>1 DEF TypeOK
<1>6. \A u \in Tasks : Listed(u)' => (Listed(u) /\ owner'[u] = owner[u]) \/ owner'[u] = e
  <2>1. \A u \in Tasks : u = t \/ (state'[u] = state[u] /\ owner'[u] = owner[u])
    BY <1>1 DEF TypeOK, Ledgers
  <2>2. owner'[t] = e
    BY <1>1 DEF TypeOK
  <2> QED BY <2>1, <2>2 DEF Listed
<1>7. /\ owner' \in [Tasks -> Engines \union {"nobody"}]
      /\ \A u \in Tasks : owner'[u] \in {owner[u], e}
      /\ kind' \in [Tasks -> {"shell", "browser"}]
  BY <1>1 DEF TypeOK
<1>8. /\ proc' \in [Tasks -> Ended \union {"running", "stopped", "closing", "gone"}]
      /\ \A u \in Tasks : kind'[u] = "browser" => proc'[u] \in {"running", "closing", "gone"}
  BY <1>1 DEF TypeOK
<1>9. /\ term' \in [Tasks -> BOOLEAN] /\ timer' \in [Tasks -> BOOLEAN]
      /\ session' \in [Engines -> Tasks \union {NoTask}]
      /\ closes' \subseteq Engines \X Tasks
  BY <1>1 DEF TypeOK
<1> QED BY <1>1, <1>2, <1>3, <1>4, <1>5, <1>6, <1>7, <1>8, <1>9, TypeNext

LEMMA StartShellType ==
  ASSUME TypeOK, NEW e \in Engines, NEW t \in Tasks, StartShell(e, t)
  PROVE  TypeOK'
<1>1. Create(e, t, "shell") /\ session' = [session EXCEPT ![e] = session[e]]
  BY DEF StartShell, TypeOK
<1>0. ~timer[t] /\ session[e] # t
  <2>1. owner[t] = "nobody" /\ t # NoTask
    BY <1>1 DEF Create, Fresh, Tasks, NoTask
  <2> QED BY <2>1, TasksAssumption DEF TypeOK, Alive
<1>2. ASSUME state' = [state EXCEPT ![t] = "running"], AppendNew(e, t, "running"),
             proc' = [proc EXCEPT ![t] = "running"],
             NEW timed \in BOOLEAN, timer' = [timer EXCEPT ![t] = timed]
      PROVE  TypeOK'
  BY <1>1, <1>0, <1>2, CreateType DEF TypeOK
<1>3. ASSUME state' = [state EXCEPT ![t] = "failed-resumable"],
             AppendNew(e, t, "failed-resumable"), UNCHANGED <<proc, timer>>
      PROVE  TypeOK'
  <2>1. proc' = [proc EXCEPT ![t] = proc[t]] /\ timer' = [timer EXCEPT ![t] = FALSE]
    BY <1>0, <1>3 DEF TypeOK
  <2> QED BY <1>1, <1>0, <1>3, <2>1, CreateType DEF TypeOK
<1> QED BY <1>2, <1>3 DEF StartShell

LEMMA LaunchType ==
  ASSUME TypeOK, NEW e \in Engines, NEW t \in Tasks, LaunchBrowser(e, t)
  PROVE  TypeOK'
<1>1. Create(e, t, "browser") /\ ~timer[t]
  BY TasksAssumption DEF LaunchBrowser, Create, Fresh, TypeOK, Alive
<1>2. timer' = [timer EXCEPT ![t] = FALSE]
  BY <1>1 DEF LaunchBrowser, TypeOK
<1> QED BY <1>1, <1>2, CreateType DEF LaunchBrowser

\* A move of t by its engine, by which processes, signals, timers and close() calls
\* change as they may.
LEMMA MoveType ==
  ASSUME TypeOK, NEW t \in Tasks, NEW s \in States, Move(t, s), On(owner[t]),
         UNCHANGED <<found, owner, kind>>,
         proc' \in [Tasks -> Ended \union {"running", "stopped", "closing", "gone"}],
         \A u \in Tasks : kind[u] = "browser" => proc'[u] \in {"running", "closing", "gone"},
         term' \in [Tasks -> BOOLEAN], timer' \in [Tasks -> BOOLEAN],
         \A u \in Tasks : timer'[u] => timer[u] /\ proc'[u] # "gone",
         session' \in [Engines -> Tasks \union {NoTask}],
         \A f \in Engines : session'[f] \in {session[f], NoTask},
         closes' \subseteq Engines \X Tasks
  PROVE  TypeOK'
<1>1. /\ state' \in Ledgers /\ recorded' \in Ledgers /\ OthersStay(owner[t])
      /\ \A u \in Tasks \ {t} : state'[u] = state[u]
  BY MoveFacts
<1>2. \A u \in Tasks : Listed(u)' => Listed(u) \/ owner[u] = owner[t]
  BY <1>1 DEF Listed
<1>3. \A f \in Engines : session'[f] # NoTask =>
           owner'[session'[f]] = f /\ kind'[session'[f]] = "browser"
  BY DEF TypeOK
<1> QED BY <1>1, <1>2, <1>3, TypeNext DEF TypeOK, On

\* A step that leaves the engines and their tasks as they are.
LEMMA QuietType ==
  ASSUME TypeOK, UNCHANGED <<ledger, found, owner, kind, term, session>>,
         state' \in Ledgers, \A t \in Tasks : state'[t] \in {state[t], Absent},
         proc' \in [Tasks -> Ended \union {"running", "stopped", "closing", "gone"}],
         \A u \in Tasks : kind[u] = "browser" => proc'[u] \in {"running", "closing", "gone"},
         timer' \in [Tasks -> BOOLEAN],
         \A u \in Tasks : timer'[u] => timer[u] /\ proc'[u] # "gone",
         closes' \subseteq Engines \X Tasks
  PROVE  TypeOK'
<1>1. \A t \in Tasks : Listed(t)' => Alive(owner[t])'
  BY DEF TypeOK, Listed, Alive, ledger
<1>2. \A u \in Tasks : timer'[u] => Alive(owner[u])'
  BY DEF TypeOK, Alive, ledger
<1> QED BY <1>1, <1>2 DEF TypeOK, ledger

LEMMA AskedType ==
  ASSUME TypeOK, NEW e \in Engines
  PROVE  Asked(e) \subseteq Engines \X Tasks
BY DEF Asked, TypeOK

LEMMA UserTypes ==
  ASSUME TypeOK, NEW e \in Engines, User(e)
  PROVE  TypeOK'
<1>1. CASE \E t \in Tasks : StartShell(e, t)
  BY <1>1, StartShellType
<1>2. CASE \E t, new \in Tasks : Retry(e, t, new)
  BY <1>2, StartShellType DEF Retry
<1>3. CASE \E t \in Tasks : LaunchBrowser(e, t)
  BY <1>3, LaunchType
<1>4. CASE Clear(e)
  <2>1. Compacted(recorded, MaxTasks) \in Ledgers
    BY CompactedFacts DEF TypeOK
  <2>2. OthersStay(e) /\ On(e) /\ recorded' = recorded
    BY <1>4, <2>1 DEF Clear, OthersStay, TypeOK
  <2>3. state' \in Ledgers /\ \A u \in Tasks : state'[u] \in {state[u], Absent}
    BY <1>4 DEF Clear, TypeOK, Ledgers
  <2>4. /\ owner' = owner /\ kind' = kind /\ proc' = proc /\ term' = term /\ timer' = timer
        /\ session' = session /\ closes' = closes /\ found' = found
    BY <1>4 DEF Clear, browser
  <2>5. \A t \in Tasks : Listed(t)' => Listed(t) /\ owner'[t] = owner[t]
    BY <2>3, <2>4 DEF Listed
  <2> QED BY <2>2, <2>3, <2>4, <2>5, TypeNext DEF TypeOK
<1>5. CASE AskClose(e)
  BY <1>5, QuietType, AskedType DEF AskClose, TypeOK
<1> QED BY <1>1, <1>2, <1>3, <1>4, <1>5 DEF User

LEMMA CancelType ==
  ASSUME TypeOK, NEW t \in Tasks, Cancel(t), UNCHANGED <<found, owner, kind, proc, session>>,
         timer' \in [Tasks -> BOOLEAN], \A u \in Tasks : timer'[u] => timer[u]
  PROVE  TypeOK'
<1>1. Move(t, "cancelling") /\ "cancelling" \in States /\ On(owner[t])
  BY DEF Cancel, States
<1>2. term' \in [Tasks -> BOOLEAN] /\ closes' \subseteq Engines \X Tasks
  <2>1. Asked(owner[t]) \subseteq Engines \X Tasks
    BY <1>1, AskedType DEF On
  <2>2. CASE "cancelling" \in Legal(state[t])
    <3>1. /\ term' = [term EXCEPT ![t] = TRUE]
          /\ closes' = closes \union Asked(owner[t]) \/ closes' = closes
      BY <2>2 DEF Cancel
    <3> QED BY <2>1, <3>1 DEF TypeOK
  <2>3. CASE "cancelling" \notin Legal(state[t])
    BY <2>3 DEF Cancel, TypeOK
  <2> QED BY <2>2, <2>3
<1> QED BY <1>1, <1>2, MoveType DEF TypeOK

LEMMA TaskTypes ==
  ASSUME TypeOK, NEW t \in Tasks, Task(t)
  PROVE  TypeOK'
<1>1. Terminal \subseteq States /\ {"paused", "running", "cancelling"} \subseteq States
  BY DEF States
<1>2. CASE UserCancel(t)
  BY <1>2, CancelType DEF UserCancel, TypeOK
<1>3. CASE Pause(t)
  BY <1>1, <1>3, MoveType DEF Pause, TypeOK, browser
<1>4. CASE Resume(t)
  BY <1>1, <1>4, MoveType DEF Resume, TypeOK, browser
<1>5. CASE Close(t)
  BY <1>5, QuietType DEF Close, TypeOK, Ledgers, browser
<1>6. CASE Exit(t)
  <2>1. /\ On(owner[t])
        /\ proc' \in [Tasks -> Ended \union {"running", "stopped", "closing", "gone"}]
        /\ \A u \in Tasks : kind[u] = "browser" => proc'[u] \in {"running", "closing", "gone"}
        /\ timer' \in [Tasks -> BOOLEAN]
        /\ \A u \in Tasks : timer'[u] => timer[u] /\ proc'[u] # "gone"
        /\ UNCHANGED <<found, owner, kind, term, session, closes>>
    BY <1>6 DEF Exit, TypeOK, browser
  <2>2. CASE Listed(t)
    <3>1. ExitState(t) \in States /\ Move(t, ExitState(t))
      BY <1>1, <1>6, <2>2 DEF Exit, ExitState, Terminal
    <3> QED BY <2>1, <3>1, MoveType DEF TypeOK
  <2>3. CASE ~Listed(t)
    BY <1>6, <2>1, <2>3, QuietType DEF Exit, TypeOK
  <2> QED BY <2>2, <2>3
<1>7. CASE Timeout(t)
  <2>1. timer' \in [Tasks -> BOOLEAN] /\ \A u \in Tasks : timer'[u] => timer[u]
    BY <1>7 DEF Timeout, TypeOK
  <2>2. CASE Cancel(t)
    BY <1>7, <2>1, <2>2, CancelType DEF Timeout
  <2>3. CASE UNCHANGED <<state, ledger, term, closes>>
    BY <1>7, <2>1, <2>3, QuietType DEF Timeout, TypeOK
  <2> QED BY <1>7, <2>2, <2>3 DEF Timeout
<1>8. CASE BrowserEnds(t)
  BY <1>8, QuietType DEF BrowserEnds, TypeOK, browser
<1>9. CASE \E how \in Ended : ProcessEnds(t, how)
  <2>1. PICK how \in Ended : ProcessEnds(t, how)
    BY <1>9
  <2>2. /\ proc' \in [Tasks -> Ended \union {"running", "stopped", "closing", "gone"}]
        /\ \A u \in Tasks : kind[u] = "browser" => proc'[u] \in {"running", "closing", "gone"}
        /\ \A u \in Tasks : timer[u] => proc'[u] # "gone"
    BY <2>1 DEF ProcessEnds, TypeOK, Ended
  <2> QED BY <2>1, <2>2, QuietType DEF ProcessEnds, TypeOK, browser
<1> QED BY <1>2, <1>3, <1>4, <1>5, <1>6, <1>7, <1>8, <1>9 DEF Task

LEMMA CloseBrowserType ==
  ASSUME TypeOK, NEW e \in Engines, NEW t \in Tasks, CloseBrowser(e, t)
  PROVE  TypeOK'
<1>1. /\ proc' \in [Tasks -> Ended \union {"running", "stopped", "closing", "gone"}]
      /\ \A u \in Tasks : kind[u] = "browser" => proc'[u] \in {"running", "closing", "gone"}
      /\ \A u \in Tasks : timer[u] => proc'[u] # "gone"
  BY DEF CloseBrowser, TypeOK
<1>2. /\ session' = [session EXCEPT ![e] = NoTask] /\ closes' \subseteq closes
      /\ session' \in [Engines -> Tasks \union {NoTask}]
      /\ \A f \in Engines : session'[f] \in {session[f], NoTask}
      /\ UNCHANGED <<found, owner, kind, term, timer>> /\ On(e)
  BY DEF CloseBrowser, TypeOK
<1>3. CASE session[e] = NoTask
  <2>1. UNCHANGED <<state, ledger>> /\ session' = session
    BY <1>2, <1>3 DEF CloseBrowser, TypeOK
  <2> QED BY <1>1, <1>2, <2>1, QuietType DEF TypeOK
<1>4. CASE session[e] # NoTask
  <2>1. PICK s \in {"cancelled", "completed"} : Move(session[e], s)
    BY <1>4 DEF CloseBrowser
  <2>2. session[e] \in Tasks /\ On(owner[session[e]]) /\ s \in States
    BY <1>2, <1>4 DEF TypeOK, States, Terminal
  <2> QED BY <1>1, <1>2, <2>1, <2>2, MoveType DEF TypeOK
<1> QED BY <1>3, <1>4

\* Recovery and compaction: an engine goes on with its tasks as they are.
LEMMA EngineGoesOn ==
  ASSUME TypeOK, NEW e \in Engines,
         engine' \in [Engines -> {"off", "booting", "on", "rewriting", "ended"}],
         \A f \in Engines \ {e} : engine'[f] = engine[f] /\ found'[f] = found[f],
         engine'[e] \in {"booting", "on", "rewriting"},
         found' \in [Engines -> SUBSET Tasks],
         engine'[e] = "on" => found'[e] = {},
         found'[e] \subseteq found[e] \/ engine[e] = "off",
         draft' \in [Engines -> Ledgers], recorded' \in Ledgers,
         UNCHANGED <<owner, kind, state, proc, term, timer, browser>>
  PROVE  TypeOK'
<1>1. \A f \in Engines : Alive(f) => Alive(f)'
  BY DEF Alive
<1>2. \A t \in Tasks : (Listed(t)' => Alive(owner[t])') /\ (timer'[t] => Alive(owner[t])')
  BY <1>1 DEF TypeOK, Listed, Alive
<1>3. \A t \in Tasks : owner'[t] # "nobody" => engine'[owner'[t]] # "off"
                                               /\ found'[owner'[t]] = {}
  BY DEF TypeOK
<1>4. \A f \in Engines : engine'[f] \in {"off", "on"} => found'[f] = {}
  BY DEF TypeOK
<1> QED BY <1>2, <1>3, <1>4 DEF TypeOK, browser

LEMMA EngineTypes ==
  ASSUME TypeOK, NEW e \in Engines, Engine(e)
  PROVE  TypeOK'
<1>1. CASE Boot(e)
  <2>1. Interrupted \subseteq Tasks
    BY DEF Interrupted
  <2> QED BY <1>1, <2>1, EngineGoesOn DEF Boot, TypeOK
<1>2. CASE Rewrite(e)
  <2>1. Blank \in Ledgers
    BY DEF Blank, Ledgers
  <2>2. recorded' \in Ledgers /\ draft' \in [Engines -> Ledgers]
    BY <1>2, <2>1 DEF Rewrite, TypeOK
  <2> QED BY <1>2, <2>2, EngineGoesOn DEF Rewrite, TypeOK
<1>3. ASSUME NEW t \in Tasks, Recover(e, t) PROVE TypeOK'
  <2>1. PICK s \in {"on", "booting"} :
          /\ Append(e, Noted(t, "failed-resumable"), s)
          /\ s = "on" <=> found[e] = {t}
    BY <1>3 DEF Recover
  <2>2. Noted(t, "failed-resumable") \in Ledgers
    BY DEF Noted, TypeOK, Ledgers, States, Terminal
  <2>3. /\ recorded' \in Ledgers /\ draft' \in [Engines -> Ledgers]
        /\ engine' \in [Engines -> {"off", "booting", "on", "rewriting", "ended"}]
        /\ \A f \in Engines \ {e} : engine'[f] = engine[f]
        /\ engine'[e] \in {s, "rewriting"}
    BY <2>1, <2>2, AppendFacts DEF Drafted
  <2>4. /\ found' \in [Engines -> SUBSET Tasks] /\ found'[e] = found[e] \ {t}
        /\ \A f \in Engines \ {e} : found'[f] = found[f]
    BY <1>3 DEF Recover, TypeOK
  <2>5. engine'[e] = "on" => found'[e] = {}
    BY <2>1, <2>3, <2>4
  <2> QED BY <1>3, <2>3, <2>4, <2>5, EngineGoesOn DEF Recover
<1>4. CASE \E t \in Tasks : CloseBrowser(e, t)
  BY <1>4, CloseBrowserType
<1>5. CASE EngineEnds(e)
  <2>1. Blank \in Ledgers
    BY DEF Blank, Ledgers
  <2>2. /\ engine' = [engine EXCEPT ![e] = "ended"] /\ found' = [found EXCEPT ![e] = {}]
        /\ draft' \in [Engines -> Ledgers] /\ session' = [session EXCEPT ![e] = NoTask]
        /\ UNCHANGED <<owner, kind, recorded, term>> /\ closes' \subseteq Engines \X Tasks
        /\ engine[e] # "off"
    BY <1>5, <2>1 DEF EngineEnds, TypeOK, Alive
  <2>3. PICK killed \in BOOLEAN :
          proc' = [t \in Tasks |->
            IF owner[t] = e /\ ((kind[t] = "browser" /\ ~killed) \/ proc[t] \in Ended)
              THEN "gone" ELSE proc[t]]
    BY <1>5 DEF EngineEnds
  <2>4. /\ proc' \in [Tasks -> Ended \union {"running", "stopped", "closing", "gone"}]
        /\ \A t \in Tasks : kind[t] = "browser" => proc'[t] \in {"running", "closing", "gone"}
        /\ \A t \in Tasks : proc'[t] = proc[t] \/ owner[t] = e
    BY <2>3 DEF TypeOK
  <2>5. /\ state' \in Ledgers /\ timer' \in [Tasks -> BOOLEAN]
        /\ \A t \in Tasks : Listed(t)' => Listed(t) /\ owner[t] # e
        /\ \A t \in Tasks : timer'[t] => timer[t] /\ owner[t] # e
    BY <1>5 DEF EngineEnds, TypeOK, Ledgers, Listed
  <2>6. \A t \in Tasks : (Listed(t)' => Alive(owner[t])') /\ (timer'[t] => Alive(owner[t])')
    BY <2>2, <2>5 DEF TypeOK, Alive
  <2>7. \A t \in Tasks : owner'[t] # "nobody" => engine'[owner'[t]] # "off"
                                                 /\ found'[owner'[t]] = {}
    BY <2>2 DEF TypeOK
  <2>8. \A f \in Engines : /\ engine'[f] \in {"off", "on"} => found'[f] = {}
                           /\ session'[f] # NoTask =>
                                owner'[session'[f]] = f /\ kind'[session'[f]] = "browser"
    BY <2>2 DEF TypeOK
  <2>9. /\ engine' \in [Engines -> {"off", "booting", "on", "rewriting", "ended"}]
        /\ found' \in [Engines -> SUBSET Tasks]
        /\ session' \in [Engines -> Tasks \union {NoTask}]
    BY <2>2 DEF TypeOK
  <2> QED BY <2>2, <2>4, <2>5, <2>6, <2>7, <2>8, <2>9 DEF TypeOK
<1> QED BY <1>1, <1>2, <1>3, <1>4, <1>5 DEF Engine

LEMMA TypeStep == TypeOK /\ [Next]_vars => TypeOK'
<1> SUFFICES ASSUME TypeOK, [Next]_vars PROVE TypeOK'
  OBVIOUS
<1>1. CASE Next
  BY <1>1, EngineTypes, UserTypes, TaskTypes DEF Next
<1>2. CASE UNCHANGED vars
  BY <1>2, QuietType DEF vars, ledger, browser, TypeOK
<1> QED BY <1>1, <1>2

\* The registry lists only tasks of an engine that runs, a timeout is armed only while
\* the process of its shell task has not been reported gone, and all has its type.
THEOREM TasksTypeCorrect == Spec => []TypeOK
BY TypeInit, TypeStep, PTL DEF Spec

-----------------------------------------------------------------------------
(* What the invariants say of one task. *)

Claims(l, t) == l[t] \in Settled => state[t] \in {l[t], Absent} /\ Over(t)

Sound(t) ==
  /\ state[t] = "paused" => proc[t] # "running"
  /\ state[t] = "running" => proc[t] # "stopped"
  /\ state[t] = "cancelling" => term[t]
  /\ Claims(recorded, t)
  /\ \A e \in Engines : Claims(draft[e], t)
  /\ owner[t] = "nobody" => Traceless(t)

AllSound == \A t \in Tasks : Sound(t)

LEMMA SoundIsInv == IInv <=> AllSound /\ InTurn /\ ClosesTheOpen
BY DEF IInv, AllSound, Sound, Claims, Truthful, HonestPause, CancellingIsSignalled

\* A step leaves t as it was, or loses what the registry or the ledger had of it, or brings
\* back what a draft has of it.
Untouched(t) ==
  /\ owner'[t] = owner[t] /\ kind'[t] = kind[t] /\ term'[t] = term[t]
  /\ state'[t] \in {state[t], Absent}
  /\ \/ recorded'[t] \in {recorded[t], Absent}
     \/ recorded'[t] = "failed-resumable" /\ recorded[t] # Absent
     \/ \E e \in Engines : recorded'[t] = draft[e][t]
  /\ \A e \in Engines : draft'[e][t] \in {draft[e][t], recorded'[t], Absent}
  /\ \/ proc'[t] \in {proc[t], "gone"}
     \/ proc[t] = "running" /\ proc'[t] = "closing"
     \/ kind[t] = "shell" /\ proc[t] # "gone" /\ proc'[t] \in Ended
  /\ \A e \in Engines : /\ t \in found'[e] => t \in found[e] \/ recorded[t] # Absent
                        /\ <<e, t>> \in closes' => <<e, t>> \in closes \/ owner[t] # "nobody"

LEMMA UntouchedSound ==
  ASSUME TypeOK, NEW t \in Tasks, Sound(t), Untouched(t)
  PROVE  Sound(t)'
<1>1. Over(t) => Over(t)'
  BY DEF Over, Untouched, TypeOK, Ended
<1>2. ASSUME NEW l \in {recorded'[t]} \union {draft'[e][t] : e \in Engines}, l \in Settled
      PROVE  state'[t] \in {l, Absent} /\ Over(t)'
  <2>1. Absent \notin Settled /\ "failed-resumable" \notin Settled
    BY DEF Absent, Settled
  <2>2. l = recorded[t] \/ \E e \in Engines : l = draft[e][t]
    BY <1>2, <2>1 DEF Untouched
  <2>3. state[t] \in {l, Absent} /\ Over(t)
    BY <1>2, <2>2 DEF Sound, Claims
  <2> QED BY <1>1, <2>3 DEF Untouched
<1>3. Claims(recorded, t)' /\ \A e \in Engines : Claims(draft[e], t)'
  BY <1>2 DEF Claims
<1>4. ASSUME owner'[t] = "nobody" PROVE Traceless(t)'
  <2>1. Traceless(t)
    BY <1>4 DEF Sound, Untouched
  <2>2. recorded'[t] = Absent /\ proc'[t] = "gone"
    BY <2>1 DEF Traceless, Untouched
  <2> QED BY <1>4, <2>1, <2>2 DEF Traceless, Untouched
<1>5. /\ state'[t] = "paused" => proc'[t] # "running"
      /\ state'[t] = "running" => proc'[t] # "stopped"
      /\ state'[t] = "cancelling" => term'[t]
  BY DEF Sound, Untouched, Absent, Ended
<1> QED BY <1>3, <1>4, <1>5 DEF Sound

LEMMA SoundInit == Init => AllSound
<1> SUFFICES ASSUME Init, NEW t \in Tasks PROVE Sound(t)
  BY DEF AllSound
<1> QED BY DEF Init, Sound, Claims, Traceless, Blank, Settled, Absent

LEMMA SoundNext == (\A t \in Tasks : Sound(t)') => AllSound'
BY DEF AllSound

\* Creation: the task had left no trace.
LEMMA CreateSound ==
  ASSUME TypeOK, AllSound, NEW e \in Engines, NEW t \in Tasks, NEW k \in {"shell", "browser"},
         Create(e, t, k), NEW s \in {"running", "failed-resumable"}, AppendNew(e, t, s),
         state' = [state EXCEPT ![t] = s],
         NEW p \in {"running", proc[t]}, proc' = [proc EXCEPT ![t] = p]
  PROVE  AllSound'
<1>1. /\ UNCHANGED <<found, term, closes>> /\ On(e) /\ owner[t] = "nobody"
      /\ owner' = [owner EXCEPT ![t] = e] /\ kind' = [kind EXCEPT ![t] = k]
  BY DEF Create, Fresh
<1>2. /\ OthersStay(e)
      /\ \A u \in Tasks \ {t} : recorded'[u] = recorded[u]
      /\ recorded'[t] \in {recorded[t], s, Absent, "queued", "starting", "running"}
      /\ \A u \in Tasks : draft'[e][u] \in {draft[e][u], recorded'[u], Absent}
  BY AppendNewFacts
<1>3. \A f \in Engines : \A u \in Tasks : draft'[f][u] \in {draft[f][u], recorded'[u], Absent}
  BY <1>2 DEF OthersStay
<1>4. Sound(t) /\ Traceless(t)
  BY <1>1 DEF AllSound, Sound
<1>5. Sound(t)'
  <2>1. /\ recorded'[t] \notin Settled
        /\ \A f \in Engines : draft'[f][t] \notin Settled
    BY <1>2, <1>3, <1>4 DEF Traceless, Settled, Absent
  <2>2. owner'[t] # "nobody"
    BY <1>1, TasksAssumption DEF TypeOK
  <2>3. state'[t] = s /\ proc'[t] = p /\ p \in {"running", "gone"}
    BY <1>4 DEF TypeOK, Ledgers, Traceless
  <2> QED BY <2>1, <2>2, <2>3 DEF Sound, Claims
<1>6. ASSUME NEW u \in Tasks \ {t} PROVE Sound(u)'
  <2>1. Untouched(u)
    BY <1>1, <1>2, <1>3 DEF Untouched, TypeOK, Ledgers
  <2> QED BY <2>1, UntouchedSound DEF AllSound
<1> QED BY <1>5, <1>6, SoundNext

\* A move of t, by which the process and the signals change as they may.
LEMMA MoveSound ==
  ASSUME TypeOK, AllSound, NEW t \in Tasks, NEW s \in States, Move(t, s), On(owner[t]),
         UNCHANGED <<found, owner, kind>>,
         \A u \in Tasks \ {t} :
           /\ term'[u] = term[u]
           /\ proc'[u] \in {proc[u], "gone"} \/ (proc[u] = "running" /\ proc'[u] = "closing"),
         \A e \in Engines, u \in Tasks :
           <<e, u>> \in closes' => <<e, u>> \in closes \/ owner[u] # "nobody",
         state'[t] = "paused" => proc'[t] # "running",
         state'[t] = "running" => proc'[t] # "stopped",
         state'[t] = "cancelling" => term'[t],
         Over(t) => Over(t)',
         s \in Settled /\ s \in Legal(state[t]) => Over(t)'
  PROVE  AllSound'
<1>1. /\ OthersStay(owner[t])
      /\ \A u \in Tasks \ {t} : state'[u] = state[u] /\ recorded'[u] = recorded[u]
      /\ \A u \in Tasks : draft'[owner[t]][u] \in {draft[owner[t]][u], recorded'[u], Absent}
  BY MoveFacts
<1>2. \A f \in Engines : \A u \in Tasks : draft'[f][u] \in {draft[f][u], recorded'[u], Absent}
  BY <1>1 DEF OthersStay
<1>3. Sound(t)'
  <2>1. owner[t] # "nobody" /\ Sound(t)
    BY TasksAssumption DEF On, AllSound
  <2>2. CASE s \notin Legal(state[t])
    <3>1. state' = state /\ recorded' = recorded /\ draft' = draft
      BY <2>2, MoveFacts
    <3>2. Claims(recorded, t)' /\ \A e \in Engines : Claims(draft[e], t)'
      BY <2>1, <3>1 DEF Sound, Claims
    <3> QED BY <2>1, <3>2 DEF Sound
  <2>3. CASE s \in Legal(state[t])
    <3>1. state'[t] = s /\ recorded'[t] \in {recorded[t], s}
      BY <2>3, MoveFacts
    <3>2. state[t] \notin Settled \union {Absent}
      BY <2>3 DEF Legal, Settled, Absent
    <3>3. recorded[t] \notin Settled /\ \A e \in Engines : draft[e][t] \notin Settled
      BY <2>1, <3>2 DEF Sound, Claims
    <3>4. /\ recorded'[t] \in Settled => recorded'[t] = s
          /\ \A e \in Engines : draft'[e][t] \in Settled => draft'[e][t] = s
      BY <1>2, <3>1, <3>3 DEF Settled, Absent
    <3>5. Claims(recorded, t)' /\ \A e \in Engines : Claims(draft[e], t)'
      BY <2>3, <3>1, <3>4 DEF Claims
    <3> QED BY <2>1, <3>5 DEF Sound
  <2> QED BY <2>2, <2>3
<1>4. ASSUME NEW u \in Tasks \ {t} PROVE Sound(u)'
  <2>1. Untouched(u)
    BY <1>1, <1>2 DEF Untouched, TypeOK
  <2> QED BY <2>1, UntouchedSound DEF AllSound
<1> QED BY <1>3, <1>4, SoundNext

LEMMA AllUntouchedSound ==
  ASSUME TypeOK, AllSound, \A t \in Tasks : Untouched(t)
  PROVE  AllSound'
BY UntouchedSound, SoundNext DEF AllSound

\* The browser asked to close is one that was created.
LEMMA AskedOwned ==
  ASSUME TypeOK, NEW e \in Engines, NEW f \in Engines, NEW t \in Tasks, <<f, t>> \in Asked(e)
  PROVE  owner[t] # "nobody"
<1>1. session[e] # NoTask /\ session[e] = t
  BY DEF Asked
<1> QED BY <1>1, TasksAssumption DEF TypeOK

LEMMA UserSound ==
  ASSUME TypeOK, AllSound, NEW e \in Engines, User(e)
  PROVE  AllSound'
<1>1. ASSUME NEW t \in Tasks, StartShell(e, t)
      PROVE  AllSound'
  <2>1. Create(e, t, "shell")
    BY <1>1 DEF StartShell
  <2>2. CASE state' = [state EXCEPT ![t] = "running"] /\ AppendNew(e, t, "running")
             /\ proc' = [proc EXCEPT ![t] = "running"]
    BY <2>1, <2>2, CreateSound
  <2>3. CASE state' = [state EXCEPT ![t] = "failed-resumable"]
             /\ AppendNew(e, t, "failed-resumable") /\ UNCHANGED proc
    <3>1. proc' = [proc EXCEPT ![t] = proc[t]]
      BY <2>3 DEF TypeOK
    <3> QED BY <2>1, <2>3, <3>1, CreateSound
  <2> QED BY <1>1, <2>2, <2>3 DEF StartShell
<1>2. CASE \E t, new \in Tasks : Retry(e, t, new)
  BY <1>1, <1>2 DEF Retry
<1>3. ASSUME NEW t \in Tasks, LaunchBrowser(e, t)
      PROVE  AllSound'
  BY <1>3, CreateSound DEF LaunchBrowser
<1>4. CASE Clear(e)
  <2>1. /\ draft' = [draft EXCEPT ![e] = Compacted(recorded, MaxTasks)]
        /\ UNCHANGED <<found, owner, kind, recorded, proc, term, closes>>
        /\ \A u \in Tasks : state'[u] \in {state[u], Absent}
    BY <1>4 DEF Clear, browser
  <2>2. \A u \in Tasks : Compacted(recorded, MaxTasks)[u] \in {recorded[u], Absent}
    BY CompactedFacts DEF TypeOK
  <2>3. \A f \in Engines : \A u \in Tasks : draft'[f][u] \in {draft[f][u], recorded'[u], Absent}
    BY <2>1, <2>2 DEF TypeOK
  <2>4. \A u \in Tasks : Untouched(u)
    BY <2>1, <2>3 DEF Untouched
  <2> QED BY <2>4, AllUntouchedSound
<1>5. CASE AskClose(e)
  <2>1. \A u \in Tasks : Untouched(u)
    BY <1>5, AskedOwned DEF AskClose, Untouched, ledger
  <2> QED BY <2>1, AllUntouchedSound
<1> QED BY <1>1, <1>2, <1>3, <1>4, <1>5 DEF User

LEMMA CancelSound ==
  ASSUME TypeOK, AllSound, NEW t \in Tasks, Cancel(t), UNCHANGED <<found, owner, kind, proc>>
  PROVE  AllSound'
<1>1. Move(t, "cancelling") /\ "cancelling" \in States \ Settled /\ On(owner[t]) /\ Sound(t)
  BY DEF Cancel, States, Settled, AllSound
<1>2. Over(t) => Over(t)'
  BY DEF Over
<1>3. CASE "cancelling" \notin Legal(state[t])
  <2>1. term' = term /\ closes' = closes /\ state' = state
    BY <1>1, <1>3, MoveFacts DEF Cancel
  <2>2. /\ state'[t] = "paused" => proc'[t] # "running"
        /\ state'[t] = "running" => proc'[t] # "stopped"
        /\ state'[t] = "cancelling" => term'[t]
    BY <1>1, <2>1 DEF Sound
  <2> QED BY <1>1, <1>2, <2>1, <2>2, MoveSound
<1>4. CASE "cancelling" \in Legal(state[t])
  <2>1. state'[t] = "cancelling"
    BY <1>1, <1>4, MoveFacts
  <2>2. /\ term' = [term EXCEPT ![t] = TRUE]
        /\ closes' = closes \union Asked(owner[t]) \/ closes' = closes
    BY <1>4 DEF Cancel
  <2>3. term'[t] = TRUE /\ \A u \in Tasks \ {t} : term'[u] = term[u]
    BY <2>2 DEF TypeOK
  <2>4. \A e \in Engines, u \in Tasks :
           <<e, u>> \in closes' => <<e, u>> \in closes \/ owner[u] # "nobody"
    BY <1>1, <2>2, AskedOwned DEF On
  <2> QED BY <1>1, <1>2, <2>1, <2>3, <2>4, MoveSound
<1> QED BY <1>3, <1>4

LEMMA TaskSound ==
  ASSUME TypeOK, AllSound, NEW t \in Tasks, Task(t)
  PROVE  AllSound'
<1>1. /\ Sound(t) /\ Terminal \subseteq States
      /\ {"paused", "running"} \subseteq States \ Settled
  BY DEF AllSound, States, Settled
<1>2. CASE UserCancel(t)
  BY <1>2, CancelSound DEF UserCancel
<1>3. CASE Pause(t)
  <2>1. /\ Move(t, "paused") /\ On(owner[t]) /\ UNCHANGED <<found, owner, kind, term, closes>>
        /\ "paused" \in Legal(state[t]) /\ kind[t] = "shell" /\ proc[t] # "gone"
        /\ proc'[t] = IF proc[t] = "running" THEN "stopped" ELSE proc[t]
        /\ \A u \in Tasks \ {t} : proc'[u] = proc[u]
    BY <1>3 DEF Pause, Legal, browser, TypeOK
  <2>2. state'[t] = "paused"
    BY <1>1, <2>1, MoveFacts
  <2>3. ~Over(t)
    BY <2>1 DEF Over
  <2> QED BY <1>1, <2>1, <2>2, <2>3, MoveSound
<1>4. CASE Resume(t)
  <2>1. /\ Move(t, "running") /\ On(owner[t]) /\ UNCHANGED <<found, owner, kind, term, closes>>
        /\ "running" \in Legal(state[t]) /\ proc[t] # "gone"
        /\ proc'[t] = IF proc[t] = "stopped" THEN "running" ELSE proc[t]
        /\ \A u \in Tasks \ {t} : proc'[u] = proc[u]
    BY <1>4 DEF Resume, Legal, browser, TypeOK
  <2>2. state'[t] = "running"
    BY <1>1, <2>1, MoveFacts
  <2>3. Over(t) => Over(t)'
    BY <2>1 DEF Over
  <2> QED BY <1>1, <2>1, <2>2, <2>3, MoveSound
<1>5. CASE Close(t)
  <2>1. \A u \in Tasks : Untouched(u)
    BY <1>5 DEF Close, Untouched, TypeOK, Ledgers, ledger, browser
  <2> QED BY <2>1, AllUntouchedSound
<1>6. CASE Exit(t)
  <2>1. /\ proc' = [proc EXCEPT ![t] = "gone"] /\ On(owner[t])
        /\ UNCHANGED <<found, owner, kind, term, closes>>
    BY <1>6 DEF Exit, browser
  <2>2. proc'[t] = "gone" /\ \A u \in Tasks \ {t} : proc'[u] = proc[u]
    BY <2>1 DEF TypeOK
  <2>3. CASE Listed(t)
    <3>1. PICK s \in Terminal : Move(t, s)
      BY <1>6, <2>3 DEF Exit, ExitState, Terminal
    <3>2. Over(t)'
      BY <2>2 DEF Over
    <3>3. state'[t] = "cancelling" => term'[t]
      <4>1. state'[t] \in {state[t], s} /\ s # "cancelling"
        BY <1>1, <2>1, <3>1, MoveFacts DEF Terminal
      <4> QED BY <1>1, <2>1, <4>1 DEF Sound
    <3> QED BY <1>1, <2>1, <2>2, <3>1, <3>2, <3>3, MoveSound
  <2>4. CASE ~Listed(t)
    <3>1. \A u \in Tasks : Untouched(u)
      BY <1>6, <2>1, <2>2, <2>4 DEF Exit, Untouched, ledger
    <3> QED BY <3>1, AllUntouchedSound
  <2> QED BY <2>3, <2>4
<1>7. CASE Timeout(t)
  <2>1. CASE Cancel(t)
    BY <1>7, <2>1, CancelSound DEF Timeout
  <2>2. CASE UNCHANGED <<state, ledger, term, closes>>
    <3>1. \A u \in Tasks : Untouched(u)
      BY <1>7, <2>2 DEF Timeout, Untouched, ledger
    <3> QED BY <3>1, AllUntouchedSound
  <2> QED BY <1>7, <2>1, <2>2 DEF Timeout
<1>8. CASE BrowserEnds(t)
  <2>1. \A u \in Tasks : Untouched(u)
    BY <1>8 DEF BrowserEnds, Untouched, TypeOK, ledger, browser
  <2> QED BY <2>1, AllUntouchedSound
<1>9. CASE \E how \in Ended : ProcessEnds(t, how)
  <2>1. PICK how \in Ended : ProcessEnds(t, how)
    BY <1>9
  <2>2. \A u \in Tasks : \/ proc'[u] \in {proc[u], "gone"}
                         \/ kind[u] = "shell" /\ proc[u] # "gone" /\ proc'[u] \in Ended
    BY <2>1 DEF ProcessEnds, TypeOK
  <2>3. \A u \in Tasks : Untouched(u)
    BY <2>1, <2>2 DEF ProcessEnds, Untouched, ledger, browser
  <2> QED BY <2>3, AllUntouchedSound
<1> QED BY <1>2, <1>3, <1>4, <1>5, <1>6, <1>7, <1>8, <1>9 DEF Task

\* What closing a browser records of the one open is true: it is the one that close() was
\* called for, or page handles are waited for longer.
LEMMA CloseBrowserSound ==
  ASSUME TypeOK, AllSound, ClosesTheOpen, NEW e \in Engines, NEW t \in Tasks,
         CloseBrowser(e, t)
  PROVE  AllSound'
<1>1. /\ closes' \subseteq closes /\ On(e) /\ <<e, t>> \in closes
      /\ UNCHANGED <<found, owner, kind, term>>
  BY DEF CloseBrowser
<1>2. /\ proc'[t] = IF proc[t] = "running" THEN "closing" ELSE proc[t]
      /\ \A u \in Tasks \ {t} : proc'[u] = proc[u]
  BY DEF CloseBrowser, TypeOK
<1>3. CASE session[e] = NoTask
  <2>1. \A u \in Tasks : Untouched(u)
    BY <1>1, <1>2, <1>3 DEF CloseBrowser, Untouched, ledger
  <2> QED BY <2>1, AllUntouchedSound
<1>4. CASE session[e] # NoTask
  <2>1. PICK open \in Tasks : open = session[e]
    BY <1>4 DEF TypeOK
  <2>2. PICK s \in {"cancelled", "completed"} : Move(open, s)
    BY <1>4, <2>1 DEF CloseBrowser
  <2>3. /\ owner[open] = e /\ kind[open] = "browser" /\ s \in States
        /\ proc[open] \in {"running", "closing", "gone"}
    BY <1>4, <2>1 DEF TypeOK, States, Terminal
  <2>4. CloseMayLag \/ open = t
    BY <1>1, <1>4, <2>1 DEF ClosesTheOpen
  <2>5. Over(open)'
    BY <1>1, <1>2, <2>3, <2>4 DEF Over
  <2>6. Sound(open) /\ state'[open] \in {state[open], s}
    BY <1>1, <2>2, <2>3, MoveFacts DEF AllSound
  <2>7. /\ state'[open] = "paused" => proc'[open] # "running"
        /\ state'[open] = "running" => proc'[open] # "stopped"
        /\ state'[open] = "cancelling" => term'[open]
    BY <1>1, <1>2, <2>2, <2>3, <2>6 DEF Sound
  <2> QED BY <1>1, <1>2, <2>2, <2>3, <2>5, <2>7, MoveSound
<1> QED BY <1>3, <1>4

\* Recovery and compaction settle nothing, and the end of an engine only loses processes.
LEMMA EngineSound ==
  ASSUME TypeOK, AllSound, ClosesTheOpen, NEW e \in Engines, Engine(e)
  PROVE  AllSound'
<1>1. CASE Boot(e)
  <2>1. /\ UNCHANGED <<draft, owner, kind, state, recorded, proc, term, closes>>
        /\ found' = [found EXCEPT ![e] = Interrupted]
        /\ \A u \in Interrupted : recorded[u] # Absent
    BY <1>1 DEF Boot, browser, Interrupted, States, Terminal, Absent
  <2>2. \A u \in Tasks : Untouched(u)
    BY <2>1 DEF Untouched, TypeOK
  <2> QED BY <2>2, AllUntouchedSound
<1>2. CASE Rewrite(e)
  <2>1. /\ UNCHANGED <<found, owner, kind, state, proc, term, closes>>
        /\ recorded' = draft[e] \/ recorded' = recorded
        /\ draft' = [draft EXCEPT ![e] = Blank]
    BY <1>2 DEF Rewrite, browser
  <2>2. \A f \in Engines : \A u \in Tasks : draft'[f][u] \in {draft[f][u], Absent}
    BY <2>1 DEF TypeOK, Blank
  <2>3. \A u \in Tasks : Untouched(u)
    BY <2>1, <2>2 DEF Untouched
  <2> QED BY <2>3, AllUntouchedSound
<1>3. ASSUME NEW t \in Tasks, Recover(e, t) PROVE AllSound'
  <2>1. /\ UNCHANGED <<owner, kind, state, proc, term, closes>>
        /\ found' = [found EXCEPT ![e] = @ \ {t}]
    BY <1>3 DEF Recover, browser
  <2>2. PICK s \in {"on", "booting"} : Append(e, Noted(t, "failed-resumable"), s)
    BY <1>3 DEF Recover
  <2>3. /\ Noted(t, "failed-resumable") \in Ledgers
        /\ \A u \in Tasks :
             \/ Noted(t, "failed-resumable")[u] = recorded[u]
             \/ Noted(t, "failed-resumable")[u] = "failed-resumable" /\ recorded[u] # Absent
    BY DEF Noted, TypeOK, Ledgers, States, Terminal
  <2>4. /\ recorded' \in {Noted(t, "failed-resumable"), recorded}
        /\ \A f \in Engines \ {e} : draft'[f] = draft[f]
        /\ draft' = draft \/ Drafted(e)
    BY <2>2, <2>3, AppendFacts
  <2>5. \A f \in Engines : \A u \in Tasks : draft'[f][u] \in {draft[f][u], recorded'[u], Absent}
    BY <2>4 DEF Drafted
  <2>6. \A u \in Tasks : Untouched(u)
    BY <2>1, <2>3, <2>4, <2>5 DEF Untouched, TypeOK
  <2> QED BY <2>6, AllUntouchedSound
<1>4. CASE \E t \in Tasks : CloseBrowser(e, t)
  BY <1>4, CloseBrowserSound
<1>5. CASE EngineEnds(e)
  <2>1. /\ UNCHANGED <<owner, kind, recorded, term>>
        /\ found' = [found EXCEPT ![e] = {}] /\ draft' = [draft EXCEPT ![e] = Blank]
        /\ closes' \subseteq closes
        /\ \A u \in Tasks : state'[u] \in {state[u], Absent} /\ proc'[u] \in {proc[u], "gone"}
    BY <1>5 DEF EngineEnds
  <2>2. \A f \in Engines : \A u \in Tasks : draft'[f][u] \in {draft[f][u], Absent}
    BY <2>1 DEF TypeOK, Blank
  <2>3. \A u \in Tasks : Untouched(u)
    BY <2>1, <2>2 DEF Untouched, TypeOK
  <2> QED BY <2>3, AllUntouchedSound
<1> QED BY <1>1, <1>2, <1>3, <1>4, <1>5 DEF Engine

LEMMA SoundStep == TypeOK /\ AllSound /\ ClosesTheOpen /\ [Next]_vars => AllSound'
<1> SUFFICES ASSUME TypeOK, AllSound, ClosesTheOpen, [Next]_vars PROVE AllSound'
  OBVIOUS
<1>1. CASE Next
  BY <1>1, EngineSound, UserSound, TaskSound DEF Next
<1>2. CASE UNCHANGED vars
  <2>1. \A u \in Tasks : Untouched(u)
    BY <1>2 DEF vars, Untouched, ledger, browser
  <2> QED BY <2>1, AllUntouchedSound
<1> QED BY <1>1, <1>2

-----------------------------------------------------------------------------
(* close() calls and the browser that is open. *)

LEMMA ClosesKept ==
  ASSUME ClosesTheOpen,
         \A e \in Engines, t \in Tasks : <<e, t>> \in closes' =>
           \/ <<e, t>> \in closes /\ session'[e] \in {session[e], NoTask}
           \/ session'[e] = t
  PROVE  ClosesTheOpen'
BY DEF ClosesTheOpen

\* A browser is launched when no close() waits, and a call is for the browser open then.
LEMMA ClosesStep == TypeOK /\ ClosesTheOpen /\ [Next]_vars => ClosesTheOpen'
<1> SUFFICES ASSUME TypeOK, ClosesTheOpen, [Next]_vars, ~CloseMayLag PROVE ClosesTheOpen'
  BY DEF ClosesTheOpen
<1>1. CASE UNCHANGED closes /\ UNCHANGED session
  BY <1>1, ClosesKept
<1>2. ASSUME NEW e \in Engines, closes' = closes \union Asked(e), UNCHANGED session
      PROVE  ClosesTheOpen'
  <2>1. \A f \in Engines, t \in Tasks : <<f, t>> \in Asked(e) => session[f] = t
    BY DEF Asked
  <2> QED BY <1>2, <2>1, ClosesKept
<1>3. ASSUME NEW t \in Tasks, Cancel(t), UNCHANGED session
      PROVE  ClosesTheOpen'
  <2>1. owner[t] \in Engines /\ (closes' = closes \union Asked(owner[t]) \/ closes' = closes)
    BY <1>3 DEF Cancel, On
  <2> QED BY <1>1, <1>2, <1>3, <2>1
<1>4. ASSUME NEW t \in Tasks, Task(t) PROVE ClosesTheOpen'
  <2>1. CASE UserCancel(t)
    BY <1>3, <2>1 DEF UserCancel
  <2>2. CASE Timeout(t)
    BY <1>1, <1>3, <2>2 DEF Timeout
  <2>3. CASE ~UserCancel(t) /\ ~Timeout(t)
    BY <1>1, <1>4, <2>3 DEF Task, Pause, Resume, Close, Exit, BrowserEnds, ProcessEnds, browser
  <2> QED BY <2>1, <2>2, <2>3
<1>5. ASSUME NEW e \in Engines, NEW t \in Tasks, StartShell(e, t) PROVE ClosesTheOpen'
  BY <1>1, <1>5 DEF StartShell, Create
<1>6. ASSUME NEW e \in Engines, User(e) PROVE ClosesTheOpen'
  <2>1. ASSUME NEW t \in Tasks, LaunchBrowser(e, t) PROVE ClosesTheOpen'
    <3>1. /\ \A u \in Tasks : <<e, u>> \notin closes
          /\ session' = [session EXCEPT ![e] = t] /\ closes' = closes
      BY <2>1 DEF LaunchBrowser, Create
    <3>2. \A f \in Engines \ {e} : session'[f] = session[f]
      BY <3>1 DEF TypeOK
    <3> QED BY <3>1, <3>2, ClosesKept
  <2>2. CASE Clear(e)
    BY <1>1, <2>2 DEF Clear, browser
  <2>3. CASE AskClose(e)
    BY <1>2, <2>3 DEF AskClose
  <2> QED BY <1>5, <1>6, <2>1, <2>2, <2>3 DEF User, Retry
<1>7. ASSUME NEW e \in Engines, Engine(e) PROVE ClosesTheOpen'
  <2>1. CASE Boot(e) \/ Rewrite(e) \/ \E t \in Tasks : Recover(e, t)
    BY <1>1, <2>1 DEF Boot, Rewrite, Recover, browser
  <2>2. CASE EngineEnds(e) \/ \E t \in Tasks : CloseBrowser(e, t)
    <3>1. closes' \subseteq closes /\ session' = [session EXCEPT ![e] = NoTask]
      BY <2>2 DEF EngineEnds, CloseBrowser
    <3>2. \A f \in Engines : session'[f] \in {session[f], NoTask}
      BY <3>1 DEF TypeOK
    <3> QED BY <3>1, <3>2, ClosesKept
  <2> QED BY <1>7, <2>1, <2>2 DEF Engine
<1> QED BY <1>1, <1>4, <1>6, <1>7 DEF Next, vars, browser

-----------------------------------------------------------------------------
(* Engines that follow one another. *)

\* A step of an engine that runs its registry.
LEMMA TurnOn ==
  ASSUME TypeOK, InTurn, NEW e \in Engines, On(e), OthersStay(e), UNCHANGED found,
         engine'[e] = "on" \/ Drafted(e)
  PROVE  InTurn'
<1>1. found'[e] = {} /\ Alive(e)
  BY DEF On, Alive, TypeOK
<1>2. ASSUME ~Overlap, NEW f \in Engines, Alive(f)' PROVE f = e
  BY <1>1, <1>2 DEF InTurn, OthersStay, Alive
<1>3. engine'[e] = "rewriting" =>
        \A t \in Tasks : \/ draft'[e][t] = recorded'[t]
                         \/ recorded'[t] \in Terminal /\ draft'[e][t] = Absent
  BY DEF Drafted
<1> QED BY <1>1, <1>2, <1>3 DEF InTurn

LEMMA TurnQuiet ==
  ASSUME InTurn, UNCHANGED <<ledger, found>>
  PROVE  InTurn'
BY DEF InTurn, Alive, ledger

LEMMA TurnMove ==
  ASSUME TypeOK, InTurn, NEW t \in Tasks, NEW s \in States, Move(t, s), On(owner[t]),
         UNCHANGED found
  PROVE  InTurn'
BY MoveFacts, TurnOn DEF On

LEMMA TaskTurn ==
  ASSUME TypeOK, InTurn, NEW t \in Tasks, Task(t)
  PROVE  InTurn'
<1>1. Terminal \union {"paused", "running", "cancelling"} \subseteq States
  BY DEF States
<1>2. ASSUME Cancel(t), UNCHANGED found PROVE InTurn'
  BY <1>1, <1>2, TurnMove DEF Cancel
<1>3. CASE UserCancel(t)
  BY <1>2, <1>3 DEF UserCancel
<1>4. CASE Timeout(t)
  BY <1>2, <1>4, TurnQuiet DEF Timeout
<1>5. CASE Exit(t)
  <2>1. CASE Listed(t)
    <3>1. PICK s \in Terminal : Move(t, s)
      BY <1>5, <2>1 DEF Exit, ExitState, Terminal
    <3> QED BY <1>1, <1>5, <3>1, TurnMove DEF Exit
  <2>2. CASE ~Listed(t)
    BY <1>5, <2>2, TurnQuiet DEF Exit
  <2> QED BY <2>1, <2>2
<1>6. CASE Pause(t)
  BY <1>1, <1>6, TurnMove DEF Pause
<1>7. CASE Resume(t)
  BY <1>1, <1>7, TurnMove DEF Resume
<1>8. CASE Close(t) \/ BrowserEnds(t) \/ \E how \in Ended : ProcessEnds(t, how)
  BY <1>8, TurnQuiet DEF Close, BrowserEnds, ProcessEnds
<1> QED BY <1>3, <1>4, <1>5, <1>6, <1>7, <1>8 DEF Task

LEMMA UserTurn ==
  ASSUME TypeOK, InTurn, NEW e \in Engines, User(e)
  PROVE  InTurn'
<1>1. ASSUME NEW t \in Tasks, NEW k, Create(e, t, k), NEW s \in {"running", "failed-resumable"},
             AppendNew(e, t, s)
      PROVE  InTurn'
  BY <1>1, AppendNewFacts, TurnOn DEF Create
<1>2. ASSUME NEW t \in Tasks, StartShell(e, t) PROVE InTurn'
  BY <1>1, <1>2 DEF StartShell
<1>3. ASSUME NEW t \in Tasks, LaunchBrowser(e, t) PROVE InTurn'
  BY <1>1, <1>3 DEF LaunchBrowser
<1>4. CASE Clear(e)
  <2>1. Compacted(recorded, MaxTasks) \in Ledgers
    BY CompactedFacts DEF TypeOK
  <2>2. OthersStay(e) /\ On(e) /\ found' = found
    BY <1>4, <2>1 DEF Clear, OthersStay, TypeOK
  <2>3. /\ engine'[e] = "rewriting" /\ draft'[e] = Compacted(recorded, MaxTasks)
        /\ recorded' = recorded
    BY <1>4 DEF Clear, TypeOK
  <2>4. Drafted(e)
    BY <2>3, CompactedFacts DEF Drafted, TypeOK
  <2> QED BY <2>2, <2>4, TurnOn
<1>5. CASE AskClose(e)
  BY <1>5, TurnQuiet DEF AskClose
<1> QED BY <1>2, <1>3, <1>4, <1>5 DEF User, Retry

LEMMA EngineTurn ==
  ASSUME TypeOK, InTurn, NEW e \in Engines, Engine(e)
  PROVE  InTurn'
<1> SUFFICES ASSUME ~Overlap PROVE InTurn'
  BY DEF InTurn
<1>1. ASSUME NEW t \in Tasks, CloseBrowser(e, t) PROVE InTurn'
  <2>1. CASE session[e] = NoTask
    BY <1>1, <2>1, TurnQuiet DEF CloseBrowser
  <2>2. CASE session[e] # NoTask
    <3>1. PICK s \in {"cancelled", "completed"} : Move(session[e], s)
      BY <1>1, <2>2 DEF CloseBrowser
    <3>2. session[e] \in Tasks /\ On(owner[session[e]]) /\ s \in States /\ found' = found
      BY <1>1, <2>2 DEF TypeOK, States, Terminal, CloseBrowser
    <3> QED BY <3>1, <3>2, TurnMove
  <2> QED BY <2>1, <2>2
<1>2. CASE Boot(e)
  <2>1. /\ \A f \in Engines : ~Alive(f)
        /\ found' = [found EXCEPT ![e] = Interrupted]
        /\ engine' = [engine EXCEPT ![e] = IF Interrupted = {} THEN "on" ELSE "booting"]
        /\ recorded' = recorded
    BY <1>2 DEF Boot
  <2>2. /\ found'[e] = Interrupted /\ engine'[e] # "rewriting"
        /\ \A f \in Engines \ {e} : ~Alive(f)'
    BY <2>1 DEF TypeOK, Alive
  <2>3. \A t \in Interrupted : recorded'[t] \notin Settled
    BY <2>1 DEF Interrupted, Settled, Terminal
  <2> QED BY <2>2, <2>3 DEF InTurn
<1>3. CASE Rewrite(e)
  <2>1. /\ recorded' = draft[e] \/ recorded' = recorded
        /\ engine' = [engine EXCEPT ![e] = IF found[e] = {} THEN "on" ELSE "booting"]
        /\ found' = found /\ engine[e] = "rewriting"
    BY <1>3 DEF Rewrite
  <2>2. engine'[e] # "rewriting" /\ \A f \in Engines \ {e} : ~Alive(f)'
    BY <2>1 DEF TypeOK, InTurn, Alive
  <2>3. \A t \in found[e] : recorded'[t] \notin Settled
    <3>1. \A t \in found[e] : t \in Tasks /\ recorded[t] \notin Settled
      BY <2>1 DEF TypeOK, InTurn, Alive
    <3>2. \A t \in Tasks : draft[e][t] \in {recorded[t], Absent}
      BY <2>1 DEF InTurn, Alive
    <3> QED BY <2>1, <3>1, <3>2 DEF Settled, Absent
  <2> QED BY <2>1, <2>2, <2>3 DEF InTurn
<1>4. ASSUME NEW t \in Tasks, Recover(e, t) PROVE InTurn'
  <2>1. engine[e] = "booting" /\ found' = [found EXCEPT ![e] = @ \ {t}]
    BY <1>4 DEF Recover
  <2>2. PICK s \in {"on", "booting"} : Append(e, Noted(t, "failed-resumable"), s)
    BY <1>4 DEF Recover
  <2>3. /\ Noted(t, "failed-resumable") \in Ledgers
        /\ \A u \in Tasks :
             Noted(t, "failed-resumable")[u] \in {recorded[u], "failed-resumable"}
    BY DEF Noted, TypeOK, Ledgers, States, Terminal
  <2>4. /\ recorded' \in {Noted(t, "failed-resumable"), recorded}
        /\ \A f \in Engines \ {e} : engine'[f] = engine[f]
        /\ engine'[e] = s \/ Drafted(e)
    BY <2>2, <2>3, AppendFacts
  <2>5. \A f \in Engines \ {e} : ~Alive(f)'
    BY <2>1, <2>4 DEF InTurn, Alive
  <2>6. \A u \in found'[e] : recorded'[u] \notin Settled
    <3>1. \A u \in found'[e] : u \in Tasks /\ recorded[u] \notin Settled
      BY <2>1 DEF TypeOK, InTurn, Alive
    <3> QED BY <2>3, <2>4, <3>1 DEF Settled
  <2>7. engine'[e] = "rewriting" =>
          \A u \in Tasks : \/ draft'[e][u] = recorded'[u]
                           \/ recorded'[u] \in Terminal /\ draft'[e][u] = Absent
    BY <2>4 DEF Drafted
  <2> QED BY <2>5, <2>6, <2>7 DEF InTurn
<1>5. CASE EngineEnds(e)
  <2>1. \A f \in Engines : ~Alive(f)'
    BY <1>5 DEF EngineEnds, InTurn, Alive, TypeOK
  <2> QED BY <2>1 DEF InTurn
<1> QED BY <1>1, <1>2, <1>3, <1>4, <1>5 DEF Engine

LEMMA TurnStep == TypeOK /\ InTurn /\ [Next]_vars => InTurn'
<1> SUFFICES ASSUME TypeOK, InTurn, [Next]_vars PROVE InTurn'
  OBVIOUS
<1>1. CASE Next
  BY <1>1, EngineTurn, UserTurn, TaskTurn DEF Next
<1>2. CASE UNCHANGED vars
  BY <1>2, TurnQuiet DEF vars, ledger
<1> QED BY <1>1, <1>2

-----------------------------------------------------------------------------
(* The invariants. *)

LEMMA InvariantInit == Init => IInv
<1>1. Init => InTurn /\ ClosesTheOpen
  BY DEF Init, InTurn, ClosesTheOpen, Alive
<1> QED BY <1>1, SoundInit, SoundIsInv

LEMMA InvariantStep == TypeOK /\ IInv /\ [Next]_vars => IInv'
<1>1. IInv' <=> AllSound' /\ InTurn' /\ ClosesTheOpen'
  BY SoundIsInv, PTL
<1> QED BY <1>1, SoundIsInv, SoundStep, ClosesStep, TurnStep

LEMMA Invariance == Spec => []IInv
BY TasksTypeCorrect, InvariantInit, InvariantStep, PTL DEF Spec

\* "HONEST pause" for any number of engines and tasks: the panel never shows a task as
\* paused whose process runs, nor as running whose process is stopped, as far as it is the
\* engine that stops and continues it.
THEOREM PauseIsHonest == Spec => []HonestPause
<1>1. IInv => HonestPause
  BY DEF IInv
<1> QED BY <1>1, Invariance, PTL

\* No task is ever shown as being cancelled before its process was signalled.
THEOREM CancellingSignalled == Spec => []CancellingIsSignalled
<1>1. IInv => CancellingIsSignalled
  BY DEF IInv
<1> QED BY <1>1, Invariance, PTL

\* A completion or cancellation the ledger has is true of a shell process, and of a browser
\* but for the end close() is bringing it to, whatever engines overlap, crash, recover and
\* compact, and whatever the disk refuses, as long as close() does not wait for longer than
\* another close() and a launch take.
THEOREM OutcomeRecordedIsTrue ==
  ASSUME ~CloseMayLag
  PROVE  Spec => []RecordedOutcomeIsTrue
<1>1. IInv => RecordedOutcomeIsTrue
  BY DEF IInv, Truthful, Over, RecordedOutcomeIsTrue
<1> QED BY <1>1, Invariance, PTL

-----------------------------------------------------------------------------
(* Outcomes are final, but for what an older reading of the ledger does to them. *)

Overturned(t) == recorded[t] \in Settled /\ recorded'[t] \notin {recorded[t], Absent}

ByOldReading(t) ==
  \E e \in Engines :
    \/ engine[e] = "booting" /\ t \in found[e] /\ recorded'[t] = "failed-resumable"
    \/ engine[e] = "rewriting" /\ recorded'[t] = draft[e][t]

OldReading == \A t \in Tasks : Overturned(t) => ByOldReading(t)

\* Only a task without a recorded outcome is moved.
LEMMA MoveFinal ==
  ASSUME TypeOK, AllSound, NEW t \in Tasks, NEW s \in States, Move(t, s), On(owner[t])
  PROVE  OldReading
<1>1. CASE s \notin Legal(state[t])
  BY <1>1, MoveFacts DEF OldReading, Overturned
<1>2. CASE s \in Legal(state[t])
  <2>1. state[t] \notin Settled \union {Absent}
    BY <1>2 DEF Legal, Settled, Absent
  <2>2. recorded[t] \notin Settled
    BY <2>1 DEF AllSound, Sound, Claims
  <2> QED BY <2>2, MoveFacts DEF OldReading, Overturned
<1> QED BY <1>1, <1>2

LEMMA CreateFinal ==
  ASSUME TypeOK, AllSound, NEW e \in Engines, NEW t \in Tasks, NEW k, Create(e, t, k),
         NEW s \in {"running", "failed-resumable"}, AppendNew(e, t, s)
  PROVE  OldReading
<1>1. recorded[t] \notin Settled
  BY DEF Create, Fresh, AllSound, Sound, Traceless, Settled, Absent
<1> QED BY <1>1, AppendNewFacts DEF OldReading, Overturned

LEMMA FinalStep == TypeOK /\ AllSound /\ [Next]_vars => OldReading
<1> SUFFICES ASSUME TypeOK, AllSound, [Next]_vars PROVE OldReading
  OBVIOUS
<1>0. Terminal \union {"paused", "running", "cancelling"} \subseteq States
  BY DEF States
<1>1. CASE UNCHANGED recorded
  BY <1>1 DEF OldReading, Overturned
<1>2. ASSUME NEW t \in Tasks, Task(t) PROVE OldReading
  <2>1. ASSUME Cancel(t) PROVE OldReading
    BY <1>0, <2>1, MoveFinal DEF Cancel
  <2>2. CASE UserCancel(t)
    BY <2>1, <2>2 DEF UserCancel
  <2>3. CASE Timeout(t)
    BY <1>1, <2>1, <2>3 DEF Timeout, ledger
  <2>4. CASE Exit(t)
    <3>1. CASE Listed(t)
      <4>1. PICK s \in Terminal : Move(t, s)
        BY <2>4, <3>1 DEF Exit, ExitState, Terminal
      <4> QED BY <1>0, <2>4, <4>1, MoveFinal DEF Exit
    <3>2. CASE ~Listed(t)
      BY <1>1, <2>4, <3>2 DEF Exit, ledger
    <3> QED BY <3>1, <3>2
  <2>5. CASE Pause(t)
    BY <1>0, <2>5, MoveFinal DEF Pause
  <2>6. CASE Resume(t)
    BY <1>0, <2>6, MoveFinal DEF Resume
  <2>7. CASE Close(t) \/ BrowserEnds(t) \/ \E how \in Ended : ProcessEnds(t, how)
    BY <1>1, <2>7 DEF Close, BrowserEnds, ProcessEnds, ledger
  <2> QED BY <1>2, <2>2, <2>3, <2>4, <2>5, <2>6, <2>7 DEF Task
<1>3. ASSUME NEW e \in Engines, NEW t \in Tasks, StartShell(e, t) PROVE OldReading
  BY <1>3, CreateFinal DEF StartShell
<1>4. ASSUME NEW e \in Engines, User(e) PROVE OldReading
  <2>1. ASSUME NEW t \in Tasks, LaunchBrowser(e, t) PROVE OldReading
    BY <2>1, CreateFinal DEF LaunchBrowser
  <2>2. CASE Clear(e) \/ AskClose(e)
    BY <1>1, <2>2 DEF Clear, AskClose, ledger
  <2> QED BY <1>3, <1>4, <2>1, <2>2 DEF User, Retry
<1>5. ASSUME NEW e \in Engines, Engine(e) PROVE OldReading
  <2>1. CASE Boot(e) \/ EngineEnds(e)
    BY <1>1, <2>1 DEF Boot, EngineEnds
  <2>2. CASE Rewrite(e)
    BY <1>1, <2>2 DEF Rewrite, OldReading, ByOldReading
  <2>3. ASSUME NEW t \in Tasks, Recover(e, t) PROVE OldReading
    <3>1. engine[e] = "booting" /\ t \in found[e]
      BY <2>3 DEF Recover
    <3>2. PICK s \in {"on", "booting"} : Append(e, Noted(t, "failed-resumable"), s)
      BY <2>3 DEF Recover
    <3>3. /\ Noted(t, "failed-resumable")[t] \in {recorded[t], "failed-resumable"}
          /\ \A u \in Tasks \ {t} : Noted(t, "failed-resumable")[u] = recorded[u]
      BY DEF Noted, TypeOK, Ledgers
    <3>4. recorded' \in {Noted(t, "failed-resumable"), recorded}
      BY <3>2 DEF Append
    <3> QED BY <3>1, <3>3, <3>4 DEF OldReading, Overturned, ByOldReading
  <2>4. ASSUME NEW t \in Tasks, CloseBrowser(e, t) PROVE OldReading
    <3>1. CASE session[e] = NoTask
      BY <1>1, <2>4, <3>1 DEF CloseBrowser, ledger
    <3>2. CASE session[e] # NoTask
      <4>1. PICK s \in {"cancelled", "completed"} : Move(session[e], s)
        BY <2>4, <3>2 DEF CloseBrowser
      <4>2. session[e] \in Tasks /\ On(owner[session[e]]) /\ s \in States
        BY <2>4, <3>2 DEF TypeOK, States, Terminal, CloseBrowser
      <4> QED BY <4>1, <4>2, MoveFinal
    <3> QED BY <3>1, <3>2
  <2> QED BY <1>5, <2>1, <2>2, <2>3, <2>4 DEF Engine
<1> QED BY <1>1, <1>2, <1>4, <1>5 DEF Next, vars

\* For engines that overlap in any number: completed and cancelled stay what they are but
\* for what a recovery or a compaction that read the ledger before the record does.
THEOREM OverturnedOnlyByOldReading == Spec => OnlyOldReadingOverturns
<1>1. TypeOK /\ IInv /\ [Next]_vars
        => [\A t \in Tasks :
              recorded[t] \in Settled /\ recorded'[t] \notin {recorded[t], Absent} =>
                \E e \in Engines :
                  \/ engine[e] = "booting" /\ t \in found[e] /\ recorded'[t] = "failed-resumable"
                  \/ engine[e] = "rewriting" /\ recorded'[t] = draft[e][t]]_vars
  BY FinalStep, SoundIsInv DEF OldReading, Overturned, ByOldReading
<1> QED BY <1>1, TasksTypeCorrect, Invariance, PTL DEF Spec, OnlyOldReadingOverturns

\* Engines that follow one another read nothing that is old when they write, whatever crash
\* or refusal of the disk cuts them short: completed and cancelled stay until dropped.
THEOREM OutcomesAreFinal ==
  ASSUME ~Overlap
  PROVE  Spec => OutcomeIsFinal
<1>1. TypeOK /\ IInv /\ [Next]_vars => \A t \in Tasks : ~Overturned(t)
  <2> SUFFICES ASSUME TypeOK, IInv, [Next]_vars, NEW t \in Tasks, Overturned(t) PROVE FALSE
    OBVIOUS
  <2>1. OldReading /\ InTurn
    BY FinalStep, SoundIsInv
  <2>2. PICK e \in Engines :
          \/ engine[e] = "booting" /\ t \in found[e] /\ recorded'[t] = "failed-resumable"
          \/ engine[e] = "rewriting" /\ recorded'[t] = draft[e][t]
    BY <2>1 DEF OldReading, ByOldReading
  <2>3. Alive(e)
    BY <2>2 DEF Alive
  <2>4. /\ t \in found[e] => recorded[t] \notin Settled
        /\ engine[e] = "rewriting" => draft[e][t] \in {recorded[t], Absent}
    BY <2>1, <2>3 DEF InTurn
  <2> QED BY <2>2, <2>4 DEF Overturned
<1>2. TypeOK /\ IInv /\ [Next]_vars
        => [\A t \in Tasks : recorded[t] \in Settled => recorded'[t] \in {recorded[t], Absent}]_vars
  BY <1>1 DEF Overturned
<1> QED BY <1>2, TasksTypeCorrect, Invariance, PTL DEF Spec, OutcomeIsFinal

-----------------------------------------------------------------------------
(* The ledger follows the panel, when it can be written and engines take turns. *)

Reliable == ~Overlap /\ ~AppendMayFail

\* What LedgerFollows says of one task.
Follows(t) == Listed(t) => recorded[t] = state[t]
                             \/ (state[t] \in Terminal /\ recorded[t] = Absent)

LEMMA FollowsIsInv == LedgerFollows <=> \A t \in Tasks : Follows(t)
BY DEF LedgerFollows, Follows, Listed

LEMMA FollowsNext == (\A t \in Tasks : Follows(t)') => LedgerFollows'
BY DEF LedgerFollows, Follows, Listed

\* A record the step is not about stays or, of a task that ended, is dropped.
Kept(t) == recorded'[t] = recorded[t] \/ (recorded[t] \in Terminal /\ recorded'[t] = Absent)

LEMMA OthersFollow ==
  ASSUME NEW u \in Tasks, Follows(u), Kept(u), state'[u] \in {state[u], Absent}
  PROVE  Follows(u)'
BY DEF Follows, Kept, Listed

LEMMA AllOthersFollow ==
  ASSUME LedgerFollows, \A u \in Tasks : Kept(u) /\ state'[u] \in {state[u], Absent}
  PROVE  LedgerFollows'
BY FollowsIsInv, FollowsNext, OthersFollow

\* A move of a task that is listed, by a handler that asks for no restart.
LEMMA MoveFollows ==
  ASSUME TypeOK, LedgerFollows, Reliable, NEW t \in Tasks, NEW s \in States \ {"starting"},
         Move(t, s), On(owner[t])
  PROVE  LedgerFollows'
<1>1. CASE s \notin Legal(state[t])
  BY <1>1, MoveFacts, AllOthersFollow DEF Kept
<1>2. CASE s \in Legal(state[t])
  <2>1. /\ \A u \in Tasks \ {t} : state'[u] = state[u] /\ recorded'[u] = recorded[u]
        /\ state'[t] = s /\ recorded'[t] = Noted(t, s)[t]
    BY <1>2, MoveFacts DEF Reliable
  <2>2. state[t] \in States \ Terminal
    BY <1>2 DEF Legal, States, Terminal
  <2>3. recorded[t] = state[t] /\ recorded[t] # Absent
    BY <2>2, FollowsIsInv DEF Follows, Listed, States, Terminal, Absent
  <2>4. Noted(t, s)[t] = s
    BY <2>3 DEF Noted, TypeOK, Ledgers
  <2>5. Follows(t)'
    BY <2>1, <2>4 DEF Follows
  <2>6. ASSUME NEW u \in Tasks \ {t} PROVE Follows(u)'
    BY <2>1, FollowsIsInv, OthersFollow DEF Kept
  <2> QED BY <2>5, <2>6, FollowsNext
<1> QED BY <1>1, <1>2

LEMMA CreateFollows ==
  ASSUME TypeOK, LedgerFollows, Reliable, NEW e \in Engines, NEW t \in Tasks,
         NEW s \in {"running", "failed-resumable"}, AppendNew(e, t, s),
         state' = [state EXCEPT ![t] = s]
  PROVE  LedgerFollows'
<1>1. recorded'[t] = s /\ \A u \in Tasks \ {t} : recorded'[u] = recorded[u]
  BY AppendNewFacts DEF Reliable
<1>2. Follows(t)'
  BY <1>1 DEF Follows, TypeOK, Ledgers
<1>3. ASSUME NEW u \in Tasks \ {t} PROVE Follows(u)'
  BY <1>1, FollowsIsInv, OthersFollow DEF Kept, TypeOK, Ledgers
<1> QED BY <1>2, <1>3, FollowsNext

LEMMA TaskFollows ==
  ASSUME TypeOK, LedgerFollows, Reliable, NEW t \in Tasks, Task(t)
  PROVE  LedgerFollows'
<1>1. Terminal \union {"paused", "running", "cancelling"} \subseteq States \ {"starting"}
  BY DEF States, Terminal
<1>2. ASSUME Cancel(t) PROVE LedgerFollows'
  BY <1>1, <1>2, MoveFollows DEF Cancel
<1>3. CASE UNCHANGED <<state, recorded>>
  BY <1>3, AllOthersFollow DEF Kept
<1>4. CASE UserCancel(t) \/ Timeout(t)
  BY <1>2, <1>3, <1>4 DEF UserCancel, Timeout, ledger
<1>5. CASE Pause(t)
  BY <1>1, <1>5, MoveFollows DEF Pause
<1>6. CASE Resume(t)
  BY <1>1, <1>6, MoveFollows DEF Resume
<1>7. CASE Exit(t)
  <2>1. CASE Listed(t)
    <3>1. PICK s \in Terminal : Move(t, s)
      BY <1>7, <2>1 DEF Exit, ExitState, Terminal
    <3> QED BY <1>1, <1>7, <3>1, MoveFollows DEF Exit
  <2>2. CASE ~Listed(t)
    BY <1>3, <1>7, <2>2 DEF Exit, ledger
  <2> QED BY <2>1, <2>2
<1>8. CASE Close(t)
  BY <1>8, AllOthersFollow DEF Close, Kept, TypeOK, Ledgers, ledger
<1>9. CASE BrowserEnds(t) \/ \E how \in Ended : ProcessEnds(t, how)
  BY <1>3, <1>9 DEF BrowserEnds, ProcessEnds, ledger
<1> QED BY <1>4, <1>5, <1>6, <1>7, <1>8, <1>9 DEF Task

LEMMA EngineFollows ==
  ASSUME TypeOK, InTurn, LedgerFollows, Reliable, NEW e \in Engines, Engine(e)
  PROVE  LedgerFollows'
<1>1. CASE Boot(e)
  BY <1>1, AllOthersFollow DEF Boot, Kept
<1>2. CASE Rewrite(e)
  <2>1. engine[e] = "rewriting" /\ recorded' = draft[e] /\ state' = state
    BY <1>2 DEF Rewrite, Reliable
  <2>2. \A u \in Tasks : Kept(u)
    BY <2>1 DEF InTurn, Alive, Reliable, Kept
  <2> QED BY <2>1, <2>2, AllOthersFollow
<1>3. ASSUME NEW t \in Tasks, Recover(e, t) PROVE LedgerFollows'
  <2>1. t \in found[e] /\ engine[e] = "booting" /\ state' = state
    BY <1>3 DEF Recover
  <2>2. ~Listed(t)
    <3>1. \A f \in Engines : Alive(f) => f = e
      BY <2>1 DEF InTurn, Alive, Reliable
    <3>2. Listed(t) => owner[t] = e
      BY <3>1 DEF TypeOK, Alive
    <3> QED BY <2>1, <3>2, TasksAssumption DEF TypeOK
  <2>3. recorded' = Noted(t, "failed-resumable")
    BY <1>3 DEF Recover, Append, Reliable
  <2>4. \A u \in Tasks \ {t} : recorded'[u] = recorded[u]
    BY <2>3 DEF Noted, TypeOK, Ledgers
  <2>5. Follows(t)'
    BY <2>1, <2>2 DEF Follows, Listed
  <2>6. ASSUME NEW u \in Tasks \ {t} PROVE Follows(u)'
    BY <2>1, <2>4, FollowsIsInv, OthersFollow DEF Kept
  <2> QED BY <2>5, <2>6, FollowsNext
<1>4. ASSUME NEW t \in Tasks, CloseBrowser(e, t) PROVE LedgerFollows'
  <2>1. CASE session[e] = NoTask
    BY <1>4, <2>1, AllOthersFollow DEF CloseBrowser, ledger, Kept
  <2>2. CASE session[e] # NoTask
    <3>1. PICK s \in {"cancelled", "completed"} : Move(session[e], s)
      BY <1>4, <2>2 DEF CloseBrowser
    <3>2. session[e] \in Tasks /\ On(owner[session[e]]) /\ s \in States \ {"starting"}
      BY <1>4, <2>2 DEF TypeOK, States, Terminal, CloseBrowser
    <3> QED BY <3>1, <3>2, MoveFollows
  <2> QED BY <2>1, <2>2
<1>5. CASE EngineEnds(e)
  BY <1>5, AllOthersFollow DEF EngineEnds, Kept
<1> QED BY <1>1, <1>2, <1>3, <1>4, <1>5 DEF Engine

LEMMA FollowsStep ==
  TypeOK /\ InTurn /\ Reliable /\ LedgerFollows /\ [Next]_vars => LedgerFollows'
<1> SUFFICES ASSUME TypeOK, InTurn, Reliable, LedgerFollows, [Next]_vars
             PROVE  LedgerFollows'
  OBVIOUS
<1>1. ASSUME NEW e \in Engines, NEW t \in Tasks, StartShell(e, t) PROVE LedgerFollows'
  BY <1>1, CreateFollows DEF StartShell
<1>2. ASSUME NEW e \in Engines, User(e) PROVE LedgerFollows'
  <2>1. ASSUME NEW t \in Tasks, LaunchBrowser(e, t) PROVE LedgerFollows'
    BY <2>1, CreateFollows DEF LaunchBrowser
  <2>2. CASE Clear(e) \/ AskClose(e)
    BY <2>2, AllOthersFollow DEF Clear, AskClose, Kept, ledger
  <2> QED BY <1>1, <1>2, <2>1, <2>2 DEF User, Retry
<1>3. CASE UNCHANGED vars
  BY <1>3, AllOthersFollow DEF vars, Kept
<1> QED BY <1>2, <1>3, EngineFollows, TaskFollows DEF Next

\* A task that goes on is in the ledger as the panel shows it, whatever is compacted, for
\* any number of tasks and of engines that take turns on a disk that works.
THEOREM LedgerAlwaysFollows ==
  ASSUME ~Overlap, ~AppendMayFail
  PROVE  Spec => []LedgerFollows
<1>1. Reliable
  BY DEF Reliable
<1>2. Init => LedgerFollows
  BY DEF Init, LedgerFollows, Listed, Blank
<1>3. TypeOK /\ IInv /\ LedgerFollows /\ [Next]_vars => LedgerFollows'
  BY <1>1, FollowsStep, SoundIsInv
<1> QED BY <1>2, <1>3, TasksTypeCorrect, Invariance, PTL DEF Spec
=============================================================================

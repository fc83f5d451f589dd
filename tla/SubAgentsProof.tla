--------------------------- MODULE SubAgentsProof ---------------------------
(***************************************************************************)
(* Theorems about SubAgents, for any agents, either transport and any      *)
(* number of crashes.                                                       *)
(*                                                                          *)
(* The invariant says when an agent has nothing (Dormant), what a worker   *)
(* that ended may have in its mailbox (Mail), and that before the first    *)
(* crash there is nothing to recover (Recoverable).                         *)
(***************************************************************************)
EXTENDS SubAgents, SequenceTheorems, TLAPS

Events == {"success", "error", "uncaught", "exit0", "exit1"}

\* An agent without a promise has no entry, worker or mail: so do all that are
\* to be spawned or resumed, and all while the engine is down.
Dormant ==
  /\ \A a \in Agents : promise[a] = "none" =>
       board[a] = "none" /\ worker[a] = "none" /\ inbox[a] = <<>>
  /\ \A a \in fresh \cup cache \cup resuming : promise[a] = "none"
  /\ ~up => \A a \in Agents : promise[a] = "none"

\* Nothing is recovered that is still to be spawned, or twice.
Recoverable ==
  /\ fresh \cap (file \cup cache \cup resuming) = {}
  /\ resuming # {} => cache = {}
  /\ crashes = 0 => up /\ cache = {} /\ resuming = {}

\* What a thread leaves in its mailbox, and what is left of it.
Letters ==
  { <<>>, <<"success", "exit0">>, <<"error", "exit0">>, <<"exit0">>,
    <<"uncaught", "exit1">>, <<"exit1">> }

\* A worker that runs has posted nothing yet; a thread that exits cleanly has
\* told its result first.
Mail ==
  \A a \in Agents :
    /\ Running(a) => inbox[a] = <<>>
    /\ transport = "thread" =>
         /\ inbox[a] \in Letters
         /\ inbox[a] = <<"exit0">> => Settled(a)

IInv ==
  /\ TypeOK /\ Dormant /\ Recoverable /\ Mail
  /\ CheckpointCovers /\ EditsKept /\ BoardTellsOutcome

-----------------------------------------------------------------------------
(* Types. *)

\* What a settlement of the worktree leaves has its type.
LEMMA IsolationType ==
  ASSUME TypeOK, NEW a \in Agents, SettleIsolation(a)
  PROVE  /\ tree' \in [Agents -> {"none", "open", "kept", "removed"}]
         /\ edits' \in [Agents -> {"none", "dirty", "committed"}]
BY DEF SettleIsolation, TypeOK

\* The configs are those of the agents under way, whatever a handler answers.
LEMMA ConfigType ==
  ASSUME TypeOK, NEW a \in Agents
  PROVE  /\ \A outcome \in {"resolved", "rejected"} : Forget(a) /\ Answer(a, outcome) =>
              /\ config' = {b \in Agents : promise'[b] = "pending"}
              /\ promise' \in [Agents -> {"none", "pending", "resolved", "rejected"}]
         /\ config' = config \cup {a} /\ Answer(a, "pending") =>
              /\ config' = {b \in Agents : promise'[b] = "pending"}
              /\ promise' \in [Agents -> {"none", "pending", "resolved", "rejected"}]
         /\ promise[a] # "pending" /\ UNCHANGED config /\ Answer(a, "rejected") =>
              /\ config' = {b \in Agents : promise'[b] = "pending"}
              /\ promise' \in [Agents -> {"none", "pending", "resolved", "rejected"}]
<1>1. ASSUME NEW outcome \in {"resolved", "rejected"}, Forget(a), Answer(a, outcome)
      PROVE  /\ config' = {b \in Agents : promise'[b] = "pending"}
             /\ promise' \in [Agents -> {"none", "pending", "resolved", "rejected"}]
  BY <1>1 DEF Forget, Answer, TypeOK
<1>2. ASSUME config' = config \cup {a}, Answer(a, "pending")
      PROVE  /\ config' = {b \in Agents : promise'[b] = "pending"}
             /\ promise' \in [Agents -> {"none", "pending", "resolved", "rejected"}]
  BY <1>2 DEF Answer, TypeOK
<1>3. ASSUME promise[a] # "pending", UNCHANGED config, Answer(a, "rejected")
      PROVE  /\ config' = {b \in Agents : promise'[b] = "pending"}
             /\ promise' \in [Agents -> {"none", "pending", "resolved", "rejected"}]
  BY <1>3 DEF Answer, TypeOK
<1> QED BY <1>1, <1>2, <1>3

\* Spawning and respawning keep the type.
LEMMA RegisterType ==
  ASSUME TypeOK, Dormant, NEW a \in Agents, Spawn(a) \/ Respawn(a)
  PROVE  TypeOK'
<1>0. promise[a] = "none" BY DEF Dormant, Spawn, Respawn
<1>1. \/ Refused(a) \/ HandleThrows(a) \/ Start(a) BY DEF Spawn, Respawn
<1>2. /\ config' = {b \in Agents : promise'[b] = "pending"}
      /\ promise' \in [Agents -> {"none", "pending", "resolved", "rejected"}]
  BY <1>0, <1>1, ConfigType DEF Refused, HandleThrows, Start, Register
<1>3. /\ board' \in [Agents -> {"none", "running", "done", "failed"}]
      /\ file' \subseteq Agents /\ slot' \subseteq Agents
  <2>1. CASE Refused(a) BY <2>1 DEF Refused, TypeOK
  <2>2. CASE HandleThrows(a)
    BY <1>2, <2>2 DEF HandleThrows, Mark, EmitBoard, TypeOK
  <2>3. CASE Start(a) BY <1>2, <2>3 DEF Start, Register, Mark, EmitBoard, TypeOK
  <2> QED BY <1>1, <2>1, <2>2, <2>3
<1>4. worker' \in [Agents -> {"none", "alive", "doomed", "dead"}]
  BY <1>1 DEF Refused, HandleThrows, Start, TypeOK
<1>5. inbox' \in [Agents -> Seq(Events)]
  <2>1. inbox \in [Agents -> Seq(Events)] BY DEF TypeOK, Events
  <2>2. <<>> \in Seq(Events) OBVIOUS
  <2>3. CASE Refused(a) \/ HandleThrows(a) BY <2>1, <2>3 DEF Refused, HandleThrows
  <2>4. CASE Start(a)
    <3>1. inbox' = [inbox EXCEPT ![a] = <<>>] BY <2>4 DEF Start
    <3> QED BY <2>1, <2>2, <3>1
  <2> QED BY <1>1, <2>3, <2>4
<1>6. /\ tree' \in [Agents -> {"none", "open", "kept", "removed"}]
      /\ edits' \in [Agents -> {"none", "dirty", "committed"}]
  BY IsolationType DEF Spawn, Respawn, CreateWorktree, TypeOK
<1>7. /\ fresh' \subseteq Agents /\ resuming' \subseteq Agents
      /\ UNCHANGED <<transport, up, crashes, orphan, overdue, cache>>
      /\ resuming' # {} => up'
  BY DEF Spawn, Respawn, TypeOK, engine
<1> QED BY <1>2, <1>3, <1>4, <1>5, <1>6, <1>7 DEF TypeOK, Events

\* What a worker does keeps the type.
LEMMA WorkerType ==
  ASSUME TypeOK, NEW a \in Agents, Report(a) \/ Die(a) \/ Killed(a)
  PROVE  TypeOK'
<1>1. inbox[a] \in Seq(Events) BY DEF TypeOK, Events
<1>2. ASSUME NEW events \in Seq(Events), Post(a, events)
      PROVE  inbox' \in [Agents -> Seq(Events)]
  <2>1. inbox[a] \o events \in Seq(Events) BY <1>1
  <2> QED BY <1>2, <2>1 DEF Post, TypeOK, Events
<1>3. /\ <<"success", "exit0">> \in Seq(Events) /\ <<"error", "exit0">> \in Seq(Events)
      /\ <<"error", "exit1">> \in Seq(Events) /\ <<"exit1", "error">> \in Seq(Events)
      /\ <<"exit0", "success">> \in Seq(Events) /\ <<"uncaught", "exit1">> \in Seq(Events)
      /\ <<"exit1">> \in Seq(Events) /\ <<"exit0">> \in Seq(Events)
  BY DEF Events
<1>4. \E events \in Seq(Events) : Post(a, events)
  BY <1>3 DEF Report, Die, Killed
<1>5. inbox' \in [Agents -> Seq(Events)] BY <1>2, <1>4
<1>6. /\ worker' \in [Agents -> {"none", "alive", "doomed", "dead"}]
      /\ slot' \subseteq Agents
      /\ UNCHANGED <<engine, orphan, record, checkout, recovery>>
  BY DEF Report, Die, Killed, TypeOK
<1> QED BY <1>5, <1>6 DEF TypeOK, Events, engine, record, checkout, recovery

\* The tail of a mailbox that is not empty is one.
LEMMA TailType ==
  ASSUME TypeOK, NEW a \in Agents, inbox[a] # <<>>, Handled(a)
  PROVE  inbox' \in [Agents -> Seq(Events)]
<1>1. inbox[a] \in Seq(Events) BY DEF TypeOK, Events
<1>2. Tail(inbox[a]) \in Seq(Events) BY <1>1
<1> QED BY <1>2 DEF Handled, TypeOK, Events

\* The handlers keep the type.
LEMMA HandlerType ==
  ASSUME TypeOK, NEW a \in Agents, Deliver(a) \/ Timeout(a) \/ Stop(a)
  PROVE  TypeOK'
<1>1. CASE Timeout(a)
  <2>1. /\ config' = {b \in Agents : promise'[b] = "pending"}
        /\ promise' \in [Agents -> {"none", "pending", "resolved", "rejected"}]
    BY <1>1, ConfigType DEF Timeout
  <2>2. /\ board' \in [Agents -> {"none", "running", "done", "failed"}]
        /\ file' \subseteq Agents /\ slot' \subseteq Agents /\ overdue' \subseteq Agents
    BY <1>1, <2>1 DEF Timeout, Mark, EmitBoard, TypeOK
  <2>3. worker' \in [Agents -> {"none", "alive", "doomed", "dead"}]
    BY <1>1 DEF Timeout, TypeOK
  <2> QED BY <1>1, <2>1, <2>2, <2>3, IsolationType DEF Timeout, TypeOK, engine
<1>2. CASE Stop(a)
  <2>1. worker' \in [Agents -> {"none", "alive", "doomed", "dead"}]
    BY <1>2 DEF Stop, TypeOK
  <2>2. board' \in [Agents -> {"none", "running", "done", "failed"}]
    BY <1>2 DEF Stop, Mark, TypeOK
  <2> QED BY <1>2, <2>1, <2>2 DEF Stop, TypeOK, engine, checkout, recovery
<1>3. CASE OnSuccess(a) \/ OnFailure(a)
  <2>1. PICK status \in {"done", "failed"}, outcome \in {"resolved", "rejected"} :
          Finish(a, status, outcome)
    BY <1>3 DEF OnSuccess, OnFailure
  <2>2. /\ config' = {b \in Agents : promise'[b] = "pending"}
        /\ promise' \in [Agents -> {"none", "pending", "resolved", "rejected"}]
    BY <2>1, ConfigType DEF Finish
  <2>3. /\ board' \in [Agents -> {"none", "running", "done", "failed"}]
        /\ file' \subseteq Agents /\ slot' \subseteq Agents
    BY <2>1, <2>2 DEF Finish, Mark, EmitBoard, TypeOK
  <2>4. inbox' \in [Agents -> Seq(Events)]
    BY <1>3, TailType DEF OnSuccess, OnFailure, Head1
  <2>5. HandlerFrame BY <1>3 DEF OnSuccess, OnFailure
  <2> QED BY <2>1, <2>2, <2>3, <2>4, <2>5, IsolationType
          DEF Finish, HandlerFrame, TypeOK, Events, engine
<1>4. CASE OnQuietExit(a)
  <2>1. /\ config' = {b \in Agents : promise'[b] = "pending"}
        /\ promise' \in [Agents -> {"none", "pending", "resolved", "rejected"}]
    BY <1>4, ConfigType DEF OnQuietExit
  <2>2. inbox' \in [Agents -> Seq(Events)] BY <1>4, TailType DEF OnQuietExit, Head1
  <2>3. slot' \subseteq Agents BY <1>4 DEF OnQuietExit, TypeOK
  <2> QED BY <1>4, <2>1, <2>2, <2>3, IsolationType
          DEF OnQuietExit, HandlerFrame, TypeOK, Events, engine
<1>5. CASE Ignore(a)
  <2>1. inbox' \in [Agents -> Seq(Events)] BY <1>5, TailType DEF Ignore
  <2> QED BY <1>5, <2>1 DEF Ignore, HandlerFrame, TypeOK, Events, engine, record
<1> QED BY <1>1, <1>2, <1>3, <1>4, <1>5 DEF Deliver

\* Every step keeps the type.
LEMMA NextType == TypeOK /\ Dormant /\ [Next]_vars => TypeOK'
<1> SUFFICES ASSUME TypeOK, Dormant, [Next]_vars PROVE TypeOK' OBVIOUS
<1>1. CASE UNCHANGED vars
  BY <1>1 DEF vars, engine, work, record, checkout, recovery, TypeOK
<1>2. ASSUME NEW a \in Agents, Edit(a) \/ OrphanEnds(a) \/ SlotExpires(a) PROVE TypeOK'
  <2>1. CASE Edit(a)
    <3>1. edits' \in [Agents -> {"none", "dirty", "committed"}] BY <2>1 DEF Edit, TypeOK
    <3> QED BY <2>1, <3>1 DEF Edit, engine, work, record, recovery, TypeOK
  <2>2. CASE OrphanEnds(a)
    <3>1. orphan' \in [Agents -> {"none", "alive", "ended"}] BY <2>2 DEF OrphanEnds, TypeOK
    <3> QED BY <2>2, <3>1 DEF OrphanEnds, engine, record, checkout, recovery, TypeOK
  <2>3. CASE SlotExpires(a)
    BY <2>3 DEF SlotExpires, engine, work, record, checkout, recovery, TypeOK
  <2> QED BY <1>2, <2>1, <2>2, <2>3
<1>3. CASE Crash
  <2>1. \A v : Nothing(v) = [a \in Agents |-> v] BY DEF Nothing
  <2>2. inbox' \in [Agents -> Seq(Events)]
    <3>1. <<>> \in Seq(Events) OBVIOUS
    <3>2. inbox' = [a \in Agents |-> <<>>] BY <1>3 DEF Crash, Nothing
    <3> QED BY <3>1, <3>2
  <2>3. config' = {a \in Agents : promise'[a] = "pending"} BY <1>3, <2>1 DEF Crash
  <2>4. orphan' \in [Agents -> {"none", "alive", "ended"}] BY <1>3 DEF Crash, TypeOK
  <2>5. /\ worker' \in [Agents -> {"none", "alive", "doomed", "dead"}]
        /\ board' \in [Agents -> {"none", "running", "done", "failed"}]
        /\ promise' \in [Agents -> {"none", "pending", "resolved", "rejected"}]
    BY <1>3, <2>1 DEF Crash
  <2>6. crashes' \in 0..MaxCrashes
    <3>1. crashes \in 0..MaxCrashes /\ crashes < MaxCrashes /\ crashes' = crashes + 1
      BY <1>3 DEF Crash, TypeOK
    <3> QED BY <3>1, SubAgentsAssumption
  <2>7. up' = FALSE /\ cache' = {} /\ resuming' = {}
        /\ UNCHANGED <<transport, fresh, slot, tree, edits, overdue, file>>
    BY <1>3 DEF Crash, checkout
  <2> QED BY <2>2, <2>3, <2>4, <2>5, <2>6, <2>7 DEF TypeOK, Events
<1>4. CASE Boot
  <2>1. /\ up' = TRUE /\ cache' = file
        /\ UNCHANGED <<transport, crashes, fresh, work, record, slot, checkout, file, resuming>>
    BY <1>4 DEF Boot
  <2> QED BY <2>1 DEF work, record, checkout, TypeOK
<1>5. CASE Consume
  <2>1. /\ up /\ resuming' = cache /\ cache' = {} /\ file' = {}
        /\ UNCHANGED <<engine, work, record, slot, checkout>>
    BY <1>5 DEF Consume, Turn
  <2> QED BY <2>1 DEF engine, work, record, checkout, TypeOK
<1> QED BY <1>1, <1>2, <1>3, <1>4, <1>5, RegisterType, WorkerType, HandlerType DEF Next

-----------------------------------------------------------------------------
(* What an action does to its agent. *)

\* A spawn is refused, fails, or starts a worker.
LEMMA RegisterEffect ==
  ASSUME TypeOK, Dormant, Recoverable, NEW a \in Agents, Spawn(a) \/ Respawn(a)
  PROVE  /\ promise[a] = "none" /\ board[a] = "none" /\ worker[a] = "none"
         /\ inbox[a] = <<>> /\ inbox'[a] = <<>>
         /\ \/ /\ promise'[a] = "rejected" /\ board'[a] \in {"none", "failed"}
               /\ worker'[a] = "none"
            \/ /\ promise'[a] = "pending" /\ board'[a] = "running"
               /\ worker'[a] = "alive" /\ EmitBoard
         /\ \A b \in Agents \ {a} :
              board'[b] = board[b] /\ promise'[b] = promise[b] /\ worker'[b] = worker[b]
              /\ inbox'[b] = inbox[b]
         /\ EmitBoard \/ UNCHANGED file
<1>1. /\ promise[a] = "none" /\ board[a] = "none" /\ worker[a] = "none" /\ inbox[a] = <<>>
  BY DEF Dormant, Spawn, Respawn
<1>2. Refused(a) \/ HandleThrows(a) \/ Start(a) BY DEF Spawn, Respawn
<1>3. CASE Refused(a) BY <1>1, <1>3 DEF Refused, Answer, TypeOK
<1>4. CASE HandleThrows(a) BY <1>1, <1>4 DEF HandleThrows, Mark, Answer, TypeOK
<1>5. CASE Start(a)
  BY <1>1, <1>5 DEF Start, Register, Mark, Answer, TypeOK
<1> QED BY <1>1, <1>2, <1>3, <1>4, <1>5

\* What a worker does before it ends is in its mailbox.
LEMMA WorkerEffect ==
  ASSUME TypeOK, Mail, NEW a \in Agents, Report(a) \/ Die(a) \/ Killed(a)
  PROVE  /\ Running(a) /\ worker'[a] = "dead"
         /\ \A b \in Agents \ {a} : worker'[b] = worker[b] /\ inbox'[b] = inbox[b]
         /\ inbox'[a] \in Seq(Events)
         /\ transport = "thread" => inbox'[a] \in Letters \ {<<>>, <<"exit0">>}
         /\ UNCHANGED <<engine, orphan, record, checkout, recovery>>
<1>1. Running(a) BY DEF Report, Die, Killed, Running
<1>2. inbox[a] = <<>> BY <1>1 DEF Mail
<1>3. ASSUME NEW events \in Seq(Events), Post(a, events)
      PROVE  inbox'[a] = events /\ \A b \in Agents \ {a} : inbox'[b] = inbox[b]
  <2>1. <<>> \o events = events OBVIOUS
  <2> QED BY <1>2, <1>3, <2>1 DEF Post, TypeOK
<1>4. worker'[a] = "dead" /\ \A b \in Agents \ {a} : worker'[b] = worker[b]
  BY DEF Report, Die, Killed, TypeOK
<1>5. /\ <<"success", "exit0">> \in Seq(Events) /\ <<"error", "exit0">> \in Seq(Events)
      /\ <<"error", "exit1">> \in Seq(Events) /\ <<"exit1", "error">> \in Seq(Events)
      /\ <<"exit0", "success">> \in Seq(Events) /\ <<"uncaught", "exit1">> \in Seq(Events)
      /\ <<"exit1">> \in Seq(Events) /\ <<"exit0">> \in Seq(Events)
  BY DEF Events
<1>6. \E events \in Seq(Events) :
        /\ Post(a, events)
        /\ transport = "thread" =>
             events \in { <<"success", "exit0">>, <<"error", "exit0">>,
                          <<"uncaught", "exit1">>, <<"exit1">> }
  <2>1. transport \in {"thread", "process"} BY SubAgentsAssumption DEF TypeOK
  <2> QED BY <1>5, <2>1 DEF Report, Die, Killed
<1>7. /\ inbox'[a] \in Seq(Events) /\ \A b \in Agents \ {a} : inbox'[b] = inbox[b]
      /\ transport = "thread" =>
           inbox'[a] \in { <<"success", "exit0">>, <<"error", "exit0">>,
                           <<"uncaught", "exit1">>, <<"exit1">> }
  BY <1>3, <1>6
<1>8. { <<"success", "exit0">>, <<"error", "exit0">>, <<"uncaught", "exit1">>, <<"exit1">> }
        \subseteq Letters \ {<<>>, <<"exit0">>}
  BY DEF Letters
<1>9. UNCHANGED <<engine, orphan, record, checkout, recovery>>
  BY DEF Report, Die, Killed
<1> QED BY <1>1, <1>4, <1>7, <1>8, <1>9

\* What is left of a thread's mailbox after its first letter.
LEMMA Letterbox ==
  ASSUME NEW box \in Letters \ {<<>>}
  PROVE  /\ Tail(box) \in Letters
         /\ Head(box) = "exit0" => box = <<"exit0">>
<1>1. CASE box = <<"success", "exit0">>
  <2>1. Head(box) = "success" /\ Tail(box) = <<"exit0">> BY <1>1
  <2> QED BY <2>1 DEF Letters
<1>2. CASE box = <<"error", "exit0">>
  <2>1. Head(box) = "error" /\ Tail(box) = <<"exit0">> BY <1>2
  <2> QED BY <2>1 DEF Letters
<1>3. CASE box = <<"uncaught", "exit1">>
  <2>1. Head(box) = "uncaught" /\ Tail(box) = <<"exit1">> BY <1>3
  <2> QED BY <2>1 DEF Letters
<1>4. CASE box = <<"exit0">> \/ box = <<"exit1">>
  <2>1. Tail(box) = <<>>
    <3>1. /\ <<"exit0">> \in Seq(Events) /\ Len(<<"exit0">>) = 1
          /\ <<"exit1">> \in Seq(Events) /\ Len(<<"exit1">>) = 1
      BY DEF Events
    <3>2. box \in Seq(Events) /\ Len(box) = 1 BY <1>4, <3>1
    <3>3. box # <<>> BY <3>2, EmptySeq
    <3>4. Tail(box) \in Seq(Events) /\ Len(Tail(box)) = 0
      BY <3>2, <3>3, HeadTailProperties
    <3> QED BY <3>4, EmptySeq
  <2>2. box = <<"exit1">> => Head(box) = "exit1" OBVIOUS
  <2> QED BY <1>4, <2>1, <2>2 DEF Letters
<1> QED BY <1>1, <1>2, <1>3, <1>4 DEF Letters

\* A handler that settles an agent.
LEMMA SettleEffect ==
  ASSUME TypeOK, Dormant, Mail, NEW a \in Agents,
         OnSuccess(a) \/ OnFailure(a) \/ OnQuietExit(a)
  PROVE  /\ promise[a] = "pending" /\ inbox[a] # <<>> /\ ~Running(a)
         /\ Settled(a)' /\ Handled(a) /\ HandlerFrame /\ SettleIsolation(a)
         /\ \/ promise'[a] = "resolved" /\ board'[a] = "done" /\ EmitBoard
            \/ promise'[a] = "rejected" /\ board'[a] = "failed" /\ EmitBoard
            \/ /\ Head(inbox[a]) = "exit0" /\ promise'[a] = "resolved"
               /\ UNCHANGED <<board, file>>
         /\ \A b \in Agents \ {a} : board'[b] = board[b] /\ promise'[b] = promise[b]
<1>1. inbox[a] # <<>> /\ Open(a) /\ Handled(a) /\ HandlerFrame
  BY DEF OnSuccess, OnFailure, OnQuietExit, Head1
<1>2. ~Running(a) BY <1>1 DEF Mail
<1>3. promise[a] = "pending" BY <1>1 DEF Dormant, Open, Settled, TypeOK
<1>4. ASSUME NEW status \in {"done", "failed"}, NEW outcome \in {"resolved", "rejected"},
             Finish(a, status, outcome)
      PROVE  /\ promise'[a] = outcome /\ board'[a] = status /\ EmitBoard
             /\ SettleIsolation(a)
             /\ \A b \in Agents \ {a} : board'[b] = board[b] /\ promise'[b] = promise[b]
  BY <1>4 DEF Finish, Mark, Answer, TypeOK
<1>5. CASE OnSuccess(a) BY <1>1, <1>2, <1>3, <1>4, <1>5 DEF OnSuccess, Settled
<1>6. CASE OnFailure(a) BY <1>1, <1>2, <1>3, <1>4, <1>6 DEF OnFailure, Settled
<1>7. CASE OnQuietExit(a)
  <2>1. /\ promise'[a] = "resolved" /\ UNCHANGED <<board, file>> /\ SettleIsolation(a)
        /\ Head(inbox[a]) = "exit0"
        /\ \A b \in Agents \ {a} : promise'[b] = promise[b]
    BY <1>7 DEF OnQuietExit, Answer, Head1, TypeOK
  <2> QED BY <1>1, <1>2, <1>3, <2>1 DEF Settled
<1> QED BY <1>5, <1>6, <1>7

\* A step after which nothing of an agent is new.
Unrelated ==
  UNCHANGED <<transport, up, crashes, fresh, worker, inbox, board, promise, config, file,
              cache, resuming>>

\* Edits, the end of an orphan and of a lease are.
LEMMA UnrelatedSteps ==
  ASSUME NEW a \in Agents, Edit(a) \/ OrphanEnds(a) \/ SlotExpires(a)
  PROVE  Unrelated
BY DEF Edit, OrphanEnds, SlotExpires, Unrelated, engine, work, record, recovery

-----------------------------------------------------------------------------
(* The invariant, part by part. *)

\* Every step keeps the dormant dormant.
LEMMA NextDormant ==
  ASSUME TypeOK, Dormant, Recoverable, Mail, [Next]_vars
  PROVE  Dormant'
<1>1. CASE Unrelated BY <1>1 DEF Unrelated, Dormant
<1>2. CASE UNCHANGED vars
  BY <1>1, <1>2 DEF vars, engine, work, record, recovery, Unrelated
<1>3. ASSUME NEW a \in Agents, Spawn(a) \/ Respawn(a) PROVE Dormant'
  <2>1. a \notin fresh' \cup cache' \cup resuming'
    BY <1>3 DEF Spawn, Respawn, Recoverable, engine
  <2>2. /\ fresh' \cup cache' \cup resuming' \subseteq fresh \cup cache \cup resuming
        /\ up'
    BY <1>3 DEF Spawn, Respawn, Turn, engine
  <2>3. /\ promise'[a] # "none"
        /\ \A b \in Agents \ {a} :
             board'[b] = board[b] /\ promise'[b] = promise[b] /\ worker'[b] = worker[b]
             /\ inbox'[b] = inbox[b]
    BY <1>3, RegisterEffect
  <2>4. fresh \cup cache \cup resuming \subseteq Agents BY DEF TypeOK
  <2> QED BY <2>1, <2>2, <2>3, <2>4 DEF Dormant
<1>4. ASSUME NEW a \in Agents, Report(a) \/ Die(a) \/ Killed(a) PROVE Dormant'
  <2>1. /\ Running(a) /\ UNCHANGED <<engine, orphan, record, checkout, recovery>>
        /\ \A b \in Agents \ {a} : worker'[b] = worker[b] /\ inbox'[b] = inbox[b]
    BY <1>4, WorkerEffect
  <2>2. promise[a] # "none" BY <2>1 DEF Dormant, Running
  <2> QED BY <2>1, <2>2 DEF Dormant, engine, record, recovery
<1>5. ASSUME NEW a \in Agents, OnSuccess(a) \/ OnFailure(a) \/ OnQuietExit(a)
      PROVE  Dormant'
  <2>1. /\ promise[a] = "pending" /\ Settled(a)' /\ Handled(a) /\ HandlerFrame
        /\ \A b \in Agents \ {a} : board'[b] = board[b] /\ promise'[b] = promise[b]
    BY <1>5, SettleEffect
  <2>2. \A b \in Agents \ {a} : inbox'[b] = inbox[b] BY <2>1 DEF Handled, TypeOK
  <2>3. promise'[a] # "none" BY <2>1 DEF Settled
  <2>4. fresh \cup cache \cup resuming \subseteq Agents BY DEF TypeOK
  <2> QED BY <2>1, <2>2, <2>3, <2>4 DEF Dormant, HandlerFrame, engine
<1>6. ASSUME NEW a \in Agents, Ignore(a) \/ Timeout(a) \/ Stop(a) PROVE Dormant'
  <2>1. /\ promise[a] # "none" /\ promise'[a] # "none"
        /\ \A b \in Agents \ {a} : board'[b] = board[b] /\ promise'[b] = promise[b]
                                   /\ worker'[b] = worker[b] /\ inbox'[b] = inbox[b]
    <3>1. CASE Ignore(a)
      BY <3>1 DEF Ignore, Open, Settled, Handled, HandlerFrame, record, TypeOK
    <3>2. CASE Timeout(a) BY <3>2 DEF Timeout, Mark, Answer, TypeOK
    <3>3. CASE Stop(a) BY <3>3 DEF Stop, Mark, Dormant, TypeOK
    <3> QED BY <1>6, <3>1, <3>2, <3>3
  <2>2. UNCHANGED <<up, fresh, cache, resuming>>
    BY <1>6 DEF Ignore, Timeout, Stop, HandlerFrame, engine, recovery
  <2>3. fresh \cup cache \cup resuming \subseteq Agents BY DEF TypeOK
  <2> QED BY <2>1, <2>2, <2>3 DEF Dormant
<1>7. CASE Crash
  <2>1. \A a \in Agents : promise'[a] = "none" /\ board'[a] = "none" /\ worker'[a] = "none"
                          /\ inbox'[a] = <<>>
    BY <1>7 DEF Crash, Nothing
  <2>2. fresh' \cup cache' \cup resuming' \subseteq Agents BY <1>7 DEF Crash, TypeOK
  <2> QED BY <2>1, <2>2 DEF Dormant
<1>8. CASE Boot
  <2>1. /\ ~up /\ cache' = file /\ file \subseteq Agents
        /\ UNCHANGED <<fresh, work, record, resuming>>
    BY <1>8 DEF Boot, TypeOK
  <2>2. \A a \in Agents : promise'[a] = "none" BY <2>1 DEF Dormant, record
  <2>3. fresh' \cup cache' \cup resuming' \subseteq Agents BY <2>1 DEF TypeOK
  <2> QED BY <2>1, <2>2, <2>3 DEF Dormant, work, record
<1>9. CASE Consume
  BY <1>9 DEF Consume, Dormant, Turn, engine, work, record
<1> QED BY <1>1, <1>2, <1>3, <1>4, <1>5, <1>6, <1>7, <1>8, <1>9, UnrelatedSteps
        DEF Next, Deliver

\* What is written to the checkpoint is under way, and so not fresh.
LEMMA WrittenIsUnderWay ==
  ASSUME TypeOK', Dormant', EmitBoard
  PROVE  fresh' \cap file' = {}
BY DEF TypeOK, Dormant, EmitBoard

\* Every step keeps what is to be recovered apart.
LEMMA NextRecoverable ==
  ASSUME TypeOK, Recoverable, TypeOK', Dormant', [Next]_vars
  PROVE  Recoverable'
<1>1. ASSUME UNCHANGED <<up, crashes, fresh, cache, resuming>>, EmitBoard \/ UNCHANGED file
      PROVE  Recoverable'
  BY <1>1, WrittenIsUnderWay DEF Recoverable
<1>2. CASE UNCHANGED vars BY <1>1, <1>2 DEF vars, engine, recovery
<1>3. CASE Unrelated BY <1>1, <1>3 DEF Unrelated
<1>4. ASSUME NEW a \in Agents, Spawn(a) \/ Respawn(a) PROVE Recoverable'
  <2>1. Refused(a) \/ HandleThrows(a) \/ Start(a) BY <1>4 DEF Spawn, Respawn
  <2>2. EmitBoard \/ UNCHANGED file
    BY <2>1 DEF Refused, HandleThrows, Start, Register
  <2>3. /\ fresh' \subseteq fresh /\ resuming' \subseteq resuming
        /\ UNCHANGED <<up, crashes, cache>>
    BY <1>4 DEF Spawn, Respawn, engine
  <2> QED BY <2>2, <2>3, WrittenIsUnderWay DEF Recoverable
<1>5. ASSUME NEW a \in Agents, Report(a) \/ Die(a) \/ Killed(a) PROVE Recoverable'
  BY <1>1, <1>5 DEF Report, Die, Killed, engine, recovery
<1>6. ASSUME NEW a \in Agents, Deliver(a) PROVE Recoverable'
  BY <1>1, <1>6 DEF Deliver, OnSuccess, OnFailure, OnQuietExit, Ignore, Finish,
                    HandlerFrame, engine
<1>7. ASSUME NEW a \in Agents, Timeout(a) \/ Stop(a) PROVE Recoverable'
  BY <1>1, <1>7 DEF Timeout, Stop, engine, recovery
<1>8. CASE Crash
  <2>1. crashes' # 0 BY <1>8 DEF Crash, TypeOK
  <2> QED BY <1>8, <2>1 DEF Crash, Recoverable
<1>9. CASE Boot
  <2>1. ~up /\ up' = TRUE /\ cache' = file /\ UNCHANGED <<crashes, fresh, file, resuming>>
    BY <1>9 DEF Boot
  <2>2. resuming = {} /\ crashes # 0 BY <2>1 DEF Recoverable, TypeOK
  <2> QED BY <2>1, <2>2 DEF Recoverable
<1>10. CASE Consume
  <2>1. /\ cache # {} /\ resuming' = cache /\ cache' = {} /\ file' = {}
        /\ UNCHANGED <<fresh, crashes>>
    BY <1>10 DEF Consume, engine
  <2> QED BY <2>1 DEF Recoverable
<1> QED BY <1>2, <1>3, <1>4, <1>5, <1>6, <1>7, <1>8, <1>9, <1>10, UnrelatedSteps DEF Next

\* Every step keeps what a mailbox may hold.
LEMMA NextMail ==
  ASSUME TypeOK, Dormant, Recoverable, Mail, [Next]_vars
  PROVE  Mail'
<1>1. CASE Unrelated BY <1>1 DEF Unrelated, Mail, Running, Settled
<1>2. CASE UNCHANGED vars BY <1>1, <1>2 DEF vars, engine, work, record, recovery, Unrelated
<1>3. <<>> \in Letters /\ <<>> # <<"exit0">>
  <2>1. <<"exit0">> \in Seq(Events) /\ Len(<<"exit0">>) = 1 BY DEF Events
  <2> QED BY <2>1, EmptySeq DEF Letters
<1>4. ASSUME NEW a \in Agents, Spawn(a) \/ Respawn(a) PROVE Mail'
  <2>1. transport' = transport BY <1>4 DEF Spawn, Respawn, engine
  <2> QED BY <1>3, <1>4, <2>1, RegisterEffect DEF Mail, Running, Settled
<1>5. ASSUME NEW a \in Agents, Report(a) \/ Die(a) \/ Killed(a) PROVE Mail'
  BY <1>5, WorkerEffect DEF Mail, Running, Settled, engine, record
<1>6. ASSUME NEW a \in Agents, Ignore(a) \/ OnSuccess(a) \/ OnFailure(a) \/ OnQuietExit(a)
      PROVE  Mail'
  <2>1. /\ Settled(a)' /\ Handled(a) /\ inbox[a] # <<>>
        /\ UNCHANGED <<transport, worker>>
        /\ \A b \in Agents \ {a} : promise'[b] = promise[b]
    <3>1. CASE Ignore(a)
      BY <3>1 DEF Ignore, HandlerFrame, Open, Settled, engine, record
    <3>2. CASE OnSuccess(a) \/ OnFailure(a) \/ OnQuietExit(a)
      BY <3>2, SettleEffect DEF HandlerFrame, engine
    <3> QED BY <1>6, <3>1, <3>2
  <2>2. /\ inbox'[a] = Tail(inbox[a]) /\ \A b \in Agents \ {a} : inbox'[b] = inbox[b]
    BY <2>1 DEF Handled, TypeOK
  <2>3. transport = "thread" => Tail(inbox[a]) \in Letters
    BY <2>1, Letterbox DEF Mail
  <2>4. ~Running(a) BY <2>1 DEF Mail
  <2> QED BY <2>1, <2>2, <2>3, <2>4 DEF Mail, Running, Settled
<1>7. ASSUME NEW a \in Agents, Timeout(a) \/ Stop(a) PROVE Mail'
  <2>1. UNCHANGED <<transport, inbox>> BY <1>7 DEF Timeout, Stop, engine
  <2>2. \A b \in Agents : Settled(b) => Settled(b)'
    BY <1>7 DEF Timeout, Stop, Answer, Settled, TypeOK
  <2>3. \A b \in Agents : Running(b)' => Running(b)
    BY <1>7 DEF Timeout, Stop, Running, TypeOK
  <2> QED BY <2>1, <2>2, <2>3 DEF Mail
<1>8. CASE Crash
  <2>1. \A a \in Agents : worker'[a] = "none" /\ inbox'[a] = <<>>
    BY <1>8 DEF Crash, Nothing
  <2> QED BY <1>3, <2>1 DEF Mail, Running
<1>9. CASE Boot \/ Consume
  BY <1>9 DEF Boot, Consume, Mail, Running, Settled, engine, work, record
<1> QED BY <1>1, <1>2, <1>4, <1>5, <1>6, <1>7, <1>8, <1>9, UnrelatedSteps DEF Next, Deliver

\* A checkpoint just written covers every agent that is not settled.
LEMMA WrittenCovers ==
  ASSUME TypeOK', Dormant', EmitBoard
  PROVE  CheckpointCovers'
BY DEF TypeOK, Dormant, EmitBoard, CheckpointCovers, Unsettled, Settled

\* So does one that stays while no agent is added.
LEMMA StillCovers ==
  ASSUME CheckpointCovers, UNCHANGED <<crashes, file>>,
         \A a \in Agents : board'[a] = "running" /\ ~Settled(a)' =>
           board[a] = "running" /\ ~Settled(a)
  PROVE  CheckpointCovers'
BY DEF CheckpointCovers, Unsettled

\* Every step keeps the checkpoint complete until the first crash.
LEMMA NextCovers ==
  ASSUME TypeOK, Dormant, Recoverable, Mail, CheckpointCovers, TypeOK', Dormant', [Next]_vars
  PROVE  CheckpointCovers'
<1>1. CASE Unrelated BY <1>1, StillCovers DEF Unrelated, Settled
<1>2. CASE UNCHANGED vars BY <1>1, <1>2 DEF vars, engine, work, record, recovery, Unrelated
<1>3. ASSUME NEW a \in Agents, Spawn(a) \/ Respawn(a) PROVE CheckpointCovers'
  <2>1. CASE EmitBoard BY <2>1, WrittenCovers
  <2>2. CASE ~EmitBoard
    <3>1. \A b \in Agents : board'[b] = "running" /\ ~Settled(b)' =>
            board[b] = "running" /\ ~Settled(b)
      BY <1>3, <2>2, RegisterEffect DEF Settled
    <3>2. UNCHANGED <<crashes, file>>
      <4>1. UNCHANGED crashes BY <1>3 DEF Spawn, Respawn, engine
      <4> QED BY <1>3, <2>2, <4>1, RegisterEffect
    <3> QED BY <3>1, <3>2, StillCovers
  <2> QED BY <2>1, <2>2
<1>4. ASSUME NEW a \in Agents, Report(a) \/ Die(a) \/ Killed(a) \/ Ignore(a)
      PROVE  CheckpointCovers'
  <2>1. UNCHANGED <<crashes, file, board, promise>>
    BY <1>4 DEF Report, Die, Killed, Ignore, HandlerFrame, engine, record, recovery
  <2> QED BY <2>1, StillCovers DEF Settled
<1>5. ASSUME NEW a \in Agents, OnSuccess(a) \/ OnFailure(a) \/ OnQuietExit(a)
      PROVE  CheckpointCovers'
  <2>1. CASE EmitBoard BY <2>1, WrittenCovers
  <2>2. CASE ~EmitBoard
    <3>1. /\ Settled(a)' /\ UNCHANGED <<board, file>> /\ HandlerFrame
          /\ \A b \in Agents \ {a} : promise'[b] = promise[b]
      BY <1>5, <2>2, SettleEffect
    <3> QED BY <3>1, StillCovers DEF HandlerFrame, Settled, engine
  <2> QED BY <2>1, <2>2
<1>6. ASSUME NEW a \in Agents, Timeout(a) PROVE CheckpointCovers'
  BY <1>6, WrittenCovers DEF Timeout
<1>7. ASSUME NEW a \in Agents, Stop(a) PROVE CheckpointCovers'
  BY <1>7, StillCovers DEF Stop, Mark, Settled, engine, recovery, TypeOK
<1>8. CASE Crash BY <1>8 DEF Crash, CheckpointCovers, TypeOK
<1>9. CASE Boot \/ Consume
  <2>1. crashes # 0 /\ UNCHANGED crashes
    BY <1>9 DEF Boot, Consume, Recoverable, engine
  <2> QED BY <2>1 DEF CheckpointCovers
<1> QED BY <1>1, <1>2, <1>3, <1>4, <1>5, <1>6, <1>7, <1>8, <1>9, UnrelatedSteps
        DEF Next, Deliver

\* The settlement loses changes only of an agent that is overdue or orphaned.
LEMMA IsolationEdits ==
  ASSUME TypeOK, EditsKept, NEW a \in Agents, SettleIsolation(a),
         Running(a) => a \in overdue', overdue \subseteq overdue', orphan' = orphan
  PROVE  EditsKept'
<1>1. \A b \in Agents \ {a} : tree'[b] = tree[b] /\ edits'[b] = edits[b]
  BY DEF SettleIsolation, TypeOK
<1>2. tree'[a] = "removed" /\ edits'[a] # "none" => a \in overdue' \/ orphan'[a] # "none"
  <2>1. CASE tree[a] # "open" BY <2>1 DEF SettleIsolation, EditsKept
  <2>2. CASE tree[a] = "open" /\ Changed(a)
    BY <2>2 DEF SettleIsolation, TypeOK
  <2>3. CASE tree[a] = "open" /\ ~Changed(a)
    BY <2>3 DEF SettleIsolation, Changed, Running, TypeOK
  <2> QED BY <2>1, <2>2, <2>3
<1> QED BY <1>1, <1>2 DEF EditsKept

\* Nothing else loses any.
LEMMA StillKept ==
  ASSUME EditsKept, overdue \subseteq overdue',
         \A a \in Agents :
           /\ orphan[a] # "none" => orphan'[a] # "none"
           /\ tree'[a] = "removed" => tree[a] = "removed" /\ edits'[a] = edits[a]
  PROVE  EditsKept'
BY DEF EditsKept

\* Every step keeps the changes of all but these.
LEMMA NextEdits ==
  ASSUME TypeOK, Dormant, Recoverable, Mail, EditsKept, [Next]_vars
  PROVE  EditsKept'
<1>1. CASE UNCHANGED vars BY <1>1, StillKept DEF vars, work, checkout
<1>2. ASSUME NEW a \in Agents, Edit(a) PROVE EditsKept'
  BY <1>2, StillKept DEF Edit, work, TypeOK
<1>3. ASSUME NEW a \in Agents, OrphanEnds(a) \/ SlotExpires(a) PROVE EditsKept'
  BY <1>3, StillKept DEF OrphanEnds, SlotExpires, work, checkout, TypeOK
<1>4. ASSUME NEW a \in Agents, Spawn(a) \/ Respawn(a) PROVE EditsKept'
  <2>1. UNCHANGED <<orphan, overdue>> BY <1>4 DEF Spawn, Respawn
  <2>2. CASE SettleIsolation(a)
    <3>1. worker[a] = "none" BY <1>4, RegisterEffect
    <3> QED BY <2>1, <2>2, <3>1, IsolationEdits DEF Running
  <2>3. CASE ~SettleIsolation(a)
    <3>1. /\ UNCHANGED edits
          /\ UNCHANGED tree \/ tree' = [tree EXCEPT ![a] = "open"]
      BY <1>4, <2>3 DEF Spawn, Respawn, CreateWorktree
    <3> QED BY <2>1, <3>1, StillKept DEF TypeOK
  <2> QED BY <2>2, <2>3
<1>5. ASSUME NEW a \in Agents, Report(a) \/ Die(a) \/ Killed(a) PROVE EditsKept'
  BY <1>5, StillKept DEF Report, Die, Killed, checkout
<1>6. ASSUME NEW a \in Agents, OnSuccess(a) \/ OnFailure(a) \/ OnQuietExit(a)
      PROVE  EditsKept'
  BY <1>6, SettleEffect, IsolationEdits DEF HandlerFrame
<1>7. ASSUME NEW a \in Agents, Timeout(a) PROVE EditsKept'
  BY <1>7, IsolationEdits DEF Timeout
<1>8. ASSUME NEW a \in Agents, Ignore(a) \/ Stop(a) PROVE EditsKept'
  BY <1>8, StillKept DEF Ignore, Stop, HandlerFrame, checkout
<1>9. CASE Crash
  <2>1. \A a \in Agents : orphan[a] # "none" => orphan'[a] # "none"
    BY <1>9 DEF Crash
  <2> QED BY <1>9, <2>1, StillKept DEF Crash, checkout
<1>10. CASE Boot \/ Consume
  BY <1>10, StillKept DEF Boot, Consume, work, checkout
<1> QED BY <1>1, <1>2, <1>3, <1>4, <1>5, <1>6, <1>7, <1>8, <1>9, <1>10 DEF Next, Deliver

\* Every step keeps caller and board of one mind, with worker threads.
LEMMA NextTells ==
  ASSUME TypeOK, Dormant, Recoverable, Mail, BoardTellsOutcome, [Next]_vars
  PROVE  BoardTellsOutcome'
<1> SUFFICES ASSUME transport' = "thread", NEW b \in Agents PROVE Tells(b)'
  BY DEF BoardTellsOutcome
<1>0. transport = "thread"
  BY DEF Next, vars, Spawn, Edit, Report, Die, Killed, Deliver, OnSuccess, OnFailure,
         OnQuietExit, Ignore, Timeout, Stop, Respawn, OrphanEnds, SlotExpires, Crash, Boot,
         Consume, HandlerFrame, engine
<1>1. Tells(b) BY <1>0 DEF BoardTellsOutcome
<1>2. ASSUME UNCHANGED <<board, promise>> PROVE Tells(b)'
  BY <1>1, <1>2 DEF Tells
<1>3. CASE UNCHANGED vars BY <1>2, <1>3 DEF vars, record
<1>4. CASE Unrelated BY <1>2, <1>4 DEF Unrelated
<1>5. ASSUME NEW a \in Agents, Spawn(a) \/ Respawn(a) PROVE Tells(b)'
  BY <1>1, <1>5, RegisterEffect DEF Tells
<1>6. ASSUME NEW a \in Agents, Report(a) \/ Die(a) \/ Killed(a) \/ Ignore(a) PROVE Tells(b)'
  BY <1>2, <1>6 DEF Report, Die, Killed, Ignore, record
<1>7. ASSUME NEW a \in Agents, OnSuccess(a) \/ OnFailure(a) \/ OnQuietExit(a) PROVE Tells(b)'
  <2>1. Head(inbox[a]) # "exit0"
    <3>1. promise[a] = "pending" /\ inbox[a] # <<>> BY <1>7, SettleEffect
    <3>2. inbox[a] \in Letters /\ inbox[a] # <<"exit0">>
      BY <1>0, <3>1 DEF Mail, Settled
    <3> QED BY <3>1, <3>2, Letterbox
  <2> QED BY <1>1, <1>7, <2>1, SettleEffect DEF Tells
<1>8. ASSUME NEW a \in Agents, Timeout(a) PROVE Tells(b)'
  BY <1>1, <1>8 DEF Timeout, Mark, Answer, Tells, TypeOK
<1>9. ASSUME NEW a \in Agents, Stop(a) PROVE Tells(b)'
  BY <1>1, <1>9 DEF Stop, Mark, Tells, TypeOK
<1>10. CASE Crash BY <1>10 DEF Crash, Nothing, Tells
<1>11. CASE Boot \/ Consume BY <1>2, <1>11 DEF Boot, Consume, record
<1> QED BY <1>3, <1>4, <1>5, <1>6, <1>7, <1>8, <1>9, <1>10, <1>11, UnrelatedSteps
        DEF Next, Deliver

-----------------------------------------------------------------------------
(* The theorems. *)

\* The invariant is inductive.
LEMMA Inductive == (Init => IInv) /\ (IInv /\ [Next]_vars => IInv')
<1>1. ASSUME Init PROVE IInv
  <2>1. /\ \A a \in Agents : /\ worker[a] = "none" /\ orphan[a] = "none" /\ inbox[a] = <<>>
                             /\ board[a] = "none" /\ promise[a] = "none"
                             /\ tree[a] = "none" /\ edits[a] = "none"
        /\ up /\ crashes = 0 /\ fresh = Agents
        /\ config = {} /\ file = {} /\ cache = {} /\ resuming = {}
    BY <1>1 DEF Init, Nothing
  <2>2. TypeOK
    <3>1. <<>> \in Seq(Events) OBVIOUS
    <3>2. inbox \in [Agents -> Seq(Events)] BY <1>1, <3>1 DEF Init, Nothing
    <3>3. crashes \in 0..MaxCrashes BY <1>1, SubAgentsAssumption DEF Init
    <3>4. up \in BOOLEAN BY <1>1 DEF Init
    <3>5. config = {a \in Agents : promise[a] = "pending"} BY <2>1
    <3>6. /\ worker \in [Agents -> {"none", "alive", "doomed", "dead"}]
          /\ orphan \in [Agents -> {"none", "alive", "ended"}]
          /\ board \in [Agents -> {"none", "running", "done", "failed"}]
          /\ promise \in [Agents -> {"none", "pending", "resolved", "rejected"}]
          /\ tree \in [Agents -> {"none", "open", "kept", "removed"}]
          /\ edits \in [Agents -> {"none", "dirty", "committed"}]
      BY <1>1 DEF Init, Nothing
    <3> QED BY <1>1, <3>2, <3>3, <3>4, <3>5, <3>6 DEF Init, TypeOK, Events
  <2>3. Dormant BY <2>1 DEF Dormant
  <2>4. Recoverable BY <2>1 DEF Recoverable
  <2>5. Mail
    <3>1. <<>> \in Letters /\ <<>> # <<"exit0">>
      <4>1. <<"exit0">> \in Seq(Events) /\ Len(<<"exit0">>) = 1 BY DEF Events
      <4> QED BY <4>1, EmptySeq DEF Letters
    <3> QED BY <2>1, <3>1 DEF Mail
  <2>6. CheckpointCovers /\ EditsKept /\ BoardTellsOutcome
    BY <2>1 DEF CheckpointCovers, Unsettled, EditsKept, BoardTellsOutcome, Tells
  <2> QED BY <2>2, <2>3, <2>4, <2>5, <2>6 DEF IInv
<1>2. ASSUME IInv, [Next]_vars PROVE IInv'
  <2>1. TypeOK' BY <1>2, NextType DEF IInv
  <2>2. Dormant' BY <1>2, NextDormant DEF IInv
  <2>3. Recoverable' BY <1>2, <2>1, <2>2, NextRecoverable DEF IInv
  <2>4. Mail' BY <1>2, NextMail DEF IInv
  <2>5. CheckpointCovers' BY <1>2, <2>1, <2>2, NextCovers DEF IInv
  <2>6. EditsKept' BY <1>2, NextEdits DEF IInv
  <2>7. BoardTellsOutcome' BY <1>2, NextTells DEF IInv
  <2> QED BY <2>1, <2>2, <2>3, <2>4, <2>5, <2>6, <2>7 DEF IInv
<1> QED BY <1>1, <1>2

\* The invariant holds of every reachable state.
LEMMA Invariant == Spec => []IInv
BY Inductive, PTL DEF Spec

\* The state keeps its shape, and the spawn configs are those of the agents
\* under way (SubAgentManager.spawnConfigs).
THEOREM AgentsTypeCorrect == Spec => []TypeOK
<1>1. IInv => TypeOK BY DEF IInv
<1> QED BY Invariant, <1>1, PTL

\* With worker threads the caller of spawnWorker and the blackboard tell the
\* same outcome, whichever of message, exit, stop and timeout comes first.
THEOREM BoardAlwaysTells == Spec => []BoardTellsOutcome
<1>1. IInv => BoardTellsOutcome BY DEF IInv
<1> QED BY Invariant, <1>1, PTL

\* The first crash finds every unsettled agent in the checkpoint (emitBoard).
THEOREM CheckpointAlwaysCovers == Spec => []CheckpointCovers
<1>1. IInv => CheckpointCovers BY DEF IInv
<1> QED BY Invariant, <1>1, PTL

\* No settlement throws away the changes of an agent that had neither timed
\* out nor outlived its engine (settleWorktree).
THEOREM EditsAlwaysKept == Spec => []EditsKept
<1>1. IInv => EditsKept BY DEF IInv
<1> QED BY Invariant, <1>1, PTL
-----------------------------------------------------------------------------
(* A settlement is final. *)

\* A settled agent of the running engine is never answered again, its worktree is not
\* settled a second time and it takes no slot again, whatever messages, exits, stops and
\* timeouts still come; with threads its entry on the board stays, too.
SettlementsAreFinal ==
  [][\A a \in Agents : Settled(a) /\ up' =>
       /\ promise'[a] = promise[a] /\ tree'[a] = tree[a]
       /\ a \notin slot => a \notin slot'
       /\ transport = "thread" => board'[a] = board[a]]_vars

LEMMA SettledStays ==
  ASSUME IInv, [Next]_vars, NEW a \in Agents, Settled(a), up'
  PROVE  /\ promise'[a] = promise[a] /\ tree'[a] = tree[a]
         /\ a \notin slot => a \notin slot'
         /\ transport = "thread" => board'[a] = board[a]
<1> DEFINE Goal == /\ promise'[a] = promise[a] /\ tree'[a] = tree[a]
                   /\ a \notin slot => a \notin slot'
                   /\ transport = "thread" => board'[a] = board[a]
<1>0. /\ TypeOK /\ Dormant /\ Recoverable /\ Mail
      /\ promise[a] # "none" /\ promise[a] # "pending"
      /\ a \notin fresh \union resuming
      /\ transport = "thread" => board[a] # "running"
  BY DEF IInv, Dormant, Settled, BoardTellsOutcome, Tells
<1>1. CASE UNCHANGED vars
  BY <1>1 DEF vars, record, checkout
<1>2. ASSUME NEW b \in Agents, Spawn(b) \/ Respawn(b) PROVE Goal
  <2>1. b # a /\ (Refused(b) \/ HandleThrows(b) \/ Start(b))
    BY <1>0, <1>2 DEF Spawn, Respawn
  <2>2. promise'[a] = promise[a] /\ board'[a] = board[a]
    BY <1>0, <1>2, <2>1, RegisterEffect
  <2>3. a \notin slot => a \notin slot'
    BY <2>1 DEF Refused, HandleThrows, Start
  <2>4. tree'[a] = tree[a]
    BY <1>0, <1>2, <2>1 DEF Spawn, Respawn, CreateWorktree, SettleIsolation, TypeOK
  <2> QED BY <2>2, <2>3, <2>4
<1>3. ASSUME NEW b \in Agents, Report(b) \/ Die(b) \/ Killed(b) PROVE Goal
  BY <1>3 DEF Report, Die, Killed, record, checkout
<1>4. ASSUME NEW b \in Agents, Edit(b) \/ OrphanEnds(b) \/ SlotExpires(b) PROVE Goal
  BY <1>4 DEF Edit, OrphanEnds, SlotExpires, record, checkout
<1>5. ASSUME NEW b \in Agents, OnSuccess(b) \/ OnFailure(b) \/ OnQuietExit(b) PROVE Goal
  <2>1. /\ b # a /\ SettleIsolation(b)
        /\ promise'[a] = promise[a] /\ board'[a] = board[a]
    BY <1>0, <1>5, SettleEffect
  <2>2. slot' = slot \ {b}
    BY <1>5 DEF OnSuccess, OnFailure, OnQuietExit, Finish
  <2>3. tree'[a] = tree[a]
    BY <1>0, <2>1 DEF SettleIsolation, TypeOK
  <2> QED BY <2>1, <2>2, <2>3
<1>6. ASSUME NEW b \in Agents, Ignore(b) PROVE Goal
  BY <1>6 DEF Ignore, record
<1>7. ASSUME NEW b \in Agents, Timeout(b) PROVE Goal
  BY <1>0, <1>7 DEF Timeout, Mark, Answer, SettleIsolation, TypeOK
<1>8. ASSUME NEW b \in Agents, Stop(b) PROVE Goal
  BY <1>0, <1>8 DEF Stop, Mark, checkout, TypeOK
<1>9. CASE Crash
  BY <1>9 DEF Crash
<1>10. CASE Boot \/ Consume
  BY <1>10 DEF Boot, Consume, record, checkout
<1> QED
  BY <1>1, <1>2, <1>3, <1>4, <1>5, <1>6, <1>7, <1>8, <1>9, <1>10 DEF Next, Deliver

\* The flag "settled" of spawnWorker does what it is for, in any race of the handlers that
\* share it and with agents that are resumed under the name of an earlier one.
THEOREM SettledOnceAndForAll == Spec => SettlementsAreFinal
<1>1. IInv /\ [Next]_vars =>
        [\A a \in Agents : Settled(a) /\ up' =>
           /\ promise'[a] = promise[a] /\ tree'[a] = tree[a]
           /\ a \notin slot => a \notin slot'
           /\ transport = "thread" => board'[a] = board[a]]_vars
  BY SettledStays
<1> QED BY <1>1, Invariant, PTL DEF Spec, SettlementsAreFinal
=============================================================================

---------------------------- MODULE TakeoverProof ----------------------------
(***************************************************************************)
(* Theorems about Takeover, for any actions that overlap, any number of    *)
(* decisions of the user and any number of refreshes that fail.            *)
(*                                                                          *)
(* The invariant Consent(a) says what the mirror's generation vouches for: *)
(* as long as it is the one an action was admitted under, and the mirror   *)
(* says "running", nobody has written to the mirror what main decided       *)
(* after the admission.                                                     *)
(***************************************************************************)
EXTENDS Takeover, TLAPS

Acting == Native \cup Compat

\* Phases in which an admitted action has asked main again.
Asked == {"final", "front", "post", "emergency"}

\* What is known of an action between its admission and its delivery.
Consent(a) ==
  pc[a] \in Admitted =>
    /\ since[a] <= main.generation /\ admitted[a] <= mirror.generation
    /\ Passes(a) => mirror.authority <= since[a]
    /\ pc[a] \in Asked =>
         /\ refresh[a].state \in {"answered", "done"} => refresh[a].generation >= since[a]
         /\ refresh[a].state = "done" /\ Passes(a) =>
              ~refresh[a].paused /\ refresh[a].generation = mirror.authority
         /\ refresh[a].state = "failed" => ~Passes(a)

\* Answers and the mirror are main's state of some earlier moment, and of this
\* one when they carry its generation.
Answers ==
  /\ mirror.authority <= main.generation
  /\ mirror.reason = "unreachable" => mirror.paused
  /\ \A a \in Actors : refresh[a].state \in {"answered", "done"} =>
       /\ refresh[a].generation <= main.generation
       /\ refresh[a].generation = main.generation => refresh[a].paused = main.paused

\* An action nobody disturbed is still the one the mirror admitted.
Undisturbed ==
  \A n \in Native : pc[n] \in {"prepared", "final"} /\ ~cause[n] =>
    InSync /\ admitted[n] = mirror.generation

\* One compatibility action runs, and none while the session settles.
Alone ==
  \A c \in Compat : pc[c] \in Running =>
    /\ session # "settling"
    /\ \A d \in Compat \ {c} : pc[d] \notin Running

\* A button that pointerPrimitive is about to put down is on the record.
Noted == \A c \in Compat : pc[c] = "post" /\ kind[c] \in Recorded => held

IInv ==
  /\ TypeOK
  /\ Answers /\ (\A a \in Acting : Consent(a)) /\ DeliveredUnderConsent
  /\ Undisturbed /\ DiscardHasCause
  /\ Alone /\ Noted /\ HeldIsRecorded

-----------------------------------------------------------------------------
(* Types. *)

\* The records that refreshes are made of.
Refreshes ==
  [ state : {"none", "asked", "answered", "done", "failed"},
    paused : BOOLEAN, generation : Nat ]
Mirrors ==
  [ paused : BOOLEAN, reason : {"none", "user", "unreachable"},
    authority : Nat \cup {NoAuthority}, generation : Nat ]
Buttons == {"up", "kept", "loose"}
Losses == {"none", "helper", "guard"}
Phases == Resting \cup Admitted \cup {"gate", "entry", "queued", "begin"}

\* A refresh is empty, under way or failed.
LEMMA RefreshTypes ==
  /\ NoRefresh \in Refreshes
  /\ [NoRefresh EXCEPT !.state = "asked"] \in Refreshes
  /\ [NoRefresh EXCEPT !.state = "failed"] \in Refreshes
BY DEF NoRefresh, Refreshes

\* What calls do to phases and refreshes keeps their type.
LEMMA CallTypes ==
  ASSUME TypeOK, NEW a \in Actors, NEW phase \in Phases
  PROVE  /\ Asking(a, phase) \/ Then(a, phase) \/ Return(a, phase) =>
              /\ pc' \in [Actors -> Phases] /\ refresh' \in [Actors -> Refreshes]
         /\ Return(a, phase) =>
              /\ admitted' \in [Actors -> Nat] /\ since' \in [Actors -> Nat]
              /\ kind' \in [Actors -> Kinds]
         /\ Admit(a) => admitted' \in [Actors -> Nat] /\ since' \in [Actors -> Nat]
<1> USE RefreshTypes DEF TypeOK
<1>1. Goto(a, phase) => pc' \in [Actors -> Phases]
  BY DEF Goto, Phases
<1>2. Asking(a, phase) => refresh' \in [Actors -> Refreshes]
  BY DEF Asking, Ask, Refreshes
<1>3. Then(a, phase) => refresh' \in [Actors -> Refreshes]
  BY DEF Then, Refreshes
<1>4. Return(a, phase) => /\ admitted' \in [Actors -> Nat] /\ since' \in [Actors -> Nat]
                          /\ kind' \in [Actors -> Kinds]
  BY DEF Return, Kinds
<1>5. Admit(a) => admitted' \in [Actors -> Nat] /\ since' \in [Actors -> Nat]
  BY DEF Admit
<1> QED BY <1>1, <1>2, <1>3, <1>4, <1>5 DEF Asking, Then, Return

\* The initial state has its type.
LEMMA InitType == Init => TypeOK
<1>1. Init => /\ refresh \in [Actors -> Refreshes] /\ pc \in [Actors -> Phases]
  BY RefreshTypes DEF Init, Phases, Resting
<1>2. Init => main \in [paused : BOOLEAN, generation : Nat] /\ mirror \in Mirrors
  BY DEF Init, Mirrors
<1>3. Init => /\ admitted \in [Actors -> Nat] /\ since \in [Actors -> Nat]
              /\ kind \in [Actors -> Kinds] /\ cause \in [Native -> BOOLEAN]
  BY DEF Init, Kinds
<1>4. Init => /\ held \in BOOLEAN /\ button \in {"up", "kept", "loose"}
              /\ lost \in {"none", "helper", "guard"}
  BY Zenon DEF Init
<1>5. Init => /\ failures \in Nat /\ session \in {"open", "settling", "closed"}
              /\ unvouched \subseteq Native \cup Compat
  BY DEF Init
<1> QED BY <1>1, <1>2, <1>3, <1>4, <1>5 DEF TypeOK, Refreshes, Mirrors, Phases

\* The latch and its mirror keep the type.
LEMMA LatchType ==
  ASSUME TypeOK,
         UserSets \/ \E a \in Actors : Serve(a) \/ Apply(a) \/ Fail(a)
  PROVE  TypeOK'
<1>1. Disturb \/ UNCHANGED cause => cause' \in [Native -> BOOLEAN]
  BY DEF Disturb, TypeOK
<1>2. CASE UserSets
  <2>1. main' \in [paused : BOOLEAN, generation : Nat] BY <1>2 DEF UserSets, TypeOK
  <2> QED BY <1>1, <1>2, <2>1 DEF UserSets, hands, TypeOK
<1>3. ASSUME NEW a \in Actors, Serve(a) PROVE TypeOK'
  <2>1. refresh' \in [Actors -> Refreshes] BY <1>3 DEF Serve, TypeOK, Refreshes
  <2> QED BY <1>3, <2>1 DEF Serve, hands, TypeOK, Refreshes
<1>4. ASSUME NEW a \in Actors, Apply(a) PROVE TypeOK'
  <2>1. refresh' \in [Actors -> Refreshes] BY <1>4 DEF Apply, TypeOK, Refreshes
  <2>2. mirror' \in Mirrors
    BY <1>4 DEF Apply, Synchronize, ReasonOf, TypeOK, Mirrors
  <2> QED BY <1>1, <1>4, <2>1, <2>2 DEF Apply, hands, TypeOK, Refreshes, Mirrors
<1>5. ASSUME NEW a \in Actors, Fail(a) PROVE TypeOK'
  <2>1. refresh' \in [Actors -> Refreshes] BY <1>5, RefreshTypes DEF Fail, TypeOK, Refreshes
  <2>2. mirror' \in Mirrors
    <3>1. mirror.generation + 1 \in Nat BY DEF TypeOK
    <3>2. CASE mirror' = [ mirror EXCEPT !.paused = TRUE, !.reason = "unreachable",
                             !.generation = @ + 1 ]
      BY <3>1, <3>2 DEF TypeOK, Mirrors
    <3> QED BY <1>5, <3>2 DEF Fail, Pause, TypeOK, Mirrors
  <2> QED BY <1>1, <1>5, <2>1, <2>2 DEF Fail, hands, TypeOK, Refreshes, Mirrors
<1> QED BY <1>2, <1>3, <1>4, <1>5

\* Native actions keep the type.
LEMMA NativeType ==
  ASSUME TypeOK, NEW n \in Native, NativeStep(n)
  PROVE  TypeOK'
<1> n \in Actors BY DEF Actors
<1>0. UNCHANGED hands => held' \in BOOLEAN /\ button' \in Buttons /\ lost' \in Losses
  BY DEF hands, TypeOK, Buttons, Losses
<1>1. CASE Prepare(n)
  <2>1. Then(n, "prepared") /\ Admit(n) BY <1>1 DEF Prepare
  <2>2. "prepared" \in Phases BY DEF Phases, Admitted
  <2>3. UNCHANGED <<main, mirror, failures>> BY <2>1 DEF Then
  <2>4. cause' \in [Native -> BOOLEAN] BY <1>1 DEF Prepare, TypeOK, InSync
  <2> QED BY <1>0, <1>1, <2>1, <2>2, <2>3, <2>4, CallTypes
          DEF Prepare, TypeOK, Refreshes, Phases, Buttons, Losses
<1>2. CASE Perform(n)
  BY <1>2, CallTypes DEF Perform, Asking, hands, TypeOK, Refreshes, Phases, Admitted
<1>3. CASE Deliver(n) \/ Refuse(n)
  <2>1. PICK phase \in {"idle", Refusal} : Return(n, phase)
    BY <1>3 DEF Deliver, Refuse
  <2>2. phase \in Phases BY DEF Refusal, Phases, Resting
  <2>3. UNCHANGED <<main, mirror, failures>> BY <2>1 DEF Return, Then
  <2>4. cause' \in [Native -> BOOLEAN] BY <1>3 DEF Deliver, Refuse, TypeOK
  <2>5. unvouched' \subseteq Native \cup Compat
    BY <1>3 DEF Deliver, Refuse, Delivered, TypeOK
  <2> QED BY <1>0, <1>3, <2>1, <2>2, <2>3, <2>4, <2>5, CallTypes
          DEF Deliver, Refuse, TypeOK, Refreshes, Phases, Buttons, Losses
<1> QED BY <1>1, <1>2, <1>3 DEF NativeStep

\* Compatibility actions keep the type.
LEMMA CompatType ==
  ASSUME TypeOK, NEW c \in Compat, CompatStep(c)
  PROVE  TypeOK'
<1> c \in Actors BY DEF Actors
<1> USE DEF hands
<1>1. CASE Enter(c)
  BY <1>1, CallTypes DEF Enter, Asking, TypeOK, Refreshes, Phases
<1>2. CASE Approve(c)
  <2>1. (IF mirror.paused THEN "idle" ELSE "queued") \in Phases BY DEF Phases, Resting
  <2> QED BY <1>2, <2>1, CallTypes DEF Approve, Then, TypeOK, Refreshes, Phases
<1>3. CASE Begin(c)
  BY <1>3, CallTypes DEF Begin, Asking, TypeOK, Refreshes, Phases
<1>0. Input(c) => /\ held' \in BOOLEAN /\ kind' \in [Actors -> Kinds]
                  /\ pc' \in [Actors -> Phases] /\ refresh' \in [Actors -> Refreshes]
                  /\ UNCHANGED <<main, mirror, failures>>
  <2>1. "post" \in Phases BY DEF Phases, Admitted
  <2> QED BY <2>1, CallTypes DEF Input, NoteDown, Asking, TypeOK
<1>4. CASE Bind(c)
  <2>1. CASE mirror.paused
    BY <1>4, <2>1, CallTypes DEF Bind, Return, Then, TypeOK, Refreshes, Phases, Resting
  <2>2. CASE ~mirror.paused
    <3>1. admitted' \in [Actors -> Nat] /\ since' \in [Actors -> Nat]
      BY <1>4, <2>2 DEF Bind, Admit, TypeOK
    <3>2. CASE Input(c) BY <1>0, <1>4, <2>2, <3>1, <3>2 DEF Bind, TypeOK, Refreshes, Phases
    <3>3. CASE Asking(c, "front") /\ UNCHANGED <<kind, held>>
      BY <1>4, <2>2, <3>1, <3>3, CallTypes DEF Bind, Asking, TypeOK, Refreshes, Phases, Admitted
    <3> QED BY <1>4, <2>2, <3>2, <3>3 DEF Bind
  <2> QED BY <2>1, <2>2
<1>5. CASE Front(c)
  <2>1. unvouched' \subseteq Native \cup Compat BY <1>5 DEF Front, Delivered, TypeOK
  <2>2. CASE Passes(c) BY <1>0, <1>5, <2>1, <2>2 DEF Front, TypeOK, Refreshes, Phases
  <2>3. CASE ~Passes(c)
    BY <1>5, <2>1, <2>3, CallTypes
       DEF Front, Return, Then, TypeOK, Refreshes, Phases, Resting
  <2> QED BY <2>2, <2>3
<1>b. /\ After(c) \subseteq {"up", "kept", "loose"}
      /\ Within(c) \subseteq {"up", "kept", "loose"}
  BY DEF After, Within, Down, TypeOK
<1>l. Found => lost' \in {"none", "helper", "guard"} BY DEF Found, TypeOK
<1>6. CASE Post(c)
  <2>1. button' \in {"up", "kept", "loose"} /\ held' \in BOOLEAN
    BY <1>6, <1>b DEF Post, TypeOK
  <2>2. unvouched' \subseteq Native \cup Compat BY <1>6 DEF Post, Delivered, TypeOK
  <2> QED BY <1>6, <1>l, <2>1, <2>2, CallTypes
          DEF Post, Return, Then, TypeOK, Refreshes, Phases, Resting
<1>7. ASSUME NEW inputs, Recover(c, inputs)
      PROVE  /\ pc' \in [Actors -> Phases] /\ refresh' \in [Actors -> Refreshes]
             /\ admitted' \in [Actors -> Nat] /\ since' \in [Actors -> Nat]
             /\ kind' \in [Actors -> Kinds]
             /\ UNCHANGED <<main, mirror, failures>>
  <2>1. {"emergency", "idle"} \subseteq Phases BY DEF Phases, Admitted, Resting
  <2> QED BY <1>7, <2>1, CallTypes DEF Recover, Asking, Return, Then, TypeOK
<1>8. CASE PostFails(c)
  <2>1. button' \in {"up", "kept", "loose"} BY <1>8, <1>b DEF PostFails
  <2>2. unvouched' \subseteq Native \cup Compat BY <1>8 DEF PostFails, Delivered, TypeOK
  <2>3. Recover(c, Recorded \cup {"drag"}) BY <1>8 DEF PostFails
  <2> QED BY <1>7, <1>8, <1>l, <2>1, <2>2, <2>3 DEF PostFails, TypeOK, Refreshes, Phases
<1>9. CASE PostRefused(c)
  <2>1. Recover(c, Recorded) BY <1>9 DEF PostRefused
  <2> QED BY <1>7, <1>9, <2>1 DEF PostRefused, TypeOK, Refreshes, Phases
<1>10. CASE Emergency(c)
  <2>1. button' \in {"up", "kept", "loose"} /\ held' \in BOOLEAN
    BY <1>10 DEF Emergency, TypeOK
  <2>2. unvouched' \subseteq Native \cup Compat BY <1>10 DEF Emergency, Delivered, TypeOK
  <2> QED BY <1>10, <1>l, <2>1, <2>2, CallTypes
          DEF Emergency, Return, Then, TypeOK, Refreshes, Phases, Resting
<1> QED BY <1>1, <1>2, <1>3, <1>4, <1>5, <1>6, <1>8, <1>9, <1>10 DEF CompatStep

\* Entering, dropping, disposing and settling keep the type.
LEMMA OtherType ==
  ASSUME TypeOK,
         \/ \E a \in Native \cup Compat : StartCall(a) \/ Drop(a)
         \/ Dispose \/ Settle
  PROVE  TypeOK'
<1>1. ASSUME NEW a \in Actors, StartCall(a) PROVE TypeOK'
  BY <1>1, CallTypes DEF StartCall, Asking, hands, TypeOK, Refreshes, Phases
<1>2. ASSUME NEW a \in Actors, Drop(a) PROVE TypeOK'
  <2>1. cause' \in [Native -> BOOLEAN] BY <1>2 DEF Drop, TypeOK
  <2>2. Return(a, "idle") /\ "idle" \in Phases BY <1>2 DEF Drop, Phases, Resting
  <2>3. UNCHANGED <<main, mirror, failures>> BY <2>2 DEF Return, Then
  <2>4. held' \in BOOLEAN /\ button' \in Buttons /\ lost' \in Losses
    BY <1>2 DEF Drop, hands, TypeOK, Buttons, Losses
  <2> QED BY <1>2, <2>1, <2>2, <2>3, <2>4, CallTypes
          DEF Drop, TypeOK, Refreshes, Phases, Buttons, Losses
<1>3. Session \in Actors BY DEF Actors
<1>4. CASE Dispose
  <2>1. refresh' \in [Actors -> Refreshes]
    BY <1>3, <1>4, RefreshTypes DEF Dispose, Ask, latch, TypeOK, Refreshes
  <2> QED BY <1>4, <2>1 DEF Dispose, latch, TypeOK, Refreshes
<1>5. CASE Settle
  <2>1. refresh' \in [Actors -> Refreshes]
    BY <1>3, <1>5, RefreshTypes DEF Settle, TypeOK, Refreshes
  <2>2. button' \in {"up", "kept", "loose"} /\ lost' \in {"none", "helper", "guard"}
    BY <1>5 DEF Settle, Still, TypeOK
  <2> QED BY <1>5, <2>1, <2>2 DEF Settle, TypeOK, Refreshes
<1> QED BY <1>1, <1>2, <1>4, <1>5 DEF Actors

\* The type is an invariant.
LEMMA NextType == TypeOK /\ [Next]_vars => TypeOK'
<1>1. TypeOK /\ UNCHANGED vars => TypeOK'
  BY DEF vars, latch, hands, TypeOK
<1> QED BY <1>1, LatchType, NativeType, CompatType, OtherType DEF Next

-----------------------------------------------------------------------------
(* Consent. *)

\* What of the mirror and of main a step of an actor leaves alone.
Steady == UNCHANGED <<main, mirror>>

\* Answers stay main's when main and the mirror do and no answer is new.
LEMMA SteadyAnswers ==
  ASSUME TypeOK, Answers, Steady,
         \A a \in Actors : refresh'[a].state \in {"answered", "done"} =>
           refresh'[a] = refresh[a]
  PROVE  Answers'
BY DEF Answers, Steady

\* A step that leaves an actor, main and the mirror alone keeps its consent.
LEMMA SteadyConsent ==
  ASSUME Steady, NEW a \in Acting, Consent(a),
         /\ pc'[a] = pc[a] /\ refresh'[a] = refresh[a]
         /\ since'[a] = since[a] /\ admitted'[a] = admitted[a]
  PROVE  Consent(a)'
BY DEF Consent, Steady, Passes

\* An action that asks main again keeps its consent.
LEMMA AskingConsent ==
  ASSUME TypeOK, NEW a \in Acting, Consent(a), NEW phase \in Phases, Asking(a, phase),
         pc[a] \in Admitted \/ phase \notin Admitted,
         since'[a] = since[a] /\ admitted'[a] = admitted[a]
  PROVE  Consent(a)'
<1>1. a \in Actors BY DEF Acting, Actors
<1>2. pc'[a] = phase /\ refresh'[a].state = "asked"
  BY <1>1 DEF Asking, Goto, Ask, NoRefresh, TypeOK
<1>3. Passes(a)' <=> Passes(a) BY DEF Asking, Passes
<1>4. main' = main /\ mirror' = mirror BY DEF Asking
<1> QED BY <1>2, <1>3, <1>4 DEF Consent

\* An action that is admitted has the consent of the moment.
LEMMA AdmitConsent ==
  ASSUME TypeOK, Answers, NEW a \in Acting, Admit(a), Steady,
         refresh'[a].state \in {"none", "asked"}
  PROVE  Consent(a)'
<1>1. a \in Actors BY DEF Acting, Actors
<1>2. since'[a] = main.generation /\ admitted'[a] = mirror.generation
  BY <1>1 DEF Admit, TypeOK
<1> QED BY <1>2 DEF Consent, Answers, Steady, TypeOK

\* A call that is not admitted needs no consent.
LEMMA OutsideConsent ==
  ASSUME NEW a \in Acting, pc'[a] \notin Admitted
  PROVE  Consent(a)'
BY DEF Consent

\* A decision of the user reaches the mirror with answers to come.
LEMMA UserConsent ==
  ASSUME TypeOK, Answers, NEW a \in Acting, Consent(a), UserSets
  PROVE  Consent(a)'
<1>1. a \in Actors BY DEF Acting, Actors
<1>2. main'.generation = main.generation + 1 /\ UNCHANGED <<mirror, refresh, pc, since, admitted>>
  BY DEF UserSets, TypeOK
<1>3. since[a] \in Nat /\ main.generation \in Nat BY <1>1 DEF TypeOK
<1> QED BY <1>2, <1>3 DEF Consent, Passes

\* The broker's answer is not older than the admission.
LEMMA ServeConsent ==
  ASSUME TypeOK, NEW a \in Acting, NEW b \in Actors, Consent(a), Serve(b)
  PROVE  Consent(a)'
<1>1. a \in Actors BY DEF Acting, Actors
<1>2. UNCHANGED <<main, mirror, pc, since, admitted>> BY DEF Serve
<1>3. CASE a # b BY <1>1, <1>2, <1>3, SteadyConsent DEF Serve, Steady, TypeOK
<1>4. CASE a = b
  <2>1. refresh'[a].state = "answered" /\ refresh'[a].generation = main.generation
    BY <1>1, <1>4 DEF Serve, TypeOK
  <2> QED BY <1>2, <2>1 DEF Consent, Passes
<1> QED BY <1>3, <1>4

\* An answer that changes the mirror counts its generation up; one that does
\* not says what the mirror says.
LEMMA SynchronizeGeneration ==
  ASSUME TypeOK, NEW answer \in Refreshes, Synchronize(answer)
  PROVE  /\ mirror'.authority = answer.generation /\ mirror'.paused = answer.paused
         /\ \/ mirror'.generation = mirror.generation + 1
            \/ /\ mirror'.generation = mirror.generation
               /\ mirror.paused = answer.paused
               /\ \/ mirror.authority = answer.generation
                  \/ mirror.authority = NoAuthority /\ answer.generation = 0
BY DEF Synchronize, Changed, TypeOK, Refreshes

\* An answer applied by any call either is the one that the guard will read or
\* changes the generation the action was admitted under.
LEMMA ApplyConsent ==
  ASSUME TypeOK, NEW a \in Acting, NEW b \in Actors, Consent(a), Apply(b)
  PROVE  Consent(a)'
<1>1. a \in Actors /\ refresh[b] \in Refreshes BY DEF Acting, Actors, TypeOK, Refreshes
<1>2. UNCHANGED <<main, pc, since, admitted>> BY DEF Apply
<1>3. /\ since[a] \in Nat /\ admitted[a] \in Nat /\ mirror.generation \in Nat
      /\ refresh[a].generation \in Nat
  BY <1>1 DEF TypeOK
<1>4. refresh'[a].generation = refresh[a].generation /\ refresh'[a].paused = refresh[a].paused
  BY <1>1 DEF Apply, TypeOK
<1>5. refresh'[a].state = IF a = b THEN "done" ELSE refresh[a].state
  BY <1>1 DEF Apply, TypeOK
<1>6. a # Session BY TakeoverAssumption DEF Acting
<1>7. CASE mirror'.generation = mirror.generation + 1
  BY <1>1, <1>2, <1>3, <1>4, <1>5, <1>6, <1>7 DEF Consent, Passes, Apply
<1>8. CASE /\ mirror'.generation = mirror.generation
           /\ mirror.paused = refresh[b].paused
           /\ \/ mirror.authority = refresh[b].generation
              \/ mirror.authority = NoAuthority /\ refresh[b].generation = 0
  <2>1. mirror'.authority = refresh[b].generation /\ mirror'.paused = refresh[b].paused
    BY <1>1, SynchronizeGeneration DEF Apply
  <2> QED BY <1>1, <1>2, <1>3, <1>4, <1>5, <1>6, <1>8, <2>1 DEF Consent, Passes, Apply, NoAuthority
<1> QED BY <1>1, <1>7, <1>8, SynchronizeGeneration DEF Apply

\* A refresh that fails leaves the mirror paused.
LEMMA FailConsent ==
  ASSUME TypeOK, NEW a \in Acting, NEW b \in Actors, Consent(a), Fail(b),
         mirror.reason = "unreachable" => mirror.paused
  PROVE  Consent(a)'
<1>1. a \in Actors BY DEF Acting, Actors
<1>2. UNCHANGED <<main, pc, since, admitted>> BY DEF Fail
<1>3. mirror'.paused /\ mirror'.generation \in {mirror.generation, mirror.generation + 1}
  BY DEF Fail, Pause, TypeOK
<1>4. admitted[a] \in Nat /\ mirror.generation \in Nat BY <1>1 DEF TypeOK
<1>5. refresh'[a] = refresh[a] \/ refresh'[a].state = "failed"
  BY <1>1 DEF Fail, NoRefresh, TypeOK
<1> QED BY <1>2, <1>3, <1>4, <1>5 DEF Consent, Passes

\* A step of one call leaves the other calls, main and the mirror alone, and
\* takes no answer.
LocalTo(b) ==
  /\ Steady
  /\ \A a \in Actors \ {b} :
       /\ pc'[a] = pc[a] /\ refresh'[a] = refresh[a]
       /\ since'[a] = since[a] /\ admitted'[a] = admitted[a]
  /\ refresh'[b].state \in {"answered", "done"} => refresh'[b] = refresh[b]

\* How calls proceed is local to them.
LEMMA CallLocal ==
  ASSUME TypeOK, NEW b \in Actors, NEW phase \in Phases
  PROVE  /\ Asking(b, phase) \/ Then(b, phase) \/ Return(b, phase) =>
              /\ Steady /\ pc'[b] = phase
              /\ refresh'[b].state = IF Asking(b, phase) THEN "asked" ELSE "none"
              /\ \A a \in Actors \ {b} : pc'[a] = pc[a] /\ refresh'[a] = refresh[a]
         /\ Return(b, phase) \/ Admit(b) =>
              \A a \in Actors \ {b} : since'[a] = since[a] /\ admitted'[a] = admitted[a]
BY DEF Asking, Then, Return, Admit, Goto, Ask, NoRefresh, Steady, TypeOK

\* Every step of a call, and the end of a session, is local.
LEMMA StepsLocal ==
  ASSUME TypeOK, NEW b \in Actors,
         \/ StartCall(b) \/ Drop(b)
         \/ b \in Native /\ NativeStep(b)
         \/ b \in Compat /\ CompatStep(b)
         \/ b = Session /\ (Dispose \/ Settle)
  PROVE  LocalTo(b)
<1> USE CallLocal
<1>0. Resting \cup {"gate", "entry", "queued", "begin"} \cup Admitted \subseteq Phases
  BY DEF Phases
<1>1. CASE StartCall(b) BY <1>0, <1>1 DEF StartCall, LocalTo, Resting, Then
<1>2. CASE Drop(b)
  <2>1. Return(b, "idle") /\ "idle" \in Phases BY <1>0, <1>2 DEF Drop, Resting
  <2> QED BY <2>1 DEF LocalTo
<1>3. CASE Prepare(b) \/ Perform(b) \/ Deliver(b) \/ Refuse(b)
  BY <1>0, <1>3 DEF Prepare, Perform, Deliver, Refuse, Refusal, LocalTo, Resting, Admitted,
                    Return, Then
<1>4. CASE Enter(b) \/ Approve(b) \/ Begin(b)
  BY <1>0, <1>4 DEF Enter, Approve, Begin, LocalTo, Resting, Then
<1>5. CASE Bind(b)
  BY <1>0, <1>5 DEF Bind, Input, LocalTo, Resting, Admitted, Return, Then
<1>6. CASE Front(b)
  BY <1>0, <1>6 DEF Front, Input, LocalTo, Resting, Admitted, Return, Then
<1>7. ASSUME NEW inputs, Recover(b, inputs) PROVE LocalTo(b)
  BY <1>0, <1>7 DEF Recover, LocalTo, Resting, Admitted, Return, Then
<1>8. CASE Post(b) \/ Emergency(b)
  BY <1>0, <1>8 DEF Post, Emergency, LocalTo, Resting, Return, Then
<1>9. CASE PostFails(b) \/ PostRefused(b)
  BY <1>7, <1>9 DEF PostFails, PostRefused
<1>10. CASE b = Session /\ (Dispose \/ Settle)
  BY <1>10 DEF Dispose, Settle, Ask, latch, NoRefresh, LocalTo, Steady, TypeOK
<1> QED BY <1>1, <1>2, <1>3, <1>4, <1>5, <1>6, <1>8, <1>9, <1>10 DEF NativeStep, CompatStep

\* Every step keeps what answers are.
LEMMA NextAnswers == TypeOK /\ Answers /\ [Next]_vars => Answers'
<1> SUFFICES ASSUME TypeOK, Answers, [Next]_vars PROVE Answers' OBVIOUS
<1>1. CASE UNCHANGED vars BY <1>1 DEF vars, latch, Answers
<1>2. CASE UserSets
  <2>1. main'.generation = main.generation + 1 /\ UNCHANGED <<mirror, refresh>>
    BY <1>2 DEF UserSets, TypeOK
  <2>2. /\ main.generation \in Nat /\ mirror.authority \in Nat \cup {NoAuthority}
        /\ \A a \in Actors : refresh[a].generation \in Nat
    BY DEF TypeOK
  <2>3. mirror'.authority <= main'.generation
    <3>1. mirror.authority <= main.generation BY DEF Answers
    <3>2. NoAuthority \in Int BY DEF NoAuthority
    <3> QED BY <2>1, <2>2, <3>1, <3>2
  <2>4. ASSUME NEW a \in Actors, refresh[a].state \in {"answered", "done"}
        PROVE  refresh[a].generation < main'.generation
    <3>1. refresh[a].generation <= main.generation BY <2>4 DEF Answers
    <3> QED BY <2>1, <2>2, <3>1
  <2> QED BY <2>1, <2>2, <2>3, <2>4 DEF Answers
<1>3. ASSUME NEW a \in Actors, Serve(a) PROVE Answers'
  BY <1>3 DEF Serve, Answers, TypeOK
<1>4. ASSUME NEW a \in Actors, Apply(a) PROVE Answers'
  <2>1. refresh[a] \in Refreshes BY DEF TypeOK, Refreshes
  <2>2. mirror'.authority = refresh[a].generation /\ mirror'.reason # "unreachable"
    BY <1>4, <2>1 DEF Apply, Synchronize, ReasonOf, TypeOK
  <2> QED BY <1>4, <2>2 DEF Apply, Answers, TypeOK
<1>5. ASSUME NEW a \in Actors, Fail(a) PROVE Answers'
  <2>1. mirror'.authority = mirror.authority /\ (mirror'.reason = "unreachable" => mirror'.paused)
    BY <1>5 DEF Fail, Pause, Answers, TypeOK
  <2> QED BY <1>5, <2>1 DEF Fail, NoRefresh, Answers, TypeOK
<1>6. ASSUME NEW b \in Actors, LocalTo(b) PROVE Answers'
  BY <1>6, SteadyAnswers DEF LocalTo
<1> QED BY <1>1, <1>2, <1>3, <1>4, <1>5, <1>6, StepsLocal DEF Next, Actors

\* The step of a call keeps its own consent.
LEMMA OwnConsent ==
  ASSUME TypeOK, Answers, NEW a \in Acting, Consent(a),
         \/ StartCall(a) \/ Drop(a)
         \/ a \in Native /\ NativeStep(a)
         \/ a \in Compat /\ CompatStep(a)
  PROVE  Consent(a)'
<1>0. a \in Actors BY DEF Acting, Actors
<1>1. Resting \cup {"gate", "entry", "queued", "begin"} \cup Admitted \subseteq Phases
      /\ "idle" \in Resting /\ Refusal \in Resting
  BY DEF Phases, Resting, Refusal
<1>2. ASSUME NEW phase \in Phases \ Admitted,
             Asking(a, phase) \/ Then(a, phase) \/ Return(a, phase)
      PROVE  Consent(a)'
  BY <1>0, <1>2, CallLocal, OutsideConsent
<1>3. {"idle", "discarded", "gate", "entry", "queued", "begin"} \cap Admitted = {}
  BY DEF Admitted
<1>4. CASE StartCall(a) \/ Drop(a)
  BY <1>1, <1>2, <1>3, <1>4 DEF StartCall, Drop
<1>5. CASE Prepare(a)
  BY <1>0, <1>1, <1>5, CallLocal, AdmitConsent DEF Prepare, Then, Asking, Admitted
<1>6. CASE Perform(a)
  BY <1>0, <1>1, <1>6, AskingConsent DEF Perform, Admitted
<1>7. CASE Deliver(a) \/ Refuse(a)
  BY <1>1, <1>2, <1>3, <1>7 DEF Deliver, Refuse, Resting
<1>8. CASE Enter(a) \/ Approve(a) \/ Begin(a)
  BY <1>1, <1>2, <1>3, <1>8 DEF Enter, Approve, Begin
<1>9. CASE Bind(a)
  <2>1. CASE mirror.paused
    BY <1>1, <1>2, <1>3, <1>9, <2>1 DEF Bind
  <2>2. CASE ~mirror.paused
    <3>1. PICK phase \in {"front", "post"} : Asking(a, phase)
      BY <1>9, <2>2 DEF Bind, Input
    <3>2. phase \in Phases BY <1>1 DEF Admitted
    <3> QED BY <1>0, <1>9, <2>2, <3>1, <3>2, CallLocal, AdmitConsent DEF Bind
  <2> QED BY <2>1, <2>2
<1>10. CASE Front(a)
  BY <1>0, <1>1, <1>2, <1>3, <1>10, AskingConsent DEF Front, Input, Admitted
<1>11. CASE Post(a) \/ Emergency(a)
  BY <1>1, <1>2, <1>3, <1>11 DEF Post, Emergency
<1>12. CASE PostFails(a) \/ PostRefused(a)
  BY <1>0, <1>1, <1>2, <1>3, <1>12, AskingConsent DEF PostFails, PostRefused, Recover, Admitted
<1> QED BY <1>4, <1>5, <1>6, <1>7, <1>8, <1>9, <1>10, <1>11, <1>12 DEF NativeStep, CompatStep

\* Every step keeps the consent of every action.
LEMMA NextConsent ==
  ASSUME TypeOK, Answers, NEW a \in Acting, Consent(a), [Next]_vars
  PROVE  Consent(a)'
<1>0. a \in Actors /\ a # Session BY TakeoverAssumption DEF Acting, Actors
<1>1. CASE UNCHANGED vars BY <1>1, SteadyConsent DEF vars, latch, Steady
<1>2. CASE UserSets BY <1>2, UserConsent
<1>3. ASSUME NEW b \in Actors, Serve(b) \/ Apply(b) \/ Fail(b) PROVE Consent(a)'
  BY <1>3, ServeConsent, ApplyConsent, FailConsent DEF Answers
<1>4. ASSUME NEW b \in Actors, b # a, LocalTo(b) PROVE Consent(a)'
  BY <1>0, <1>4, SteadyConsent DEF LocalTo
<1> QED BY <1>0, <1>1, <1>2, <1>3, <1>4, StepsLocal, OwnConsent DEF Next, Actors, Acting

\* An action whose refresh passes the guard has main's own word for it.
LEMMA PassesVouched ==
  ASSUME TypeOK, NEW a \in Acting, Consent(a), pc[a] \in Asked, Refreshed(a), Passes(a)
  PROVE  Vouched(a)
<1>1. a \in Actors BY DEF Acting, Actors
<1>2. since[a] \in Nat /\ refresh[a].generation \in Nat BY <1>1 DEF TypeOK
<1>3. pc[a] \in Admitted BY DEF Asked, Admitted
<1>4. refresh[a].state = "done" BY <1>3 DEF Consent, Refreshed
<1> QED BY <1>2, <1>3, <1>4 DEF Consent, Vouched

\* No step delivers input that main has not allowed.
LEMMA NextDelivered ==
  ASSUME TypeOK, \A a \in Acting : Consent(a), DeliveredUnderConsent, [Next]_vars
  PROVE  DeliveredUnderConsent'
<1> USE DEF DeliveredUnderConsent
<1>1. ASSUME NEW a \in Acting, pc[a] \in Asked, Refreshed(a), Passes(a), Delivered(a)
      PROVE  unvouched' = {}
  BY <1>1, PassesVouched DEF Delivered
<1>2. ASSUME NEW n \in Native, NativeStep(n) PROVE unvouched' = {}
  BY <1>1, <1>2 DEF NativeStep, Prepare, Perform, Deliver, Refuse, Acting, Asked
<1>3. ASSUME NEW c \in Compat, CompatStep(c) PROVE unvouched' = {}
  BY <1>1, <1>3 DEF CompatStep, Enter, Approve, Begin, Bind, Front, Post, PostFails,
                    PostRefused, Emergency, Acting, Asked
<1> QED BY <1>2, <1>3 DEF Next, vars, UserSets, Serve, Apply, Fail, StartCall, Drop,
                          Dispose, Settle

-----------------------------------------------------------------------------
(* No discard without a cause. *)

\* An answer that is main's state of now tells an undisturbed mirror nothing.
LEMMA ApplyInSync ==
  ASSUME TypeOK, Answers, InSync, NEW b \in Actors, Apply(b),
         refresh[b].generation = main.generation
  PROVE  InSync' /\ mirror'.generation = mirror.generation
<1>1. refresh[b] \in Refreshes /\ refresh[b].paused = main.paused
  BY DEF Apply, Answers, TypeOK, Refreshes
<1>2. mirror.authority # NoAuthority BY DEF InSync, TypeOK, NoAuthority
<1>3. ~Changed(refresh[b]) BY <1>1, <1>2 DEF Changed, InSync
<1>4. /\ mirror'.generation = mirror.generation /\ mirror'.authority = main.generation
      /\ mirror'.paused = main.paused /\ mirror'.reason = ReasonOf(main.paused)
  BY <1>1, <1>3 DEF Apply, Synchronize, TypeOK
<1>5. \A a \in Actors : refresh'[a].state = "answered" =>
        refresh'[a].generation = main.generation
  BY DEF Apply, InSync, TypeOK
<1> QED BY <1>4, <1>5 DEF Apply, InSync

\* A local step keeps main and its mirror in step.
LEMMA LocalInSync ==
  ASSUME InSync, NEW b \in Actors, LocalTo(b)
  PROVE  InSync' /\ mirror'.generation = mirror.generation
BY DEF InSync, LocalTo, Steady

\* A step that gives everyone a cause leaves nobody undisturbed.
LEMMA DisturbKeeps ==
  ASSUME TypeOK, DiscardHasCause, Disturb, pc' = pc
  PROVE  Undisturbed' /\ DiscardHasCause'
BY DEF Disturb, Undisturbed, DiscardHasCause

\* A local step of another call keeps what is undisturbed.
LEMMA ElsewhereKeeps ==
  ASSUME TypeOK, Undisturbed, DiscardHasCause, NEW b \in Actors, LocalTo(b),
         \A n \in Native : cause'[n] = cause[n] \/ n = b,
         b \in Native =>
           /\ pc'[b] = "discarded" => cause'[b]
           /\ pc'[b] \in {"prepared", "final"} /\ ~cause'[b] =>
                InSync /\ admitted'[b] = mirror.generation
  PROVE  Undisturbed' /\ DiscardHasCause'
<1>1. ASSUME NEW n \in Native, pc'[n] \in {"prepared", "final"}, ~cause'[n]
      PROVE  InSync' /\ admitted'[n] = mirror'.generation
  <2>1. InSync /\ admitted'[n] = mirror.generation
    BY <1>1 DEF Undisturbed, LocalTo, Actors
  <2> QED BY <2>1, LocalInSync
<1>2. ASSUME NEW n \in Native, pc'[n] = "discarded" PROVE cause'[n]
  BY <1>2 DEF DiscardHasCause, LocalTo, Actors
<1> QED BY <1>1, <1>2 DEF Undisturbed, DiscardHasCause

\* A native action is discarded only when it was disturbed.
LEMMA NativeKeeps ==
  ASSUME TypeOK, Undisturbed, DiscardHasCause, NEW n \in Native,
         NativeStep(n) \/ StartCall(n) \/ Drop(n)
  PROVE  Undisturbed' /\ DiscardHasCause'
<1>0. n \in Actors /\ n # Session /\ LocalTo(n)
  BY StepsLocal, TakeoverAssumption DEF Actors
<1>1. CASE Prepare(n)
  BY <1>0, <1>1, ElsewhereKeeps DEF Prepare, Then, Goto, Admit, TypeOK
<1>2. CASE Perform(n)
  BY <1>0, <1>2, ElsewhereKeeps DEF Perform, Asking, Goto, Undisturbed, TypeOK
<1>3. CASE Deliver(n)
  BY <1>0, <1>3, ElsewhereKeeps DEF Deliver, Return, Then, Goto, TypeOK
<1>4. CASE Refuse(n)
  <2>1. Refusal = "discarded" => cause[n]
    BY <1>0, <1>4 DEF Refuse, Refusal, Passes, Undisturbed
  <2>2. pc'[n] = Refusal /\ Refusal \in {"idle", "discarded"}
    BY <1>0, <1>4 DEF Refuse, Return, Then, Goto, Refusal, TypeOK
  <2>3. (Refusal = "discarded" => cause'[n]) /\ \A m \in Native \ {n} : cause'[m] = cause[m]
    BY <1>4, <2>1 DEF Refuse, TypeOK
  <2> QED BY <1>0, <2>2, <2>3, ElsewhereKeeps
<1>5. CASE StartCall(n)
  BY <1>0, <1>5, ElsewhereKeeps DEF StartCall, Asking, Goto, TypeOK
<1>6. CASE Drop(n)
  BY <1>0, <1>6, ElsewhereKeeps DEF Drop, Return, Then, Goto, TypeOK
<1> QED BY <1>1, <1>2, <1>3, <1>4, <1>5, <1>6 DEF NativeStep

\* Every step keeps what is undisturbed, and discards nothing without a cause.
LEMMA NextUndisturbed ==
  ASSUME TypeOK, Answers, Undisturbed, DiscardHasCause, [Next]_vars
  PROVE  Undisturbed' /\ DiscardHasCause'
<1>1. CASE UNCHANGED vars
  BY <1>1 DEF vars, latch, Undisturbed, DiscardHasCause, InSync
<1>2. CASE UserSets BY <1>2, DisturbKeeps DEF UserSets
<1>3. ASSUME NEW b \in Actors, Fail(b) PROVE Undisturbed' /\ DiscardHasCause'
  BY <1>3, DisturbKeeps DEF Fail
<1>4. ASSUME NEW b \in Actors, Serve(b) PROVE Undisturbed' /\ DiscardHasCause'
  <2>1. InSync => InSync' BY <1>4 DEF Serve, InSync, TypeOK
  <2> QED BY <1>4, <2>1 DEF Serve, Undisturbed, DiscardHasCause
<1>5. ASSUME NEW b \in Actors, Apply(b) PROVE Undisturbed' /\ DiscardHasCause'
  <2>1. CASE refresh[b].generation # main.generation
    BY <1>5, <2>1, DisturbKeeps DEF Apply
  <2>2. CASE refresh[b].generation = main.generation
    BY <1>5, <2>2, ApplyInSync DEF Apply, Undisturbed, DiscardHasCause
  <2> QED BY <2>1, <2>2
<1>6. ASSUME NEW c \in Compat, CompatStep(c) \/ StartCall(c) \/ Drop(c)
      PROVE  Undisturbed' /\ DiscardHasCause'
  <2>1. c \notin Native /\ c \in Actors BY TakeoverAssumption DEF Actors
  <2>2. cause' = cause
    BY <1>6, <2>1 DEF CompatStep, Enter, Approve, Begin, Bind, Front, Post, PostFails,
                      PostRefused, Emergency, StartCall, Drop
  <2> QED BY <1>6, <2>1, <2>2, StepsLocal, ElsewhereKeeps
<1>7. CASE Dispose \/ Settle
  <2>1. Session \notin Native /\ Session \in Actors BY TakeoverAssumption DEF Actors
  <2>2. cause' = cause BY <1>7 DEF Dispose, Settle
  <2> QED BY <1>7, <2>1, <2>2, StepsLocal, ElsewhereKeeps
<1> QED BY <1>1, <1>2, <1>3, <1>4, <1>5, <1>6, <1>7, NativeKeeps DEF Next

-----------------------------------------------------------------------------
(* The button. *)

\* What the steps that are not of a compatibility session leave alone.
LEMMA HandsOff ==
  ASSUME Alone, Noted, HeldIsRecorded, UNCHANGED <<hands, session, kind>>,
         \A c \in Compat : pc'[c] = pc[c] \/ pc'[c] \notin Running
  PROVE  Alone' /\ Noted' /\ HeldIsRecorded'
BY DEF Alone, Noted, HeldIsRecorded, hands, Running

\* Where a compatibility action goes next.
LEMMA CompatPhases ==
  ASSUME TypeOK, NEW c \in Compat
  PROVE  /\ \A phase : Asking(c, phase) \/ Then(c, phase) \/ Return(c, phase) =>
                pc'[c] = phase /\ \A d \in Compat \ {c} : pc'[d] = pc[d]
         /\ Input(c) =>
              /\ pc'[c] = "post" /\ \A d \in Compat \ {c} : pc'[d] = pc[d]
              /\ held => held'
              /\ kind'[c] \in Recorded => held'
BY DEF Asking, Then, Return, Goto, Input, NoteDown, Actors, TypeOK

\* A step of the one action that runs keeps it alone.
LEMMA StaysAlone ==
  ASSUME Alone, NEW c \in Compat, session' = session,
         pc[c] \in Running \/ pc'[c] \notin Running,
         \A d \in Compat \ {c} : pc'[d] = pc[d]
  PROVE  Alone'
BY DEF Alone

\* Its input is noted, when the record follows what it is about to do.
LEMMA StaysNoted ==
  ASSUME Alone, NEW c \in Compat, pc[c] \in Running,
         \A d \in Compat \ {c} : pc'[d] = pc[d],
         pc'[c] = "post" => (kind'[c] \in Recorded => held')
  PROVE  Noted'
BY DEF Alone, Noted, Running

\* A step that ends or goes on with an action, and leaves the button alone, keeps
\* it on the record.
LEMMA ButtonAlone ==
  ASSUME Alone, HeldIsRecorded, NEW c \in Compat, pc[c] \in Running,
         UNCHANGED <<button, lost, session>>, held => held',
         \A d \in Compat \ {c} : pc'[d] = pc[d],
         pc'[c] = "post" => (kind'[c] \in Recorded => held')
  PROVE  Alone' /\ Noted' /\ HeldIsRecorded'
BY StaysAlone, StaysNoted DEF HeldIsRecorded

\* What a helper does to the button leaves it down as "kept" only when it was, or
\* when pointerPrimitive has recorded it.
LEMMA ButtonStays ==
  ASSUME TypeOK, Noted, HeldIsRecorded, NEW c \in Compat, pc[c] = "post",
         Found, session' = session, held' = held, button' \in Within(c)
  PROVE  HeldIsRecorded'
<1>1. button' = "kept" => button = "kept" \/ kind[c] \in Recorded
  BY DEF Within, After, Down
<1>2. button' = "kept" => lost' = lost BY DEF Found
<1> QED BY <1>1, <1>2 DEF HeldIsRecorded, Noted

\* A compatibility action keeps the button on the record.
LEMMA CompatButton ==
  ASSUME TypeOK, Alone, Noted, HeldIsRecorded, NEW c \in Compat, CompatStep(c)
  PROVE  Alone' /\ Noted' /\ HeldIsRecorded'
<1>1. CASE Enter(c)
  BY <1>1, CompatPhases, HandsOff DEF Enter, Running
<1>2. CASE Approve(c)
  BY <1>2, CompatPhases, HandsOff DEF Approve, Running
<1>3. CASE Begin(c)
  <2>1. pc'[c] = "begin" /\ \A d \in Compat \ {c} : pc'[d] = pc[d]
    BY <1>3, CompatPhases DEF Begin
  <2>2. \A d \in Compat \ {c} : pc'[d] \notin Running
    BY <1>3, <2>1 DEF Begin, ArbiterFree
  <2>3. Alone' BY <1>3, <2>1, <2>2 DEF Begin, Alone
  <2>4. Noted' BY <2>1, <2>2 DEF Noted, Running
  <2>5. session # "settling" /\ UNCHANGED hands BY <1>3 DEF Begin, ArbiterFree
  <2> QED BY <2>3, <2>4, <2>5 DEF HeldIsRecorded, hands
<1>4. CASE Bind(c)
  <2>1. pc[c] \in Running BY <1>4 DEF Bind, Running
  <2>2. UNCHANGED <<button, lost, session>> BY <1>4 DEF Bind
  <2>3. \/ Input(c)
        \/ (Asking(c, "front") \/ Return(c, "idle")) /\ UNCHANGED held
    BY <1>4, Zenon DEF Bind
  <2> QED BY <2>1, <2>2, <2>3, CompatPhases, ButtonAlone
<1>5. CASE Front(c)
  <2>1. pc[c] \in Running BY <1>5 DEF Front, Running
  <2>2. UNCHANGED <<button, lost, session>> BY <1>5 DEF Front
  <2>3. Input(c) \/ (Return(c, "idle") /\ UNCHANGED held) BY <1>5, Zenon DEF Front
  <2> QED BY <2>1, <2>2, <2>3, CompatPhases, ButtonAlone
<1>6. CASE Post(c) \/ Emergency(c)
  <2>1. pc[c] \in Running /\ Found /\ session' = session
    BY <1>6 DEF Post, Emergency, Running
  <2>2. pc'[c] = "idle" /\ \A d \in Compat \ {c} : pc'[d] = pc[d]
    <3>1. Return(c, "idle") BY <1>6 DEF Post, Emergency
    <3> QED BY <3>1, CompatPhases
  <2>3. Alone' /\ Noted' BY <2>1, <2>2, StaysAlone, StaysNoted DEF Running
  <2>4. CASE Post(c)
    <3>1. pc[c] = "post" /\ button' \in After(c) BY <2>4 DEF Post
    <3>2. CASE kind[c] \in {"hold", "release"}
      <4>1. button' = "up" BY <3>1, <3>2 DEF After
      <4> QED BY <2>3, <4>1 DEF HeldIsRecorded
    <3>3. CASE kind[c] \notin {"hold", "release"}
      <4>1. held' = held
        <5>1. held' = (held /\ kind[c] \notin {"hold", "release"}) BY <2>4 DEF Post
        <5>2. held \in BOOLEAN BY DEF TypeOK
        <5> QED BY <3>3, <5>1, <5>2, Zenon
      <4>2. button' \in Within(c) BY <3>1 DEF Within
      <4> QED BY <2>1, <2>3, <3>1, <4>1, <4>2, ButtonStays
    <3> QED BY <3>2, <3>3
  <2>5. CASE Emergency(c)
    <3>1. button' = "up" \/ (button' = button /\ held' = held) BY <2>5, Zenon DEF Emergency
    <3>2. button' = "kept" => lost' = lost BY <2>1 DEF Found
    <3> QED BY <2>1, <2>3, <3>1, <3>2 DEF HeldIsRecorded
  <2> QED BY <1>6, <2>4, <2>5
<1>7. CASE PostFails(c) \/ PostRefused(c)
  <2>1. pc[c] \in Running /\ pc[c] = "post" BY <1>7 DEF PostFails, PostRefused, Running
  <2>2. session' = session /\ held' = held BY <1>7 DEF PostFails, PostRefused, hands
  <2>3. Return(c, "idle") \/ Asking(c, "emergency")
    BY <1>7 DEF PostFails, PostRefused, Recover
  <2>4. pc'[c] # "post" /\ \A d \in Compat \ {c} : pc'[d] = pc[d]
    BY <2>3, CompatPhases
  <2>5. Alone' /\ Noted' BY <2>1, <2>2, <2>4, StaysAlone, StaysNoted
  <2>6. CASE PostFails(c)
    BY <2>1, <2>2, <2>5, <2>6, ButtonStays DEF PostFails
  <2>7. CASE PostRefused(c)
    BY <2>2, <2>5, <2>7 DEF PostRefused, HeldIsRecorded, hands
  <2> QED BY <1>7, <2>6, <2>7
<1> QED BY <1>1, <1>2, <1>3, <1>4, <1>5, <1>6, <1>7 DEF CompatStep

\* Every step keeps the button on the record.
LEMMA NextButton ==
  ASSUME TypeOK, Alone, Noted, HeldIsRecorded, [Next]_vars
  PROVE  Alone' /\ Noted' /\ HeldIsRecorded'
<1>1. CASE UNCHANGED vars BY <1>1, HandsOff DEF vars
<1>2. CASE UserSets \/ \E a \in Actors : Serve(a) \/ Apply(a) \/ Fail(a)
  BY <1>2, HandsOff DEF UserSets, Serve, Apply, Fail
<1>3. ASSUME NEW a \in Actors, StartCall(a) PROVE Alone' /\ Noted' /\ HeldIsRecorded'
  <2>1. \A c \in Compat : pc'[c] = pc[c] \/ pc'[c] = "gate"
    BY <1>3 DEF StartCall, Asking, Goto, Actors, TypeOK
  <2> QED BY <1>3, <2>1, HandsOff DEF StartCall, Running
<1>4. ASSUME NEW a \in Actors, Drop(a) PROVE Alone' /\ Noted' /\ HeldIsRecorded'
  <2>1. /\ \A c \in Compat : (pc'[c] = pc[c] /\ kind'[c] = kind[c]) \/ pc'[c] = "idle"
        /\ UNCHANGED <<hands, session>>
    BY <1>4 DEF Drop, Return, Then, Goto, Actors, TypeOK
  <2> QED BY <2>1 DEF Alone, Noted, HeldIsRecorded, hands, Running
<1>5. ASSUME NEW n \in Native, NativeStep(n) PROVE Alone' /\ Noted' /\ HeldIsRecorded'
  <2>1. \A c \in Compat : c # n /\ c \in Actors BY TakeoverAssumption DEF Actors
  <2>2. \A c \in Compat : pc'[c] = pc[c] /\ kind'[c] = kind[c]
    BY <1>5, <2>1 DEF NativeStep, Prepare, Perform, Deliver, Refuse, Asking, Return, Then,
                      Goto, TypeOK
  <2>3. UNCHANGED <<hands, session>>
    BY <1>5 DEF NativeStep, Prepare, Perform, Deliver, Refuse
  <2> QED BY <2>2, <2>3 DEF Alone, Noted, HeldIsRecorded, hands
<1>6. CASE Dispose
  <2>1. \A c \in Compat : pc'[c] \notin Running BY <1>6 DEF Dispose, ArbiterFree
  <2>2. Alone' /\ Noted' BY <2>1 DEF Alone, Noted, Running
  <2> QED BY <1>6, <2>2 DEF Dispose, HeldIsRecorded
<1>7. CASE Settle
  <2>1. Alone' BY <1>7 DEF Settle, Alone
  <2>2. Noted' BY <1>7 DEF Settle, Noted
  <2> QED BY <1>7, <2>1, <2>2 DEF Settle, Still, HeldIsRecorded
<1> QED BY <1>1, <1>2, <1>3, <1>4, <1>5, <1>6, <1>7, CompatButton DEF Next, Actors

-----------------------------------------------------------------------------
(* The theorems. *)

\* The invariant is inductive.
LEMMA Inductive == (Init => IInv) /\ (IInv /\ [Next]_vars => IInv')
<1>1. ASSUME Init PROVE IInv
  <2>1. TypeOK BY <1>1, InitType
  <2>2. \A a \in Actors : pc[a] = "idle" /\ refresh[a].state = "none"
    BY <1>1 DEF Init, NoRefresh
  <2>3. Answers
    <3>1. mirror.authority <= main.generation BY <1>1 DEF Init, NoAuthority
    <3>2. mirror.reason = "none" BY <1>1 DEF Init
    <3> QED BY <2>2, <3>1, <3>2 DEF Answers
  <2>4. \A a \in Acting : Consent(a) BY <2>2 DEF Acting, Actors, Consent, Admitted
  <2>5. DeliveredUnderConsent /\ HeldIsRecorded
    BY <1>1 DEF Init, DeliveredUnderConsent, HeldIsRecorded
  <2>6. Undisturbed /\ DiscardHasCause
    BY <2>2 DEF Actors, Undisturbed, DiscardHasCause
  <2>7. Alone /\ Noted BY <2>2 DEF Actors, Alone, Noted, Running
  <2> QED BY <2>1, <2>3, <2>4, <2>5, <2>6, <2>7 DEF IInv
<1>2. ASSUME IInv, [Next]_vars PROVE IInv'
  <2>1. TypeOK' BY <1>2, NextType DEF IInv
  <2>2. Answers' BY <1>2, NextAnswers DEF IInv
  <2>3. \A a \in Acting : Consent(a)' BY <1>2, NextConsent DEF IInv
  <2>4. DeliveredUnderConsent' BY <1>2, NextDelivered DEF IInv
  <2>5. Undisturbed' /\ DiscardHasCause' BY <1>2, NextUndisturbed DEF IInv
  <2>6. Alone' /\ Noted' /\ HeldIsRecorded' BY <1>2, NextButton DEF IInv
  <2>7. Acting' = Acting BY DEF Acting
  <2> QED BY <2>1, <2>2, <2>3, <2>4, <2>5, <2>6, <2>7 DEF IInv
<1> QED BY <1>1, <1>2

\* The invariant holds of every reachable state.
LEMMA Invariant == Spec => []IInv
BY Inductive, PTL DEF Spec

\* The state keeps its shape (Takeover's variables).
THEOREM TakeoverTypeCorrect == Spec => []TypeOK
<1>1. IInv => TypeOK BY DEF IInv
<1> QED BY Invariant, <1>1, PTL

\* Whatever the refreshes that overlap write to the shared mirror, input goes
\* out only on main's own "running", with no takeover since the admission
\* (requireInputAvailable, TakeoverMutationGuard.require).
THEOREM InputAlwaysUnderConsent == Spec => []DeliveredUnderConsent
<1>1. IInv => DeliveredUnderConsent BY DEF IInv
<1> QED BY Invariant, <1>1, PTL

\* A prepared native action is discarded for a takeover only when there was
\* one, or a refresh failed, or the mirror was behind main when it was
\* prepared (refreshTakeoverAuthority, synchronizeAuthority).
THEOREM DiscardAlwaysHasCause == Spec => []DiscardHasCause
<1>1. IInv => DiscardHasCause BY DEF IInv
<1> QED BY Invariant, <1>1, PTL

\* A mouse button that pointerPrimitive put down is, until it comes up, one that
\* dispose or mouse_up will find, or that dispose has reported as lost.  Of clicks,
\* drags and pointer verbs without a target or a driver it says nothing.
THEOREM HeldAlwaysRecorded == Spec => []HeldIsRecorded
<1>1. IInv => HeldIsRecorded BY DEF IInv
<1> QED BY Invariant, <1>1, PTL
=============================================================================

---------------------------- MODULE OutcomesProof ----------------------------
(***************************************************************************)
(* Theorems about Outcomes, for any tasks, dependencies and limits.        *)
(*                                                                          *)
(* IInv adds to the invariants what they lean on: what the contract says of *)
(* itself is so in memory and on disk, since either may be the one that    *)
(* goes on after a /clear or a crash; and what a wake in progress has left *)
(* to tell it will be told.                                                *)
(***************************************************************************)
EXTENDS Outcomes, TLAPS

\* Of a contract with these tasks, phase and freshness: it is verified only
\* when fresh, and a result that is not merged, of a task that is done or in a
\* verified contract, is one the model called done.
Sound(tasks, itsPhase, itsFresh) ==
  /\ itsPhase = "verified" => itsFresh
  /\ \A t \in Tasks :
       tasks[t].unmerged /\ (Done(tasks[t]) \/ itsPhase = "verified") => t \in forced

SoundInMemory == Sound(task, phase, fresh)
SoundOnDisk == Sound(saved.task, saved.phase, saved.fresh)

\* A fresh contract has not kept a change later than its check.
FreshIsSeen == fresh => code # "changed"

Truth == FreshIsSeen /\ SoundInMemory /\ SoundOnDisk

\* While a wake is under way its continuation is claimed, the loop has not run
\* out of progress, and what settled since then has raised the revision.
WakeIsClaimed ==
  turn = "wake" =>
    /\ cont.state \in {"pending", "running"}
    /\ cont.barren < NoProgressLimit
    /\ Exhausted \/ cont.newer \/ untold = {}

IInv ==
  /\ TypeOK
  /\ Truth
  /\ WakeIsClaimed /\ NoResultForgotten

\* The tool calls of a turn, on one task.
TaskTool(t) ==
  \/ RetryTask(t) \/ ValidateTask(t) \/ IntegrateTask(t)
  \/ \E status \in Statuses, owner \in 0..Named : UpdateTask(t, status, owner)

\* The other steps that change the evidence, the phase or the disk alone.
Evidence ==
  \/ Mutate \/ MutateElsewhere \/ Check(TRUE) \/ Check(FALSE) \/ RequestFinish \/ Save

-----------------------------------------------------------------------------
(* Types. *)

\* What the type says of the contract in memory.
LEMMA MemoryType ==
  Kept \in Contracts <=>
    /\ task \in [Tasks -> TaskStates] /\ phase \in {"open", "verified"}
    /\ fresh \in BOOLEAN /\ vouched \subseteq Tasks
BY DEF Kept, Contracts

\* So it does after a step.
LEMMA NextMemoryType ==
  Kept' \in Contracts <=>
    /\ task' \in [Tasks -> TaskStates] /\ phase' \in {"open", "verified"}
    /\ fresh' \in BOOLEAN /\ vouched' \subseteq Tasks
BY DEF Kept, Contracts

\* The initial state has its type.
LEMMA InitType == Init => TypeOK
<1>1. NoTask \in TaskStates /\ NoCont \in ContStates
  BY OutcomesAssumption DEF NoTask, NoCont, TaskStates, ContStates, Statuses, Named
<1>2. Init => Kept \in Contracts /\ saved \in Contracts /\ cont \in ContStates
  <2>1. Init => task \in [Tasks -> TaskStates] BY <1>1 DEF Init
  <2>2. Init => Kept \in Contracts BY <2>1, MemoryType DEF Init
  <2> QED BY <1>1, <2>2 DEF Init
<1>3. Init => spawned \in 0..MaxSpawns
  BY OutcomesAssumption DEF Init
<1> QED BY <1>2, <1>3 DEF Init, TypeOK

\* update_task writes an owner the type knows.
LEMMA OwnerType ==
  ASSUME TypeOK, NEW update \in Updates
  PROVE  update.task \in Tasks /\ update.status \in Statuses /\ OwnerOf(update) \in 0..Named
<1>1. /\ update.task \in Tasks /\ update.owner \in {"not given", "nobody", "named"}
      /\ update.status \in Statuses
  BY UpdatesAssumption DEF Statuses
<1>2. task[update.task].owner \in 0..Named
  BY <1>1, MemoryType DEF TypeOK, TaskStates
<1>3. 0 \in 0..Named /\ Named \in 0..Named
  BY OutcomesAssumption DEF Named
<1> QED BY <1>1, <1>2, <1>3 DEF OwnerOf

\* Every call on a task is one of these steps.
LEMMA NextTaskTool ==
  ASSUME TypeOK, NEW update \in Updates,
         UpdateTask(update.task, update.status, OwnerOf(update))
  PROVE  \E t \in Tasks : TaskTool(t)
BY OwnerType DEF TaskTool

\* Update writes a task of the right type and a known phase.
LEMMA UpdateType ==
  ASSUME TypeOK, NEW t \in Tasks, NEW status \in Statuses, NEW owner \in 0..Named,
         Update(t, status, owner), fresh' = fresh
  PROVE  Kept' \in Contracts
<1>1. /\ task \in [Tasks -> TaskStates] /\ phase \in {"open", "verified"}
      /\ fresh \in BOOLEAN /\ vouched \subseteq Tasks
  BY MemoryType DEF TypeOK
<1>2. task' \in [Tasks -> TaskStates]
  BY <1>1 DEF Update, With, TaskStates
<1> QED BY <1>1, <1>2, NextMemoryType DEF Update, PhaseOf

\* The tools of a turn keep the type.
LEMMA ToolsType ==
  ASSUME TypeOK, NEW t \in Tasks, TaskTool(t)
  PROVE  TypeOK'
<1>0. /\ task[t].owner \in 0..Named /\ 0 \in 0..Named
      /\ {"pending", "verified"} \subseteq Statuses
  BY MemoryType, OutcomesAssumption DEF TypeOK, TaskStates, Statuses, Named
<1>1. ASSUME RetryTask(t) \/ ValidateTask(t) PROVE TypeOK'
  <2>1. Kept' \in Contracts
    BY <1>0, <1>1, UpdateType DEF RetryTask, ValidateTask
  <2> QED BY <1>1, <2>1 DEF RetryTask, ValidateTask, Touch, ToolFrame, Frame, loop, TypeOK
<1>2. CASE IntegrateTask(t)
  <2>1. Kept' \in Contracts
    BY <1>2, MemoryType, NextMemoryType DEF IntegrateTask, CodeChanged, TypeOK, TaskStates
  <2> QED BY <1>2, <2>1 DEF IntegrateTask, CodeChanged, SaveNow, ToolFrame, Frame, loop, TypeOK
<1>3. ASSUME NEW status \in Statuses, NEW owner \in 0..Named, UpdateTask(t, status, owner)
      PROVE  TypeOK'
  <2>1. Kept' \in Contracts
    BY <1>3, UpdateType DEF UpdateTask
  <2> QED BY <1>3, <2>1 DEF UpdateTask, Frame, loop, TypeOK
<1> QED BY <1>1, <1>2, <1>3 DEF TaskTool

\* Changes, checks, the gate and the timer of the save keep the type.
LEMMA EvidenceType ==
  ASSUME TypeOK, Evidence
  PROVE  TypeOK'
<1> USE MemoryType, NextMemoryType DEF Touch, ToolFrame, Frame, loop, TypeOK
<1>1. CASE Mutate BY <1>1 DEF Mutate, CodeChanged
<1>2. CASE MutateElsewhere BY <1>2 DEF MutateElsewhere, contract, memory
<1>3. ASSUME NEW ok \in BOOLEAN, Check(ok) PROVE TypeOK'
  BY <1>3 DEF Check
<1>4. CASE RequestFinish BY <1>4 DEF RequestFinish
<1>5. CASE Save BY <1>5 DEF Save, SaveNow, memory
<1> QED BY <1>1, <1>2, <1>3, <1>4, <1>5 DEF Evidence

\* Assignments and resumptions keep the type.
LEMMA AssignType ==
  ASSUME TypeOK, NEW t \in Tasks, NEW owner \in 1..MaxSpawns,
         Assign(t) \/ ResumeAssignment(t, owner)
  PROVE  TypeOK'
<1> USE OutcomesAssumption
<1>1. spawned' \in 0..MaxSpawns /\ flight' \subseteq Tasks \X (1..spawned')
      /\ crashed' \subseteq Tasks \X (1..spawned')
  BY DEF Assign, ResumeAssignment, Fly, TypeOK
<1>2. spawned + 1 \in 0..Named BY DEF Assign, ResumeAssignment, Fly, TypeOK, Named
<1>3. Kept' \in Contracts /\ SaveNow /\ UNCHANGED cont
  <2>1. /\ task \in [Tasks -> TaskStates] /\ fresh \in BOOLEAN /\ vouched \subseteq Tasks
    BY MemoryType DEF TypeOK
  <2>2. task' \in [Tasks -> TaskStates]
    BY <1>2, <2>1 DEF Assign, ResumeAssignment, Dispatchable, Bind, TaskStates, Statuses
  <2> QED BY <2>1, <2>2, NextMemoryType DEF Assign, ResumeAssignment, Bind
<1> QED BY <1>1, <1>3 DEF Assign, ResumeAssignment, SaveNow, loop, history, TypeOK

\* A settlement that the contract refuses changes nothing of it; one that it
\* accepts writes a task that is completed or failed and has an owner.
LEMMA SettleTask ==
  ASSUME TypeOK, NEW t \in Tasks, NEW owner \in 1..MaxSpawns, NEW ok \in BOOLEAN,
         Settle(t, owner, ok)
  PROVE  \/ UNCHANGED <<contract, untold, forced>>
         \/ /\ \E status \in {"completed", "failed"}, unmerged \in BOOLEAN :
                 task' = [task EXCEPT ![t] =
                   [ status |-> status, owner |-> owner, attempts |-> task[t].attempts,
                     unmerged |-> unmerged ]]
            /\ phase' = "open" /\ fresh' = fresh /\ vouched' = vouched \ {t}
            /\ SaveNow /\ forced' = forced \ {t}
            /\ cont' = Requested({t}) /\ untold' = untold \cup {t}
<1>1. Unmerged(t, ok) \subseteq BOOLEAN
  BY MemoryType DEF Unmerged, TypeOK, TaskStates
<1> QED BY <1>1 DEF Settle

\* A settlement keeps the type.
LEMMA SettleType ==
  ASSUME TypeOK, NEW t \in Tasks, NEW owner \in 1..MaxSpawns, NEW ok \in BOOLEAN,
         Settle(t, owner, ok)
  PROVE  TypeOK'
<1> USE OutcomesAssumption
<1>1. /\ task \in [Tasks -> TaskStates] /\ fresh \in BOOLEAN /\ vouched \subseteq Tasks
  BY MemoryType DEF TypeOK
<1>2. owner \in 0..Named BY DEF Named
<1>3. \A status \in {"completed", "failed"}, unmerged \in BOOLEAN :
        [ status |-> status, owner |-> owner, attempts |-> task[t].attempts,
          unmerged |-> unmerged ] \in TaskStates
  BY <1>1, <1>2 DEF TaskStates, Statuses
<1>4. Requested({t}) \in ContStates BY DEF Requested, TypeOK, ContStates
<1>5. /\ Kept' \in Contracts /\ saved' \in Contracts /\ cont' \in ContStates
      /\ untold' \subseteq Tasks /\ forced' \subseteq Tasks
  <2>1. CASE UNCHANGED <<contract, untold, forced>>
    BY <2>1, MemoryType, NextMemoryType DEF contract, memory, TypeOK
  <2>2. ASSUME \E status \in {"completed", "failed"}, unmerged \in BOOLEAN :
                 task' = [task EXCEPT ![t] =
                   [ status |-> status, owner |-> owner, attempts |-> task[t].attempts,
                     unmerged |-> unmerged ]],
               phase' = "open", fresh' = fresh, vouched' = vouched \ {t},
               SaveNow, forced' = forced \ {t},
               cont' = Requested({t}), untold' = untold \cup {t}
        PROVE  /\ Kept' \in Contracts /\ saved' \in Contracts /\ cont' \in ContStates
               /\ untold' \subseteq Tasks /\ forced' \subseteq Tasks
    <3>1. PICK r \in TaskStates : task' = [task EXCEPT ![t] = r]
      BY <1>3, <2>2
    <3>2. task' \in [Tasks -> TaskStates]
      BY <1>1, <3>1
    <3> QED BY <1>1, <1>4, <2>2, <3>2, NextMemoryType DEF SaveNow, TypeOK
  <2> QED BY <2>1, <2>2, SettleTask
<1>6. flight' \subseteq Tasks \X (1..spawned') /\ timer' \in BOOLEAN
  BY DEF Settle, Schedule, TypeOK
<1> QED BY <1>5, <1>6 DEF Settle, TypeOK

\* The loop keeps the type.
LEMMA LoopType ==
  ASSUME TypeOK, Timer \/ EndWake \/ UserTurn
  PROVE  TypeOK'
<1> USE OutcomesAssumption
<1>0. UNCHANGED memory => Kept' = Kept BY DEF memory, Kept
<1>1. CASE TimerIdle BY <1>0, <1>1 DEF TimerIdle, LoopFrame, loop, TypeOK
<1>2. CASE Halt
  <2>1. cont' \in ContStates BY <1>2 DEF Halt, TypeOK, ContStates
  <2> QED BY <1>0, <1>2, <2>1 DEF Halt, LoopFrame, SaveNow, loop, TypeOK
<1>3. CASE Wake
  <2>1. cont \in ContStates /\ cont.wakeups + 1 \in 0..MaxWakeups
    BY <1>3 DEF Wake, Exhausted, TypeOK, ContStates
  <2>2. cont' \in ContStates BY <1>3, <2>1 DEF Wake, ContStates
  <2> QED BY <1>0, <1>3, <2>2 DEF Wake, LoopFrame, SaveNow, loop, TypeOK
<1>4. ASSUME NEW result \in {"progress", "barren", "interrupted"}, WakeEnds(result)
      PROVE  TypeOK'
  <2>1. cont' \in ContStates
    <3>1. \A barren \in Nat : AfterWake(barren) \in ContStates
      BY DEF AfterWake, TypeOK, ContStates
    <3>2. \A c \in ContStates : [c EXCEPT !.state = "pending", !.ids = {}] \in ContStates
      BY DEF ContStates
    <3>3. (IF result = "progress" THEN 0 ELSE cont.barren + 1) \in Nat
      BY DEF TypeOK, ContStates
    <3> QED BY <1>4, <3>1, <3>2, <3>3 DEF WakeEnds, contract, TypeOK
  <2>2. timer' \in BOOLEAN /\ running' \in BOOLEAN /\ stopped' \in BOOLEAN
    BY <1>4 DEF WakeEnds, Reschedules, loop, TypeOK
  <2>3. Kept' \in Contracts /\ saved' \in Contracts
    BY <1>0, <1>4 DEF WakeEnds, contract, SaveNow, TypeOK
  <2> QED BY <1>4, <2>1, <2>2, <2>3 DEF WakeEnds, TypeOK
<1>5. CASE UserTurn BY <1>0, <1>5 DEF UserTurn, contract, loop, history, TypeOK
<1> QED BY <1>1, <1>2, <1>3, <1>4, <1>5 DEF Timer, EndWake

\* Clearing, resuming and crashing keep the type.
LEMMA SessionType ==
  ASSUME TypeOK, Clear \/ Resume \/ Crash
  PROVE  TypeOK'
<1>1. UNCHANGED memory => Kept' = Kept BY DEF memory, Kept
<1>2. ASSUME Drop
      PROVE  /\ Kept' \in Contracts /\ saved' \in Contracts /\ cont' \in ContStates
             /\ code' \in {"checked", "changed", "unseen"}
  <2>1. saved.task \in [Tasks -> TaskStates] /\ saved.phase \in {"open", "verified"}
        /\ saved.fresh \in BOOLEAN /\ saved.vouched \subseteq Tasks
    BY DEF TypeOK, Contracts
  <2> QED BY <1>2, <2>1, NextMemoryType DEF Drop, Load, TypeOK
<1>3. CASE Clear BY <1>2, <1>3 DEF Clear, Schedule, TypeOK
<1>4. CASE Resume BY <1>1, <1>4 DEF Resume, Schedule, contract, history, TypeOK
<1>5. CASE Crash BY <1>2, <1>5 DEF Crash, TypeOK, ContStates
<1> QED BY <1>3, <1>4, <1>5

\* Next, with the calls on a task taken together.
LEMMA NextSteps ==
  ASSUME TypeOK, Next
  PROVE  \/ \E t \in Tasks : TaskTool(t)
         \/ \E t \in Tasks, owner \in 1..MaxSpawns :
              \/ Assign(t) \/ ResumeAssignment(t, owner)
              \/ Settle(t, owner, TRUE) \/ Settle(t, owner, FALSE)
         \/ Evidence
         \/ Timer \/ EndWake \/ UserTurn
         \/ Clear \/ Resume \/ Crash
<1>1. 1 \in 1..MaxSpawns BY OutcomesAssumption
<1>2. ASSUME NEW t \in Tasks, RetryTask(t) \/ ValidateTask(t) \/ IntegrateTask(t)
      PROVE  TaskTool(t)
  BY <1>2 DEF TaskTool
<1> QED BY <1>1, <1>2, NextTaskTool DEF Next, Evidence

\* The type is an invariant.
LEMMA NextType == TypeOK /\ [Next]_vars => TypeOK'
<1> SUFFICES ASSUME TypeOK, [Next]_vars PROVE TypeOK' OBVIOUS
<1>1. CASE UNCHANGED vars
  <2>1. Kept' = Kept BY <1>1 DEF vars, contract, memory, Kept
  <2> QED BY <1>1, <2>1 DEF vars, contract, loop, history, TypeOK
<1>2. CASE Next
  BY <1>2, NextSteps, ToolsType, AssignType, SettleType, EvidenceType, LoopType, SessionType
<1> QED BY <1>1, <1>2

-----------------------------------------------------------------------------
(* A verified outcome is fresh and integrated. *)

\* The disk stays sound: it is left alone, or written from a sound memory.
LEMMA DiskKeeps ==
  ASSUME SoundOnDisk, SoundInMemory',
         (saved' = saved /\ forced \subseteq forced') \/ SaveNow
  PROVE  SoundOnDisk'
<1>1. CASE saved' = saved /\ forced \subseteq forced'
  BY <1>1 DEF SoundOnDisk, Sound
<1>2. CASE SaveNow
  <2>1. saved'.task = task' /\ saved'.phase = phase' /\ saved'.fresh = fresh'
    BY <1>2 DEF SaveNow, Kept
  <2> QED BY <2>1 DEF SoundOnDisk, SoundInMemory, Sound
<1> QED BY <1>1, <1>2

\* Steps that leave the memory alone, and may save it.
LEMMA QuietTruth ==
  ASSUME Truth, UNCHANGED <<memory, forced>>, saved' = saved \/ SaveNow,
         code' = code \/ ~fresh \/ code' = "unseen"
  PROVE  Truth'
<1>1. SoundInMemory' BY DEF Truth, SoundInMemory, Sound, memory
<1>2. SoundOnDisk' BY <1>1, DiskKeeps DEF Truth
<1>3. FreshIsSeen' BY DEF Truth, FreshIsSeen, memory
<1> QED BY <1>1, <1>2, <1>3 DEF Truth

\* Assignments, settlements and resumptions reopen the outcome; of the tasks they
\* change one, which is then not done.
LEMMA ReopensKeeps ==
  ASSUME TypeOK, Truth, NEW t \in Tasks,
         phase' = "open", UNCHANGED <<fresh, code>>, SaveNow,
         forced \ {t} \subseteq forced',
         \A u \in Tasks \ {t} : task'[u] = task[u],
         ~Done(task'[t])
  PROVE  Truth'
<1>1. SoundInMemory' BY DEF Truth, SoundInMemory, Sound
<1>2. SoundOnDisk' BY <1>1, DiskKeeps DEF Truth
<1> QED BY <1>1, <1>2 DEF Truth, FreshIsSeen

\* So it is with an assignment and with a resumption.
LEMMA AssignTruth ==
  ASSUME TypeOK, Truth, NEW t \in Tasks, NEW owner \in 1..MaxSpawns,
         Assign(t) \/ ResumeAssignment(t, owner)
  PROVE  Truth'
<1>0. task \in [Tasks -> TaskStates] BY MemoryType DEF TypeOK
<1>1. /\ phase' = "open" /\ UNCHANGED <<fresh, code, forced>> /\ SaveNow
      /\ \A u \in Tasks \ {t} : task'[u] = task[u]
      /\ task'[t].status = "in_progress"
  <2>1. CASE Bind(t) /\ UNCHANGED <<code, forced>>
    BY <1>0, <2>1 DEF Bind, TaskStates
  <2>2. CASE /\ task[t].status = "in_progress" /\ ResumeAssignment(t, owner)
             /\ task' = [task EXCEPT ![t].owner = spawned + 1]
             /\ phase' = "open" /\ UNCHANGED <<fresh, code, forced>> /\ SaveNow
    BY <1>0, <2>2 DEF TaskStates
  <2> QED BY <2>1, <2>2 DEF Assign, ResumeAssignment, history
<1> QED BY <1>1, ReopensKeeps DEF Done

\* And with a settlement, if the contract accepts it.
LEMMA SettleTruth ==
  ASSUME TypeOK, Truth, NEW t \in Tasks, NEW owner \in 1..MaxSpawns, NEW ok \in BOOLEAN,
         Settle(t, owner, ok)
  PROVE  Truth'
<1>0. task \in [Tasks -> TaskStates] BY MemoryType DEF TypeOK
<1>1. code' = code BY DEF Settle
<1>2. CASE UNCHANGED <<contract, untold, forced>>
  BY <1>1, <1>2, QuietTruth DEF contract
<1>3. CASE ~UNCHANGED <<contract, untold, forced>>
  <2>1. /\ \E status \in {"completed", "failed"}, unmerged \in BOOLEAN :
             task' = [task EXCEPT ![t] =
               [ status |-> status, owner |-> owner, attempts |-> task[t].attempts,
                 unmerged |-> unmerged ]]
        /\ phase' = "open" /\ fresh' = fresh /\ vouched' = vouched \ {t}
        /\ SaveNow /\ forced' = forced \ {t}
        /\ cont' = Requested({t}) /\ untold' = untold \cup {t}
    BY <1>3, SettleTask
  <2>2. /\ \A u \in Tasks \ {t} : task'[u] = task[u]
        /\ task'[t].status \in {"completed", "failed"} /\ task'[t].owner = owner
    BY <1>0, <2>1
  <2>3. ~Done(task'[t]) BY <2>2 DEF Done
  <2> QED BY <1>1, <2>1, <2>2, <2>3, ReopensKeeps
<1> QED BY <1>2, <1>3

\* The loop and a change of session leave the outcome alone; what a /clear or a
\* crash brings back from disk was sound there.
LEMMA LoopTruth ==
  ASSUME TypeOK, Truth, Timer \/ EndWake \/ UserTurn \/ Clear \/ Resume \/ Crash
  PROVE  Truth'
<1>1. ASSUME Timer \/ EndWake \/ UserTurn \/ Resume PROVE Truth'
  <2>1. UNCHANGED <<memory, forced, code>> /\ (saved' = saved \/ SaveNow)
    BY <1>1 DEF Timer, TimerIdle, Halt, Wake, EndWake, WakeEnds, UserTurn, Resume,
                LoopFrame, contract, history
  <2> QED BY <2>1, QuietTruth
<1>2. ASSUME Clear \/ Crash PROVE Truth'
  <2>1. Drop /\ forced' = forced BY <1>2 DEF Clear, Crash
  <2>2. /\ task' = saved.task /\ phase' = saved.phase /\ fresh' = saved.fresh
        /\ saved' = saved
    BY <2>1 DEF Drop, Load
  <2>3. SoundInMemory' /\ SoundOnDisk'
    BY <2>1, <2>2 DEF Truth, SoundInMemory, SoundOnDisk, Sound
  <2>4. FreshIsSeen'
    BY <2>1, <2>2 DEF Truth, FreshIsSeen, Drop
  <2> QED BY <2>3, <2>4 DEF Truth
<1> QED BY <1>1, <1>2

\* The tools of a turn keep the outcome sound: the one that calls a task done
\* whose result is not merged goes on record.
LEMMA ToolsTruth ==
  ASSUME TypeOK, Truth, NEW t \in Tasks, TaskTool(t)
  PROVE  Truth'
<1>0. task \in [Tasks -> TaskStates] BY MemoryType DEF TypeOK
<1>1. ASSUME RetryTask(t) PROVE Truth'
  <2>1. task'[t].status = "pending" /\ task'[t].unmerged = task[t].unmerged
        /\ \A u \in Tasks \ {t} : task'[u] = task[u]
    BY <1>0, <1>1 DEF RetryTask, Update, With, TaskStates
  <2>2. SoundInMemory'
    BY <1>1, <2>1 DEF RetryTask, Update, PhaseOf, Truth, SoundInMemory, Sound, Done
  <2> QED BY <1>1, <2>2, DiskKeeps DEF RetryTask, Touch, Truth, FreshIsSeen
<1>2. ASSUME ValidateTask(t) PROVE Truth'
  <2>1. ~task'[t].unmerged /\ \A u \in Tasks \ {t} : task'[u] = task[u]
    BY <1>0, <1>2 DEF ValidateTask, Update, With, TaskStates
  <2>2. SoundInMemory'
    BY <1>2, <2>1 DEF ValidateTask, Update, PhaseOf, Truth, SoundInMemory, Sound
  <2> QED BY <1>2, <2>2, DiskKeeps DEF ValidateTask, Touch, Truth, FreshIsSeen
<1>3. ASSUME IntegrateTask(t) PROVE Truth'
  <2>1. SoundInMemory'
    <3>1. CASE UNCHANGED <<task, fresh, phase, code>>
      BY <1>3, <3>1 DEF IntegrateTask, Truth, SoundInMemory, Sound
    <3>2. CASE task' = [task EXCEPT ![t].unmerged = FALSE] /\ CodeChanged
      <4>1. ~task'[t].unmerged /\ \A u \in Tasks \ {t} : task'[u] = task[u]
        BY <1>0, <3>2 DEF TaskStates
      <4> QED BY <1>3, <3>2, <4>1 DEF IntegrateTask, CodeChanged, Truth, SoundInMemory, Sound
    <3> QED BY <1>3, <3>1, <3>2 DEF IntegrateTask
  <2>2. FreshIsSeen'
    BY <1>3 DEF IntegrateTask, CodeChanged, Truth, FreshIsSeen
  <2> QED BY <1>3, <2>1, <2>2, DiskKeeps DEF IntegrateTask, Truth
<1>4. ASSUME NEW status \in Statuses, NEW owner \in 0..Named, UpdateTask(t, status, owner)
      PROVE  Truth'
  <2>1. task'[t].unmerged = task[t].unmerged /\ \A u \in Tasks \ {t} : task'[u] = task[u]
    BY <1>0, <1>4 DEF UpdateTask, Update, With, TaskStates
  <2>2. forced \subseteq forced' /\ (task[t].unmerged /\ Done(task'[t]) => t \in forced')
    BY <1>4 DEF UpdateTask
  <2>3. fresh' = fresh /\ code' = code /\ saved' = saved /\ phase' \in {phase, "open"}
    BY <1>4 DEF UpdateTask, Update, PhaseOf
  <2>4. SoundInMemory'
    BY <2>1, <2>2, <2>3 DEF Truth, SoundInMemory, Sound
  <2> QED BY <2>2, <2>3, <2>4, DiskKeeps DEF Truth, FreshIsSeen
<1> QED BY <1>1, <1>2, <1>3, <1>4 DEF TaskTool

\* So do changes, checks and the gate, which opens when every task is done.
LEMMA EvidenceTruth ==
  ASSUME TypeOK, Truth, Evidence
  PROVE  Truth'
<1>1. ASSUME MutateElsewhere \/ Save PROVE Truth'
  BY <1>1, QuietTruth DEF MutateElsewhere, Save, contract
<1>2. ASSUME Mutate \/ Check(TRUE) \/ Check(FALSE) PROVE Truth'
  <2>1. phase' = "open" /\ UNCHANGED <<task, saved, forced>>
    BY <1>2 DEF Mutate, CodeChanged, Check, Touch
  <2>2. SoundInMemory' BY <2>1 DEF Truth, SoundInMemory, Sound
  <2>3. FreshIsSeen' BY <1>2 DEF Mutate, CodeChanged, Check, Truth, FreshIsSeen
  <2> QED BY <2>1, <2>2, <2>3, DiskKeeps DEF Truth
<1>3. ASSUME RequestFinish PROVE Truth'
  <2>1. UNCHANGED <<task, fresh, code, saved, forced>> BY <1>3 DEF RequestFinish, Touch
  <2>2. phase' = "verified" => fresh /\ \A t \in Tasks : Done(task[t])
    BY <1>3 DEF RequestFinish, GateOpen
  <2>3. SoundInMemory' BY <2>1, <2>2 DEF Truth, SoundInMemory, Sound
  <2> QED BY <2>1, <2>3, DiskKeeps DEF Truth, FreshIsSeen
<1> QED BY <1>1, <1>2, <1>3 DEF Evidence

\* No step verifies a stale or an unmerged outcome, in memory or on disk.
LEMMA NextKeeps == TypeOK /\ Truth /\ [Next]_vars => Truth'
<1> SUFFICES ASSUME TypeOK, Truth, [Next]_vars PROVE Truth' OBVIOUS
<1>1. CASE UNCHANGED vars
  BY <1>1, QuietTruth DEF vars, contract, history
<1>2. CASE Next
  BY <1>2, NextSteps, AssignTruth, SettleTruth, ToolsTruth, EvidenceTruth, LoopTruth
<1> QED BY <1>1, <1>2

-----------------------------------------------------------------------------
(* No result is forgotten. *)

\* Steps that neither settle a result nor begin or end a wake.
Quiet == UNCHANGED <<cont, untold>> /\ turn' \in {turn, "idle", "user"}

\* Quiet steps keep what is untold told later.
LEMMA QuietKeeps ==
  ASSUME WakeIsClaimed, NoResultForgotten, Quiet
  PROVE  WakeIsClaimed' /\ NoResultForgotten'
BY DEF Quiet, WakeIsClaimed, NoResultForgotten, Exhausted

\* A settlement asks for another wake, which will be told of it.
LEMMA SettleTold ==
  ASSUME TypeOK, WakeIsClaimed, NoResultForgotten,
         NEW t \in Tasks, NEW owner \in 1..MaxSpawns, NEW ok \in BOOLEAN,
         Settle(t, owner, ok)
  PROVE  WakeIsClaimed' /\ NoResultForgotten'
<1>0. turn' = turn BY DEF Settle
<1>1. CASE UNCHANGED <<contract, untold, forced>>
  BY <1>0, <1>1, QuietKeeps DEF contract, Quiet
<1>2. CASE cont' = Requested({t}) /\ untold' = untold \cup {t} /\ turn' = turn
  <2>1. /\ cont'.state = "pending" /\ cont'.newer
        /\ cont'.barren = cont.barren /\ cont'.wakeups = cont.wakeups
    BY <1>2 DEF Requested, TypeOK, ContStates
  <2>2. /\ t \in cont'.ids
        /\ cont.state \in {"pending", "running"} => cont.ids \subseteq cont'.ids
    BY <1>2 DEF Requested, TypeOK, ContStates
  <2> QED BY <1>2, <2>1, <2>2 DEF WakeIsClaimed, NoResultForgotten, Exhausted
<1> QED BY <1>0, <1>1, <1>2, SettleTask

\* A wake is told of all there is, or the loop halts at its limits.
LEMMA WakeTold ==
  ASSUME TypeOK, WakeIsClaimed, NoResultForgotten, Halt \/ Wake
  PROVE  WakeIsClaimed' /\ NoResultForgotten'
<1>1. CASE Halt
  <2>1. cont'.barren = cont.barren /\ cont'.wakeups = cont.wakeups /\ turn' = "idle"
    BY <1>1 DEF Halt, Claimable, TypeOK, ContStates
  <2> QED BY <1>1, <2>1 DEF Halt, WakeIsClaimed, NoResultForgotten, Exhausted
<1>2. CASE Wake
  <2>1. cont'.state = "running" /\ cont'.barren = cont.barren
    BY <1>2 DEF Wake, TypeOK, ContStates
  <2>2. untold' = {}
    BY <1>2 DEF Wake, NoResultForgotten
  <2>3. cont.barren < NoProgressLimit
    BY <1>2, OutcomesAssumption DEF Wake, Exhausted, TypeOK, ContStates
  <2> QED BY <2>1, <2>2, <2>3 DEF WakeIsClaimed, NoResultForgotten
<1> QED BY <1>1, <1>2

\* What settled during a wake leaves its continuation pending when it ends.
LEMMA WakeEndsTold ==
  ASSUME TypeOK, WakeIsClaimed, NoResultForgotten,
         NEW result \in {"progress", "barren", "interrupted"}, WakeEnds(result)
  PROVE  WakeIsClaimed' /\ NoResultForgotten'
<1> DEFINE barren == IF result = "progress" THEN 0 ELSE cont.barren + 1
           after == AfterWake(barren)
<1>1. CASE ~here
  BY <1>1, QuietKeeps DEF WakeEnds, contract, Quiet
<1>2. CASE here
  <2>1. turn' = "idle" /\ untold' = untold
    BY DEF WakeEnds
  <2>2. /\ after.wakeups = cont.wakeups /\ after.barren = barren
        /\ after.ids = cont.ids
        /\ after.state = IF cont.newer THEN "pending"
                         ELSE IF barren >= NoProgressLimit THEN "halted" ELSE "idle"
    BY DEF AfterWake, TypeOK, ContStates
  <2>3. cont' = after \/ (cont' = [after EXCEPT !.state = "pending", !.ids = {}]
                          /\ after.state = "idle")
    BY <1>2 DEF WakeEnds
  <2>4. cont'.wakeups = cont.wakeups
    BY <2>2, <2>3 DEF AfterWake, TypeOK, ContStates
  <2>5. cont.barren < NoProgressLimit /\ (Exhausted \/ cont.newer \/ untold = {})
    BY DEF WakeEnds, WakeIsClaimed
  <2>6. CASE Exhausted
    <3>1. cont.wakeups >= MaxWakeups
      BY <2>5, <2>6, OutcomesAssumption DEF Exhausted, TypeOK, ContStates
    <3> QED BY <2>1, <2>4, <3>1 DEF WakeIsClaimed, NoResultForgotten, Exhausted
  <2>7. CASE ~Exhausted /\ cont.newer
    BY <2>1, <2>2, <2>3, <2>7 DEF WakeIsClaimed, NoResultForgotten
  <2>8. CASE untold = {}
    BY <2>1, <2>8 DEF WakeIsClaimed, NoResultForgotten
  <2> QED BY <2>5, <2>6, <2>7, <2>8
<1> QED BY <1>1, <1>2 DEF TypeOK

\* What a wake was told is untold again when the engine dies in it.
LEMMA CrashTold ==
  ASSUME TypeOK, WakeIsClaimed, NoResultForgotten, Crash
  PROVE  WakeIsClaimed' /\ NoResultForgotten'
<1>1. turn' = "idle" /\ cont' = cont
      /\ untold' = IF turn = "wake" THEN untold \cup cont.ids ELSE untold
  BY DEF Crash, Drop, Load
<1> QED BY <1>1 DEF WakeIsClaimed, NoResultForgotten, Exhausted

\* Every step keeps what is untold told later.
LEMMA NextTold ==
  TypeOK /\ WakeIsClaimed /\ NoResultForgotten /\ [Next]_vars
    => WakeIsClaimed' /\ NoResultForgotten'
<1> SUFFICES ASSUME TypeOK, WakeIsClaimed, NoResultForgotten, [Next]_vars
             PROVE  WakeIsClaimed' /\ NoResultForgotten'
  OBVIOUS
<1>1. CASE UNCHANGED vars
  BY <1>1, QuietKeeps DEF vars, contract, history, Quiet
<1>2. ASSUME NEW t \in Tasks, NEW owner \in 1..MaxSpawns,
             Assign(t) \/ ResumeAssignment(t, owner)
      PROVE  WakeIsClaimed' /\ NoResultForgotten'
  <2>1. Quiet BY <1>2 DEF Assign, ResumeAssignment, Bind, history, Quiet
  <2> QED BY <2>1, QuietKeeps
<1>3. ASSUME NEW t \in Tasks, TaskTool(t)
      PROVE  WakeIsClaimed' /\ NoResultForgotten'
  <2>1. Quiet
    BY <1>3 DEF TaskTool, RetryTask, ValidateTask, IntegrateTask, UpdateTask, Touch, ToolFrame,
                Frame, Quiet
  <2> QED BY <2>1, QuietKeeps
<1>4. CASE Evidence
  <2>1. Quiet
    BY <1>4 DEF Evidence, Mutate, MutateElsewhere, Check, RequestFinish, Save, contract, Touch,
                ToolFrame, Frame, Quiet
  <2> QED BY <2>1, QuietKeeps
<1>5. CASE TimerIdle \/ UserTurn \/ Clear \/ Resume
  <2>1. Quiet
    BY <1>5 DEF TimerIdle, UserTurn, Clear, Resume, Drop, Load, contract, history, Quiet
  <2> QED BY <2>1, QuietKeeps
<1>6. ASSUME NEW t \in Tasks, NEW owner \in 1..MaxSpawns,
             Settle(t, owner, TRUE) \/ Settle(t, owner, FALSE)
      PROVE  WakeIsClaimed' /\ NoResultForgotten'
  BY <1>6, SettleTold
<1>7. CASE Timer \/ EndWake \/ UserTurn \/ Clear \/ Resume \/ Crash
  BY <1>5, <1>7, WakeTold, WakeEndsTold, CrashTold DEF Timer, EndWake
<1> QED BY <1>1, <1>2, <1>3, <1>4, <1>6, <1>7, NextSteps

-----------------------------------------------------------------------------
(* The theorems. *)

\* The invariant holds at the start and every step keeps it.
LEMMA Inductive == (Init => IInv) /\ (IInv /\ [Next]_vars => IInv')
<1>1. Init => IInv
  <2>1. Init => Truth
    BY DEF Init, NoTask, Kept, Truth, FreshIsSeen, SoundInMemory, SoundOnDisk, Sound
  <2>2. Init => WakeIsClaimed /\ NoResultForgotten
    BY DEF Init, WakeIsClaimed, NoResultForgotten
  <2> QED BY <2>1, <2>2, InitType DEF IInv
<1>2. IInv /\ [Next]_vars => IInv'
  BY NextType, NextKeeps, NextTold DEF IInv
<1> QED BY <1>1, <1>2

\* For any tasks and limits the state keeps its shape: no more attempts than
\* allowed, no wake beyond the limit, no worker nobody spawned.
THEOREM OutcomesTypeCorrect == Spec => []TypeOK
<1>1. IInv => TypeOK BY DEF IInv
<1> QED BY <1>1, Inductive, PTL DEF Spec

\* A verified outcome rests on a check younger than every change that the
\* contract has seen and kept, through /clear, /resume and crashes.
THEOREM VerifiedAlwaysFresh == Spec => []VerifiedIsFresh
<1>1. IInv => VerifiedIsFresh
  BY DEF IInv, Truth, FreshIsSeen, SoundInMemory, Sound, VerifiedIsFresh
<1> QED BY <1>1, Inductive, PTL DEF Spec

\* A verified outcome has every result merged, but those of tasks that the model
\* called done itself after they had settled.
THEOREM VerifiedAlwaysIntegrated == Spec => []VerifiedIsIntegrated
<1>1. IInv => VerifiedIsIntegrated
  BY DEF IInv, Truth, SoundInMemory, Sound, VerifiedIsIntegrated
<1> QED BY <1>1, Inductive, PTL DEF Spec

\* No settled result is forgotten, across wakes, crashes and changes of session.
THEOREM ResultsAlwaysTold == Spec => []NoResultForgotten
<1>1. IInv => NoResultForgotten BY DEF IInv
<1> QED BY <1>1, Inductive, PTL DEF Spec
=============================================================================

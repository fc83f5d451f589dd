-------------------------- MODULE SubAgentCapacity --------------------------
(***************************************************************************)
(* The capacity ledger: a counting semaphore in a file, shared by every    *)
(* process that may start a sub-agent.  An operation takes the lock file   *)
(* (created with O_EXCL), reads the ledger, drops the leases that lapsed   *)
(* or whose holder is dead, replaces the ledger, and removes the lock.     *)
(*                                                                          *)
(* Each system call on the shared files is a step of its own.  Time is the *)
(* nondeterminism of three steps: a lease lapses when its heartbeat is 30 s *)
(* old, a lock is old after 5 s, an operation gives up after 50 attempts.  *)
(* A live process is assumed to leave the section before the lock is old.  *)
(* A lease is named by its holder and the holder's count of acquisitions.  *)
(***************************************************************************)
EXTENDS Naturals, FiniteSets

CONSTANTS
  Processes,     \* processes that start sub-agents (pids are not reused)
  Limit,         \* max: sub-agents at once, over all processes (4)
  MaxLeases,     \* bound on the acquisitions of one process
  MaxAttempts,   \* attempts at the lock file (50)
  CrashInLock    \* TRUE when a process may die inside the section

Nobody == "nobody"
NoLock == [owner |-> Nobody, old |-> FALSE]
Leases == Processes \X (1..MaxLeases)
NoLease == <<Nobody, 0>>
Holder(l) == l[1]

ASSUME CapacityAssumption ==
  /\ Limit \in Nat /\ MaxLeases \in Nat /\ MaxAttempts \in Nat \ {0}
  /\ CrashInLock \in BOOLEAN
  /\ Nobody \notin Processes

VARIABLES
  lock,      \* the lock file: who created it, and whether its mtime is old
  ledger,    \* leases in the ledger file
  lapsed,    \* leases whose expiresAt has passed
  granted,   \* leases of sub-agents that run: acquire() wrote them
  pc,        \* where a process is in withLock
  call,      \* the locals of the operation a process performs
  count      \* acquisitions of a process so far

vars == <<lock, ledger, lapsed, granted, pc, call, count>>

Section == {"locked", "write", "unlock"}
Alive(p) == pc[p] # "dead"
NewCall(kind, l) == [kind |-> kind, lease |-> l, tries |-> 0, copy |-> {}]
NoCall == NewCall("none", NoLease)

Goto(p, label) == pc' = [pc EXCEPT ![p] = label]
Return(p) == Goto(p, "idle") /\ call' = [call EXCEPT ![p] = NoCall]

\* The leases an operation keeps: unexpired, and of a live pid.
Live(leases) == {l \in leases : l \notin lapsed /\ Alive(Holder(l))}

-----------------------------------------------------------------------------
(* Calls. *)

Call(p, kind, l) ==
  /\ pc[p] = "idle"
  /\ call' = [call EXCEPT ![p] = NewCall(kind, l)]
  /\ Goto(p, "open")
  /\ UNCHANGED <<lock, ledger, lapsed>>

CallAcquire(p) ==
  /\ count[p] < MaxLeases
  /\ Call(p, "acquire", <<p, count[p] + 1>>)
  /\ count' = [count EXCEPT ![p] = @ + 1]
  /\ UNCHANGED granted

\* The heartbeat of a sub-agent that runs.
CallHeartbeat(p, l) ==
  /\ l \in granted /\ Holder(l) = p
  /\ Call(p, "heartbeat", l)
  /\ UNCHANGED <<granted, count>>

\* releaseCapacity of a sub-agent that ended.
CallRelease(p, l) ==
  /\ l \in granted /\ Holder(l) = p
  /\ Call(p, "release", l)
  /\ granted' = granted \ {l}
  /\ UNCHANGED count

\* active(), which the spawn tool asks first: it only rewrites the pruned ledger.
CallActive(p) ==
  /\ Call(p, "active", NoLease)
  /\ UNCHANGED <<granted, count>>

-----------------------------------------------------------------------------
(* withLock. *)

\* Mutant: the lock file is created whether or not it exists.
BugOpen(p) ==
  /\ pc[p] = "open"
  /\ lock' = [owner |-> p, old |-> FALSE]
  /\ Goto(p, "locked")
  /\ UNCHANGED <<ledger, lapsed, granted, call, count>>

Open(p) ==
  /\ pc[p] = "open" /\ lock = NoLock
  /\ lock' = [owner |-> p, old |-> FALSE]
  /\ Goto(p, "locked")
  /\ UNCHANGED <<ledger, lapsed, granted, call, count>>

\* Where a failed attempt leaves the call: the last one denies it.
Again(p, n) ==
  IF n >= MaxAttempts THEN Return(p)
  ELSE Goto(p, "open") /\ call' = [call EXCEPT ![p].tries = n]

ToBreak(p, n) == Goto(p, "break") /\ call' = [call EXCEPT ![p].tries = n]

\* Mutants: one attempt too many; attempts not counted; a lock that never is old enough.
BugBusy(p) ==
  /\ pc[p] = "open" /\ lock # NoLock
  /\ IF call[p].tries >= MaxAttempts THEN Return(p)
     ELSE Goto(p, IF lock.old THEN "break" ELSE "open")
            /\ call' = [call EXCEPT ![p].tries = @ + 1]
  /\ UNCHANGED <<lock, ledger, lapsed, granted, count>>

BugBusyUncounted(p) ==
  /\ pc[p] = "open" /\ lock # NoLock
  /\ IF lock.old THEN ToBreak(p, call[p].tries) ELSE Again(p, call[p].tries)
  /\ UNCHANGED <<lock, ledger, lapsed, granted, count>>

BugBusyNeverOld(p) ==
  /\ pc[p] = "open" /\ lock # NoLock
  /\ Again(p, call[p].tries + 1)
  /\ UNCHANGED <<lock, ledger, lapsed, granted, count>>

\* O_EXCL fails: look at the age of the file, then try again or give up.
Busy(p) ==
  /\ pc[p] = "open" /\ lock # NoLock
  /\ IF lock.old THEN ToBreak(p, call[p].tries + 1) ELSE Again(p, call[p].tries + 1)
  /\ UNCHANGED <<lock, ledger, lapsed, granted, count>>

\* unlinkSync of the file found old, which is whatever lock file is there by now.
Break(p) ==
  /\ pc[p] = "break"
  /\ lock' = NoLock
  /\ Again(p, call[p].tries)
  /\ UNCHANGED <<ledger, lapsed, granted, count>>

\* Mutant: one sub-agent too many.
BugDenied(kept) == Cardinality(kept) > Limit
Denied(kept) == Cardinality(kept) >= Limit

Updated(c, kept) ==
  CASE c.kind = "acquire" -> kept \union {c.lease}
    [] c.kind = "release" -> kept \ {c.lease}
    [] OTHER              -> kept

\* Read the ledger, drop what no longer counts, and run the operation on the copy.
Read(p) ==
  /\ pc[p] = "locked"
  /\ LET kept == Live(ledger)
     IN  IF call[p].kind = "acquire" /\ Denied(kept)
           THEN Goto(p, "unlock") /\ UNCHANGED call
           ELSE Goto(p, "write") /\ call' = [call EXCEPT ![p].copy = Updated(call[p], kept)]
  /\ UNCHANGED <<lock, ledger, lapsed, granted, count>>

\* The temporary file is renamed over the ledger.
Write(p) ==
  LET c == call[p]
  IN  /\ pc[p] = "write"
      /\ ledger' = c.copy
      /\ granted' = IF c.kind = "acquire" THEN granted \union {c.lease} ELSE granted
      /\ lapsed' = IF c.kind = "heartbeat" /\ c.lease \in c.copy
                     THEN lapsed \ {c.lease} ELSE lapsed
      /\ Goto(p, "unlock")
      /\ UNCHANGED <<lock, call, count>>

\* The disk refuses the temporary file: withLock throws, the ledger is as it was.
WriteFails(p) ==
  /\ pc[p] = "write"
  /\ Goto(p, "unlock")
  /\ UNCHANGED <<lock, ledger, lapsed, granted, call, count>>

\* The finally block unlinks the lock path, whoever's file is there.
Unlock(p) ==
  /\ pc[p] = "unlock"
  /\ lock' = NoLock
  /\ Return(p)
  /\ UNCHANGED <<ledger, lapsed, granted, count>>

-----------------------------------------------------------------------------
(* The environment. *)

\* A process dies and takes its sub-agents with it.
Crash(p) ==
  /\ Alive(p)
  /\ pc[p] \in Section => CrashInLock
  /\ Goto(p, "dead")
  /\ call' = [call EXCEPT ![p] = NoCall]
  /\ granted' = {l \in granted : Holder(l) # p}
  /\ UNCHANGED <<lock, ledger, lapsed, count>>

\* The lock file of a dead process gets old.
LockAges ==
  /\ lock # NoLock /\ ~lock.old
  /\ ~Alive(lock.owner)
  /\ lock' = [lock EXCEPT !.old = TRUE]
  /\ UNCHANGED <<ledger, lapsed, granted, pc, call, count>>

\* A lease lapses, that of a stalled sub-agent included.
Lapse(l) ==
  /\ l \in ledger \ lapsed
  /\ lapsed' = lapsed \union {l}
  /\ UNCHANGED <<lock, ledger, granted, pc, call, count>>

-----------------------------------------------------------------------------
Init ==
  /\ lock = NoLock /\ ledger = {} /\ lapsed = {} /\ granted = {}
  /\ pc = [p \in Processes |-> "idle"]
  /\ call = [p \in Processes |-> NoCall]
  /\ count = [p \in Processes |-> 0]

Calls(p) ==
  \/ CallAcquire(p) \/ CallActive(p)
  \/ \E l \in Leases : CallHeartbeat(p, l) \/ CallRelease(p, l)

Steps(p) ==
  Open(p) \/ Busy(p) \/ Break(p) \/ Read(p) \/ Write(p) \/ WriteFails(p) \/ Unlock(p)

Next ==
  \/ \E p \in Processes : Calls(p) \/ Steps(p) \/ Crash(p)
  \/ LockAges
  \/ \E l \in Leases : Lapse(l)

Spec == Init /\ [][Next]_vars

(***************************************************************************)
(* Fairness: a live process runs on to the end of its call, a lock that    *)
(* nobody removes gets old, and the heartbeat interval of a sub-agent that *)
(* runs fires again and again.  Nothing is assumed of new calls.           *)
(***************************************************************************)
Heartbeats(p) == \E l \in Leases : CallHeartbeat(p, l)

FairSpec ==
  /\ Spec
  /\ \A p \in Processes : WF_vars(Steps(p)) /\ WF_vars(Heartbeats(p))
  /\ WF_vars(LockAges)

-----------------------------------------------------------------------------
(* Properties. *)

OnLease == {"acquire", "heartbeat", "release"}
LocalCalls ==
  {c \in [kind : OnLease \union {"none", "active"}, lease : Leases \union {NoLease},
          tries : 0..MaxAttempts, copy : SUBSET Leases] :
     c.kind \in OnLease => c.lease \in Leases}

\* Every variable has its type, and a call is at the lock only with attempts left.
TypeOK ==
  /\ lock \in [owner : Processes \union {Nobody}, old : BOOLEAN]
  /\ ledger \subseteq Leases /\ lapsed \subseteq Leases /\ granted \subseteq Leases
  /\ pc \in [Processes -> {"idle", "open", "break", "dead"} \union Section]
  /\ call \in [Processes -> LocalCalls]
  /\ \A p \in Processes : pc[p] = "open" => call[p].tries < MaxAttempts
  /\ count \in [Processes -> 0..MaxLeases]

\* The semaphore counts: sub-agents of any process that still hold a current lease are
\* never more than the limit, whoever crashes or stalls.
WithinLimit == Cardinality(granted \ lapsed) <= Limit

\* No operation of another process erases the lease of a sub-agent that runs and has
\* been heartbeated in time: the ledger every later acquire() counts has it.
NoLostGrant == granted \ lapsed \subseteq ledger

\* The strengthening of the two invariants above: the lock excludes, a copy about to be
\* written has every grant, and a lock that is about to be broken is still the dead
\* process's.  That last part needs that no two processes can be breaking the same lock:
\* none dies inside the section, or there are only two of them.
Exclusion ==
  /\ \A p \in Processes : pc[p] \in Section => lock = [owner |-> p, old |-> FALSE]
  /\ \A p \in Processes : pc[p] = "break" => lock.old
  /\ lock # NoLock =>
       /\ lock.owner \in Processes
       /\ pc[lock.owner] \in Section \/ (CrashInLock /\ ~Alive(lock.owner))

CallsAreOwn ==
  \A p \in Processes :
    /\ call[p].kind \in OnLease => Holder(call[p].lease) = p
    /\ call[p].kind = "release" => call[p].lease \notin granted

Fits(leases) == IsFiniteSet(leases) /\ Cardinality(leases) <= Limit

IInv ==
  /\ Exclusion
  /\ CallsAreOwn
  /\ \A l \in granted : Alive(Holder(l))
  /\ NoLostGrant
  /\ Fits(ledger)
  /\ \A p \in Processes :
       pc[p] = "write" =>
         /\ Fits(call[p].copy)
         /\ granted \ lapsed \subseteq call[p].copy
         /\ call[p].kind = "acquire" => call[p].lease \in call[p].copy

(***************************************************************************)
(* The promise of the source's own comment: a counting semaphore whose     *)
(* ledger is replaced atomically.  A lease is taken when it is in the       *)
(* ledger file and the next operation would keep it.                        *)
(***************************************************************************)
Semaphore == INSTANCE CapacitySemaphore
               WITH taken <- Live(ledger), running <- granted

\* Read, write and unlock of one process are one step of the semaphore to every other.
ImplementsSemaphore == Semaphore!Spec

\* The strengthening for it: a copy about to be written is still what its operation makes
\* of the ledger, except for what lapsed or died since it was read; ...
CopyIsCurrent ==
  \A p \in Processes :
    pc[p] = "write" =>
      /\ call[p].copy \subseteq Updated(call[p], ledger)
      /\ Live(call[p].copy) = Live(Updated(call[p], ledger))

\* ... and a lease that is being acquired is new to ledger, clock and caller, while one
\* that is heartbeated still runs.
Used == ledger \union lapsed \union granted
LeasesAreNew ==
  \A p \in Processes :
    /\ \A n \in 1..MaxLeases : n > count[p] => <<p, n>> \notin Used
    /\ call[p].kind = "acquire" =>
         /\ call[p].lease = <<p, count[p]>>
         /\ pc[p] # "unlock" => call[p].lease \notin Used
    /\ call[p].kind = "heartbeat" => call[p].lease \in granted

\* Every call returns, with its result or with a denial, unless the process dies.
CallEnds ==
  \A p \in Processes :
    pc[p] \in Section \union {"open", "break"} ~> pc[p] \in {"idle", "dead"}

\* A process that died inside the section does not shut the others out for good: while
\* some sub-agent heartbeats, its lock file is found old and removed.
Orphaned == lock # NoLock /\ ~Alive(lock.owner)
CrashedLockIsBroken ==
  \A p \in Processes :
    (Orphaned /\ \E l \in granted : Holder(l) = p)
      ~> (~Orphaned \/ \A l \in granted : Holder(l) # p)
=============================================================================

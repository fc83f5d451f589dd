------------------------ MODULE SubAgentCapacityProof ------------------------
(* The capacity ledger keeps its limit for any number of processes, any limit *)
(* and any number of attempts, as long as no process dies inside the section, *)
(* and for two processes whatever they die of.                                *)
EXTENDS SubAgentCapacity, FiniteSetTheorems, TLAPS

Labels == {"idle", "open", "break", "dead"} \union Section

\* A call's locals while it looks for the lock.
LEMMA FailedAttemptType ==
  ASSUME TypeOK, NEW p \in Processes, pc[p] \in {"open", "break"},
         NEW n \in 0..MaxAttempts,
         Again(p, n) \/ ToBreak(p, n)
  PROVE  /\ pc' \in [Processes -> Labels]
         /\ call' \in [Processes -> LocalCalls]
         /\ \A q \in Processes : pc'[q] = "open" => call'[q].tries < MaxAttempts
<1> USE CapacityAssumption
<1>1. NoCall \in LocalCalls
  BY DEF NoCall, NewCall, LocalCalls, NoLease, OnLease
<1>2. call[p] \in LocalCalls
  BY DEF TypeOK
<1>3. [call[p] EXCEPT !.tries = n] \in LocalCalls
  BY <1>2 DEF LocalCalls
<1>4. CASE ToBreak(p, n)
  BY <1>2, <1>3, <1>4 DEF ToBreak, Goto, TypeOK, Labels, Section, LocalCalls
<1>5. CASE Again(p, n) /\ n >= MaxAttempts
  BY <1>1, <1>5 DEF Again, Return, Goto, TypeOK, Labels, Section
<1>6. CASE Again(p, n) /\ ~(n >= MaxAttempts)
  BY <1>2, <1>3, <1>6 DEF Again, Return, Goto, TypeOK, Labels, Section, LocalCalls
<1> QED BY <1>4, <1>5, <1>6

LEMMA TypeInit == Init => TypeOK
<1> USE CapacityAssumption
<1> SUFFICES ASSUME Init PROVE TypeOK
  OBVIOUS
<1>1. NoCall \in LocalCalls
  BY DEF NoCall, NewCall, LocalCalls, NoLease, OnLease
<1> QED BY <1>1 DEF Init, TypeOK, NoLock

LEMMA CallType ==
  ASSUME TypeOK, NEW p \in Processes,
         NEW kind \in OnLease \union {"active"}, NEW l \in Leases \union {NoLease},
         kind \in OnLease => l \in Leases,
         Call(p, kind, l)
  PROVE  /\ pc' \in [Processes -> Labels]
         /\ call' \in [Processes -> LocalCalls]
         /\ \A q \in Processes : pc'[q] = "open" => call'[q].tries < MaxAttempts
<1> USE CapacityAssumption
<1>1. NewCall(kind, l) \in LocalCalls /\ NewCall(kind, l).tries = 0
  BY DEF NewCall, LocalCalls
<1>2. pc' \in [Processes -> Labels] /\ call' \in [Processes -> LocalCalls]
  BY <1>1 DEF Call, Goto, TypeOK, Labels, Section
<1>3. ASSUME NEW q \in Processes, pc'[q] = "open"
      PROVE  call'[q].tries < MaxAttempts
  BY <1>1, <1>3 DEF Call, Goto, TypeOK
<1> QED BY <1>2, <1>3

LEMMA TypeStep == TypeOK /\ [Next]_vars => TypeOK'
<1> USE CapacityAssumption
<1> SUFFICES ASSUME TypeOK, [Next]_vars PROVE TypeOK'
  OBVIOUS
<1>0. CASE UNCHANGED vars
  BY <1>0 DEF vars, TypeOK
<1>1. ASSUME NEW p \in Processes, CallAcquire(p) PROVE TypeOK'
  <2>1. <<p, count[p] + 1>> \in Leases
    BY <1>1 DEF CallAcquire, TypeOK, Leases
  <2>2. "acquire" \in OnLease /\ Call(p, "acquire", <<p, count[p] + 1>>)
    BY <1>1 DEF CallAcquire, OnLease
  <2>3. count' \in [Processes -> 0..MaxLeases]
    BY <1>1 DEF CallAcquire, TypeOK
  <2> QED BY <1>1, <2>1, <2>2, <2>3, CallType DEF CallAcquire, Call, TypeOK, Labels
<1>2. ASSUME NEW p \in Processes, CallActive(p) PROVE TypeOK'
  <2>1. Call(p, "active", NoLease) /\ "active" \notin OnLease
    BY <1>2 DEF CallActive, OnLease
  <2> QED BY <1>2, <2>1, CallType DEF CallActive, Call, TypeOK, Labels
<1>3. ASSUME NEW p \in Processes, NEW l \in Leases, CallHeartbeat(p, l) PROVE TypeOK'
  BY <1>3, CallType DEF CallHeartbeat, Call, TypeOK, Labels, OnLease
<1>4. ASSUME NEW p \in Processes, NEW l \in Leases, CallRelease(p, l) PROVE TypeOK'
  BY <1>4, CallType DEF CallRelease, Call, TypeOK, Labels, OnLease
<1>5. ASSUME NEW p \in Processes, Open(p) PROVE TypeOK'
  BY <1>5 DEF Open, Goto, TypeOK, Section
<1>6. ASSUME NEW p \in Processes, Busy(p) PROVE TypeOK'
  <2>1. call[p].tries + 1 \in 0..MaxAttempts
    BY <1>6 DEF Busy, TypeOK, LocalCalls
  <2> QED BY <1>6, <2>1, FailedAttemptType DEF Busy, TypeOK, Labels
<1>7. ASSUME NEW p \in Processes, Break(p) PROVE TypeOK'
  <2>1. call[p].tries \in 0..MaxAttempts
    BY DEF TypeOK, LocalCalls
  <2> QED BY <1>7, <2>1, FailedAttemptType DEF Break, TypeOK, Labels, NoLock
<1>8. ASSUME NEW p \in Processes, Read(p) PROVE TypeOK'
  <2> DEFINE kept == Live(ledger)
  <2>1. call[p] \in LocalCalls /\ kept \subseteq Leases
    BY DEF TypeOK, Live
  <2>2. CASE Goto(p, "unlock") /\ UNCHANGED call
    BY <1>8, <2>2 DEF Read, Goto, TypeOK, Section
  <2>3. CASE /\ Goto(p, "write")
             /\ call' = [call EXCEPT ![p].copy = Updated(call[p], kept)]
    <3>1. Updated(call[p], kept) \subseteq Leases
      BY <2>1 DEF Updated, LocalCalls, OnLease
    <3> QED BY <1>8, <2>1, <2>3, <3>1 DEF Read, Goto, TypeOK, Section, LocalCalls
  <2> QED BY <1>8, <2>2, <2>3 DEF Read
<1>9. ASSUME NEW p \in Processes, Write(p) PROVE TypeOK'
  BY <1>9 DEF Write, Goto, TypeOK, Section, LocalCalls
<1>10. ASSUME NEW p \in Processes, WriteFails(p) PROVE TypeOK'
  BY <1>10 DEF WriteFails, Goto, TypeOK, Section
<1>11. ASSUME NEW p \in Processes, Unlock(p) PROVE TypeOK'
  <2>1. NoCall \in LocalCalls
    BY DEF NoCall, NewCall, LocalCalls, NoLease, OnLease
  <2> QED BY <1>11, <2>1 DEF Unlock, Return, Goto, TypeOK, Section, NoLock
<1>12. ASSUME NEW p \in Processes, Crash(p) PROVE TypeOK'
  <2>1. NoCall \in LocalCalls
    BY DEF NoCall, NewCall, LocalCalls, NoLease, OnLease
  <2> QED BY <1>12, <2>1 DEF Crash, Goto, TypeOK, Section
<1>13. CASE LockAges
  BY <1>13 DEF LockAges, TypeOK
<1>14. ASSUME NEW l \in Leases, Lapse(l) PROVE TypeOK'
  BY <1>14 DEF Lapse, TypeOK
<1> QED
  BY <1>0, <1>1, <1>2, <1>3, <1>4, <1>5, <1>6, <1>7, <1>8, <1>9, <1>10, <1>11, <1>12,
     <1>13, <1>14 DEF Next, Calls, Steps

\* Type correctness.
THEOREM CapacityTypeCorrect == Spec => []TypeOK
BY TypeInit, TypeStep, PTL DEF Spec

-----------------------------------------------------------------------------
(* The semaphore. *)

\* A part of a set of leases that fits, fits.
LEMMA SubsetFits ==
  ASSUME NEW S, NEW T \in SUBSET S, Fits(S)
  PROVE  Fits(T)
<1>1. IsFiniteSet(T) /\ Cardinality(T) <= Cardinality(S)
  BY FS_Subset DEF Fits
<1>2. Cardinality(T) \in Nat /\ Cardinality(S) \in Nat
  BY <1>1, FS_CardinalityType DEF Fits
<1> QED BY <1>1, <1>2, CapacityAssumption DEF Fits

\* An acquisition that is not denied leaves a ledger that fits.
LEMMA AcquireFits ==
  ASSUME NEW S, NEW l, Fits(S), ~Denied(S)
  PROVE  Fits(S \union {l})
<1>1. /\ IsFiniteSet(S \union {l})
      /\ Cardinality(S \union {l}) \in {Cardinality(S), Cardinality(S) + 1}
  BY FS_AddElement DEF Fits
<1>2. Cardinality(S) \in Nat
  BY FS_CardinalityType DEF Fits
<1> QED BY <1>1, <1>2, CapacityAssumption DEF Fits, Denied

\* Breaking a dead process's lock file is a look at its age and a later removal of what is
\* there by then: two processes that both found it old remove two lock files.  It takes
\* three processes, and one that dies inside the section.
OneBreaker == ~CrashInLock \/ \E a, b : Processes \subseteq {a, b}

CopyIsComplete(p) ==
  pc[p] = "write" =>
    /\ Fits(call[p].copy)
    /\ granted \ lapsed \subseteq call[p].copy
    /\ call[p].kind = "acquire" => call[p].lease \in call[p].copy

LEMMA InvariantInit == Init => IInv
<1> SUFFICES ASSUME Init PROVE IInv
  OBVIOUS
<1>1. Fits({})
  BY FS_EmptySet, CapacityAssumption DEF Fits
<1>2. \A p \in Processes : call[p].kind = "none"
  BY DEF Init, NoCall, NewCall
<1> QED BY <1>1, <1>2 DEF Init, IInv, Exclusion, CallsAreOwn, NoLostGrant, Section, OnLease

\* A process enters or leaves the section only through the lock, and an old lock is
\* broken by one process alone.
LEMMA ExclusionStep ==
  ASSUME TypeOK, Exclusion, OneBreaker, Next
  PROVE  Exclusion'
<1> USE CapacityAssumption DEF Exclusion, Section, Alive
<1>1. ASSUME NEW p \in Processes, NEW kind, NEW l, Call(p, kind, l) PROVE Exclusion'
  BY <1>1 DEF Call, Goto, TypeOK
<1>2. ASSUME NEW p \in Processes, Calls(p) PROVE Exclusion'
  BY <1>1, <1>2 DEF Calls, CallAcquire, CallActive, CallHeartbeat, CallRelease
<1>3. ASSUME NEW p \in Processes, Open(p) PROVE Exclusion'
  <2>1. \A q \in Processes : pc[q] \notin Section /\ pc[q] # "break"
    BY <1>3 DEF Open, NoLock
  <2> QED BY <1>3, <2>1 DEF Open, Goto, TypeOK
<1>4. ASSUME NEW p \in Processes, Busy(p) PROVE Exclusion'
  <2>1. CASE lock.old
    BY <1>4, <2>1 DEF Busy, ToBreak, Goto, TypeOK
  <2>2. CASE ~lock.old
    <3>1. pc' = [pc EXCEPT ![p] = "idle"] \/ pc' = [pc EXCEPT ![p] = "open"]
      BY <1>4, <2>2 DEF Busy, Again, Return, Goto
    <3> QED BY <1>4, <3>1 DEF Busy, TypeOK
  <2> QED BY <2>1, <2>2
<1>5. ASSUME NEW p \in Processes, Break(p) PROVE Exclusion'
  <2>1. lock.old /\ lock # NoLock
    BY <1>5 DEF Break, NoLock
  <2>2. \A q \in Processes : pc[q] \notin Section
    BY <2>1
  <2>3. CrashInLock /\ lock.owner \in Processes /\ pc[lock.owner] = "dead"
    BY <2>1, <2>2
  <2>4. \A q \in Processes : pc[q] = "break" => q = p
    <3>1. PICK a, b : Processes \subseteq {a, b}
      BY <2>3 DEF OneBreaker
    <3>2. pc[p] = "break"
      BY <1>5 DEF Break
    <3> QED BY <2>3, <3>1, <3>2
  <2>5. lock' = NoLock
          /\ (pc' = [pc EXCEPT ![p] = "idle"] \/ pc' = [pc EXCEPT ![p] = "open"])
    BY <1>5 DEF Break, Again, Return, Goto
  <2> QED BY <2>2, <2>4, <2>5 DEF TypeOK
<1>6. ASSUME NEW p \in Processes, Read(p) \/ Write(p) \/ WriteFails(p)
      PROVE  Exclusion'
  <2>1. /\ pc[p] \in Section
        /\ pc' = [pc EXCEPT ![p] = "unlock"] \/ pc' = [pc EXCEPT ![p] = "write"]
        /\ lock' = lock
    BY <1>6 DEF Read, Write, WriteFails, Goto
  <2> QED BY <2>1 DEF TypeOK
<1>7. ASSUME NEW p \in Processes, Unlock(p) PROVE Exclusion'
  <2>1. \A q \in Processes : q # p => pc[q] \notin Section /\ pc[q] # "break"
    BY <1>7 DEF Unlock
  <2> QED BY <1>7, <2>1 DEF Unlock, Return, Goto, TypeOK, NoLock
<1>8. ASSUME NEW p \in Processes, Crash(p) PROVE Exclusion'
  BY <1>8 DEF Crash, Goto, TypeOK
<1>9. ASSUME LockAges PROVE Exclusion'
  <2>1. \A q \in Processes : pc[q] \notin Section
    BY <1>9 DEF LockAges
  <2>2. lock' = [owner |-> lock.owner, old |-> TRUE] /\ pc' = pc /\ lock # NoLock
    BY <1>9 DEF LockAges, TypeOK
  <2> QED BY <2>1, <2>2
<1>10. ASSUME NEW l \in Leases, Lapse(l) PROVE Exclusion'
  BY <1>10 DEF Lapse
<1> QED
  BY <1>2, <1>3, <1>4, <1>5, <1>6, <1>7, <1>8, <1>9, <1>10 DEF Next, Steps

\* A call is performed by the holder of its lease; what it releases stays released.
LEMMA CallsAreOwnStep ==
  ASSUME TypeOK, CallsAreOwn, Next
  PROVE  CallsAreOwn'
<1> USE CapacityAssumption DEF CallsAreOwn
<1>1. ASSUME NEW p \in Processes, NEW kind, NEW l, Call(p, kind, l),
             kind \in OnLease => Holder(l) = p,
             kind = "release" => l \notin granted', granted' \subseteq granted
      PROVE  CallsAreOwn'
  BY <1>1 DEF Call, NewCall, TypeOK
<1>2. ASSUME NEW p \in Processes, Calls(p) PROVE CallsAreOwn'
  <2>1. CASE CallAcquire(p)
    BY <1>1, <2>1 DEF CallAcquire, Holder
  <2>2. CASE CallActive(p)
    BY <1>1, <2>2 DEF CallActive, OnLease
  <2>3. ASSUME NEW l \in Leases, CallHeartbeat(p, l) PROVE CallsAreOwn'
    BY <1>1, <2>3 DEF CallHeartbeat
  <2>4. ASSUME NEW l \in Leases, CallRelease(p, l) PROVE CallsAreOwn'
    BY <1>1, <2>4 DEF CallRelease
  <2> QED BY <1>2, <2>1, <2>2, <2>3, <2>4 DEF Calls
<1>3. ASSUME NEW p \in Processes,
             call' = [call EXCEPT ![p] = NoCall], granted' \subseteq granted
      PROVE  CallsAreOwn'
  BY <1>3 DEF NoCall, NewCall, OnLease, TypeOK
<1>4. ASSUME NEW p \in Processes, NEW n,
             call' = [call EXCEPT ![p].tries = n], granted' = granted
      PROVE  CallsAreOwn'
  BY <1>4 DEF TypeOK, LocalCalls
<1>5. ASSUME call' = call, granted' \subseteq granted PROVE CallsAreOwn'
  BY <1>5
<1>6. ASSUME NEW p \in Processes, Read(p) PROVE CallsAreOwn'
  BY <1>6 DEF Read, TypeOK, LocalCalls
<1>7. ASSUME NEW p \in Processes, Write(p) PROVE CallsAreOwn'
  <2>1. ASSUME NEW q \in Processes, call[q].kind = "release", call[p].kind = "acquire"
        PROVE  call[q].lease # call[p].lease
    BY <2>1 DEF OnLease
  <2> QED BY <1>7, <2>1 DEF Write
<1>8. ASSUME NEW p \in Processes, Busy(p) \/ Break(p) PROVE CallsAreOwn'
  <2>1. granted' = granted /\ \E n : Again(p, n) \/ ToBreak(p, n)
    BY <1>8 DEF Busy, Break
  <2> QED BY <1>3, <1>4, <2>1 DEF Again, ToBreak, Return
<1> QED
  BY <1>2, <1>3, <1>5, <1>6, <1>7, <1>8
  DEF Next, Steps, Open, WriteFails, Unlock, Return, Crash, LockAges, Lapse

\* Sub-agents that run belong to processes that live.
LEMMA GrantedAliveStep ==
  ASSUME TypeOK, CallsAreOwn, \A l \in granted : Alive(Holder(l)), Next
  PROVE  \A l \in granted' : Alive(Holder(l))'
<1> USE CapacityAssumption DEF Alive
<1>1. ASSUME granted' \subseteq granted, NEW p \in Processes, NEW label,
             pc' = [pc EXCEPT ![p] = label], label # "dead"
      PROVE  \A l \in granted' : Alive(Holder(l))'
  BY <1>1 DEF TypeOK
<1>2. ASSUME NEW p \in Processes, Calls(p)
      PROVE  \A l \in granted' : Alive(Holder(l))'
  BY <1>1, <1>2 DEF Calls, CallAcquire, CallActive, CallHeartbeat, CallRelease, Call, Goto
<1>3. ASSUME NEW p \in Processes,
             Open(p) \/ Busy(p) \/ Break(p) \/ Read(p) \/ WriteFails(p) \/ Unlock(p)
      PROVE  \A l \in granted' : Alive(Holder(l))'
  BY <1>1, <1>3 DEF Open, Busy, Break, Read, WriteFails, Unlock, Again, ToBreak, Return, Goto
<1>4. ASSUME NEW p \in Processes, Write(p)
      PROVE  \A l \in granted' : Alive(Holder(l))'
  <2>1. ASSUME call[p].kind = "acquire" PROVE Holder(call[p].lease) = p
    BY <2>1 DEF CallsAreOwn, OnLease
  <2> QED BY <1>4, <2>1 DEF Write, Goto, TypeOK
<1>5. ASSUME NEW p \in Processes, Crash(p)
      PROVE  \A l \in granted' : Alive(Holder(l))'
  BY <1>5 DEF Crash, Goto, TypeOK
<1> QED
  BY <1>2, <1>3, <1>4, <1>5 DEF Next, Steps, LockAges, Lapse

\* The ledger, and every copy about to replace it, fits and has every current grant.
LEMMA LedgerStep ==
  ASSUME TypeOK, IInv, Next
  PROVE  /\ NoLostGrant' /\ Fits(ledger)'
         /\ \A q \in Processes : CopyIsComplete(q)'
<1> USE CapacityAssumption DEF NoLostGrant, CopyIsComplete
<1> DEFINE Goal == /\ NoLostGrant' /\ Fits(ledger)'
                   /\ \A q \in Processes : CopyIsComplete(q)'
<1>0. NoLostGrant /\ Fits(ledger) /\ \A q \in Processes : CopyIsComplete(q)
  BY DEF IInv
<1>1. ASSUME ledger' = ledger, granted' \subseteq granted, lapsed \subseteq lapsed',
             \A q \in Processes :
               pc'[q] = "write" =>
                 /\ pc[q] = "write" /\ call'[q].copy = call[q].copy
                 /\ call'[q].kind = call[q].kind /\ call'[q].lease = call[q].lease
      PROVE  Goal
  BY <1>0, <1>1 DEF Fits
<1>2. ASSUME NEW p \in Processes, Calls(p) PROVE Goal
  BY <1>1, <1>2
  DEF Calls, CallAcquire, CallActive, CallHeartbeat, CallRelease, Call, Goto, TypeOK
<1>3. ASSUME NEW p \in Processes, Busy(p) \/ Break(p) PROVE Goal
  <2>1. \E n : Again(p, n) \/ ToBreak(p, n)
    BY <1>3 DEF Busy, Break
  <2>2. \A q \in Processes : pc'[q] = "write" => q # p /\ pc[q] = "write"
    BY <2>1 DEF Again, ToBreak, Return, Goto, TypeOK
  <2>3. \A q \in Processes : q # p => call'[q] = call[q]
    BY <2>1 DEF Again, ToBreak, Return, TypeOK
  <2> QED BY <1>1, <1>3, <2>2, <2>3 DEF Busy, Break
<1>4. ASSUME NEW p \in Processes, Open(p) \/ WriteFails(p) PROVE Goal
  BY <1>1, <1>4 DEF Open, WriteFails, Goto, TypeOK
<1>5. ASSUME NEW p \in Processes, Unlock(p) \/ Crash(p) PROVE Goal
  BY <1>1, <1>5 DEF Unlock, Crash, Return, Goto, TypeOK
<1>6. ASSUME LockAges PROVE Goal
  BY <1>1, <1>6 DEF LockAges
<1>7. ASSUME NEW l \in Leases, Lapse(l) PROVE Goal
  BY <1>1, <1>7 DEF Lapse
<1>8. ASSUME NEW p \in Processes, Read(p) PROVE Goal
  <2> DEFINE kept == Live(ledger)
  <2>1. Fits(kept)
    BY <1>0, SubsetFits DEF Live
  <2>2. granted \ lapsed \subseteq kept
    BY <1>0 DEF Live, IInv
  <2>3. CASE Goto(p, "unlock") /\ UNCHANGED call
    BY <1>1, <1>8, <2>3 DEF Read, Goto, TypeOK
  <2>4. CASE /\ ~(call[p].kind = "acquire" /\ Denied(kept))
             /\ Goto(p, "write")
             /\ call' = [call EXCEPT ![p].copy = Updated(call[p], kept)]
    <3> DEFINE c == Updated(call[p], kept)
    <3>1. Fits(c)
      BY <2>1, <2>4, AcquireFits, SubsetFits DEF Updated
    <3>2. granted \ lapsed \subseteq c
      BY <2>2 DEF Updated, IInv, CallsAreOwn
    <3>3. call[p].kind = "acquire" => call[p].lease \in c
      BY DEF Updated
    <3>4. /\ call'[p].copy = c /\ call'[p].kind = call[p].kind
          /\ call'[p].lease = call[p].lease
      BY <2>4 DEF TypeOK, LocalCalls
    <3>5. CopyIsComplete(p)'
      BY <1>8, <3>1, <3>2, <3>3, <3>4 DEF Read, Fits
    <3>6. ASSUME NEW q \in Processes, q # p PROVE CopyIsComplete(q)'
      BY <1>0, <1>8, <2>4, <3>6 DEF Read, Goto, TypeOK, Fits
    <3> QED BY <1>0, <1>8, <3>5, <3>6 DEF Read, Fits
  <2> QED BY <1>8, <2>3, <2>4 DEF Read
<1>9. ASSUME NEW p \in Processes, Write(p) PROVE Goal
  <2>1. CopyIsComplete(p) /\ pc[p] = "write" /\ ledger' = call[p].copy
    BY <1>0, <1>9 DEF Write
  <2>2. NoLostGrant'
    BY <1>9, <2>1 DEF Write
  <2>3. \A q \in Processes : pc'[q] # "write"
    BY <1>9 DEF Write, Goto, TypeOK, IInv, Exclusion, Section
  <2> QED BY <2>1, <2>2, <2>3 DEF Fits
<1> QED
  BY <1>2, <1>3, <1>4, <1>5, <1>6, <1>7, <1>8, <1>9 DEF Next, Steps

LEMMA InvariantStep ==
  ASSUME OneBreaker
  PROVE  TypeOK /\ IInv /\ [Next]_vars => IInv'
<1> SUFFICES ASSUME TypeOK, IInv, [Next]_vars PROVE IInv'
  OBVIOUS
<1>1. CASE UNCHANGED vars
  BY <1>1 DEF vars, IInv, Exclusion, CallsAreOwn, NoLostGrant, Fits, Alive
<1>2. CASE Next
  <2>1. Exclusion'
    BY <1>2, ExclusionStep DEF IInv
  <2>2. CallsAreOwn'
    BY <1>2, CallsAreOwnStep DEF IInv
  <2>3. \A l \in granted' : Alive(Holder(l))'
    BY <1>2, GrantedAliveStep DEF IInv
  <2> QED BY <1>2, <2>1, <2>2, <2>3, LedgerStep DEF IInv, CopyIsComplete
<1> QED BY <1>1, <1>2

\* The current leases fit, because the ledger does and has them all.
LEMMA LimitFollows == IInv => WithinLimit
<1> SUFFICES ASSUME IInv PROVE WithinLimit
  OBVIOUS
<1>1. Fits(granted \ lapsed)
  BY SubsetFits DEF IInv, NoLostGrant
<1> QED BY <1>1 DEF Fits, WithinLimit

LEMMA Invariance ==
  ASSUME OneBreaker
  PROVE  Spec => []IInv
BY InvariantInit, InvariantStep, CapacityTypeCorrect, PTL DEF Spec

\* The semaphore counts: over any number of processes that stall, come and go or crash
\* outside the section, and over two that crash anywhere.
THEOREM LimitAlwaysHolds ==
  ASSUME OneBreaker
  PROVE  Spec => []WithinLimit
BY Invariance, LimitFollows, PTL

\* Under the same condition no current lease is ever erased from the ledger.
THEOREM NoGrantIsEverLost ==
  ASSUME OneBreaker
  PROVE  Spec => []NoLostGrant
<1>1. IInv => NoLostGrant
  BY DEF IInv
<1> QED BY Invariance, <1>1, PTL

-----------------------------------------------------------------------------
(* The attempts run out. *)

\* The most steps a call still has before it: two for an attempt that finds an old lock.
Remaining(p) ==
  CASE pc[p] = "open"   -> 2 * (MaxAttempts - call[p].tries) + 4
    [] pc[p] = "break"  -> 2 * (MaxAttempts - call[p].tries) + 5
    [] pc[p] = "locked" -> 3
    [] pc[p] = "write"  -> 2
    [] pc[p] = "unlock" -> 1
    [] OTHER            -> 0

\* Every step of a call, the process's death included, brings its end nearer, whoever
\* holds, breaks or takes the lock in between: a call is over after at most
\* 2 * MaxAttempts + 4 steps of its own.
CallProgresses ==
  [][\A p \in Processes :
       \/ pc[p] = "idle" \/ UNCHANGED <<pc[p], call[p]>>
       \/ Remaining(p)' \in 0..(Remaining(p) - 1)]_vars

LEMMA ProgressStep ==
  ASSUME TypeOK, [Next]_vars, NEW p \in Processes,
         pc[p] # "idle", ~UNCHANGED <<pc[p], call[p]>>
  PROVE  Remaining(p) \in Nat /\ Remaining(p)' \in 0..(Remaining(p) - 1)
<1> USE CapacityAssumption
<1>1. /\ pc[p] \in Labels /\ call[p].tries \in 0..MaxAttempts
      /\ pc[p] = "open" => call[p].tries < MaxAttempts
  BY DEF TypeOK, LocalCalls, Labels
<1>2. Remaining(p) \in Nat
  BY <1>1 DEF Remaining
<1> DEFINE Goal == Remaining(p)' \in 0..(Remaining(p) - 1)
<1>3. ASSUME NEW q \in Processes, \A f \in Processes : f # q => UNCHANGED <<pc[f], call[f]>>
      PROVE  q = p
  BY <1>3
<1>4. ASSUME pc[p] # "dead", pc'[p] \in {"idle", "dead"} PROVE Goal
  BY <1>1, <1>4 DEF Remaining, Labels, Section
<1>5. ASSUME NEW q \in Processes, Calls(q) PROVE FALSE
  <2>1. pc[q] = "idle" /\ \A f \in Processes : f # q => UNCHANGED <<pc[f], call[f]>>
    BY <1>5 DEF Calls, CallAcquire, CallActive, CallHeartbeat, CallRelease, Call, Goto, TypeOK
  <2> QED BY <1>3, <2>1
<1>6. ASSUME NEW q \in Processes, Open(q) PROVE Goal
  <2>1. q = p
    BY <1>3, <1>6 DEF Open, Goto, TypeOK
  <2>2. pc[p] = "open" /\ pc'[p] = "locked"
    BY <1>6, <2>1 DEF Open, Goto, TypeOK
  <2> QED BY <1>1, <2>2 DEF Remaining
<1>7. ASSUME NEW q \in Processes, Busy(q) PROVE Goal
  <2>1. q = p /\ pc[p] = "open"
    BY <1>3, <1>7 DEF Busy, Again, ToBreak, Return, Goto, TypeOK
  <2> DEFINE n == call[p].tries + 1
  <2>2. \/ pc'[p] = "idle"
        \/ pc'[p] \in {"open", "break"} /\ call'[p].tries = n
    BY <1>7, <2>1 DEF Busy, Again, ToBreak, Return, Goto, TypeOK, LocalCalls
  <2> QED BY <1>1, <1>4, <2>1, <2>2 DEF Remaining
<1>8. ASSUME NEW q \in Processes, Break(q) PROVE Goal
  <2>1. q = p /\ pc[p] = "break"
    BY <1>3, <1>8 DEF Break, Again, Return, Goto, TypeOK
  <2>2. \/ pc'[p] = "idle"
        \/ pc'[p] = "open" /\ call'[p].tries = call[p].tries
    BY <1>8, <2>1 DEF Break, Again, Return, Goto, TypeOK, LocalCalls
  <2> QED BY <1>1, <1>4, <2>1, <2>2 DEF Remaining
<1>9. ASSUME NEW q \in Processes, Read(q) PROVE Goal
  <2>1. q = p /\ pc[p] = "locked"
    BY <1>3, <1>9 DEF Read, Goto, TypeOK
  <2>2. pc'[p] \in {"write", "unlock"}
    BY <1>9, <2>1 DEF Read, Goto, TypeOK
  <2> QED BY <2>1, <2>2 DEF Remaining
<1>10. ASSUME NEW q \in Processes, Write(q) \/ WriteFails(q) PROVE Goal
  <2>1. q = p /\ pc[p] = "write" /\ pc'[p] = "unlock"
    BY <1>3, <1>10 DEF Write, WriteFails, Goto, TypeOK
  <2> QED BY <2>1 DEF Remaining
<1>11. ASSUME NEW q \in Processes, Unlock(q) \/ Crash(q) PROVE Goal
  <2>1. q = p /\ pc[p] # "dead" /\ pc'[p] \in {"idle", "dead"}
    BY <1>3, <1>11 DEF Unlock, Crash, Alive, Return, Goto, TypeOK
  <2> QED BY <1>4, <2>1
<1>12. ASSUME UNCHANGED <<pc, call>> PROVE FALSE
  BY <1>12
<1> QED
  BY <1>2, <1>5, <1>6, <1>7, <1>8, <1>9, <1>10, <1>11, <1>12
  DEF Next, Steps, LockAges, Lapse, vars

\* Every step a call takes brings it nearer to its end, so the retries of acquire and of
\* release cannot go round for ever while they are being scheduled.
THEOREM CallsProgress == Spec => CallProgresses
<1>1. TypeOK /\ [Next]_vars =>
        [\A p \in Processes :
           \/ pc[p] = "idle" \/ UNCHANGED <<pc[p], call[p]>>
           \/ Remaining(p)' \in 0..(Remaining(p) - 1)]_vars
  BY ProgressStep
<1> QED BY <1>1, CapacityTypeCorrect, PTL DEF Spec, CallProgresses
-----------------------------------------------------------------------------
(* The ledger is a semaphore: what withLock does in several steps happens at once. *)

\* Nothing a process does between two changes of the ledger makes a lease count again.
LEMMA CopyKeptIfQuiet ==
  ASSUME TypeOK, CopyIsCurrent, ledger' = ledger, lapsed \subseteq lapsed',
         \A q \in Processes : pc[q] = "dead" => pc'[q] = "dead",
         \A q \in Processes :
           pc'[q] = "write" => pc[q] = "write" /\ call'[q] = call[q]
  PROVE  CopyIsCurrent'
<1> SUFFICES ASSUME NEW p \in Processes, pc'[p] = "write"
             PROVE  /\ (call[p].copy \subseteq Updated(call[p], ledger))'
                    /\ (Live(call[p].copy) = Live(Updated(call[p], ledger)))'
  BY DEF CopyIsCurrent
<1>1. pc[p] = "write" /\ call'[p] = call[p]
  OBVIOUS
<1>2. /\ call[p].copy \subseteq Updated(call[p], ledger)
      /\ Live(call[p].copy) = Live(Updated(call[p], ledger))
  BY <1>1 DEF CopyIsCurrent
<1>3. Updated(call[p], ledger)' = Updated(call[p], ledger)
  BY <1>1 DEF Updated
<1>4. \A l \in Updated(call[p], ledger) : l \in Leases
  <2>1. call[p].kind = "acquire" => call[p].lease \in Leases
    BY DEF TypeOK, LocalCalls, OnLease
  <2> QED BY <2>1 DEF Updated, TypeOK
<1>5. \A l \in Leases : (l \notin lapsed' /\ Alive(Holder(l))') => l \notin lapsed /\ Alive(Holder(l))
  BY DEF Alive, Holder, Leases
<1>6. \A l \in Leases :
        l \notin lapsed /\ Alive(Holder(l)) =>
          (l \in call[p].copy <=> l \in Updated(call[p], ledger))
  BY <1>2, <1>4 DEF Live
<1> QED BY <1>1, <1>2, <1>3, <1>4, <1>5, <1>6 DEF Live

\* A call at the beginning, at its end or before the lock is no call that writes.
LEMMA CopyStep ==
  ASSUME TypeOK, IInv, CopyIsCurrent, Next
  PROVE  CopyIsCurrent'
<1>1. ASSUME NEW p \in Processes, Calls(p) PROVE CopyIsCurrent'
  <2>1. PICK kind, l : Call(p, kind, l)
    BY <1>1 DEF Calls, CallAcquire, CallActive, CallHeartbeat, CallRelease
  <2> QED BY <2>1, CopyKeptIfQuiet DEF Call, Goto, TypeOK
<1>2. ASSUME NEW p \in Processes, Busy(p) \/ Break(p) PROVE CopyIsCurrent'
  <2>1. UNCHANGED <<ledger, lapsed>> /\ \E n : Again(p, n) \/ ToBreak(p, n)
    BY <1>2 DEF Busy, Break
  <2>2. pc[p] # "dead"
    BY <1>2 DEF Busy, Break
  <2>3. \A q \in Processes : pc'[q] = "write" => q # p /\ pc[q] = "write"
    BY <2>1 DEF Again, ToBreak, Return, Goto, TypeOK
  <2>4. \A q \in Processes : q # p => call'[q] = call[q] /\ pc'[q] = pc[q]
    BY <2>1 DEF Again, ToBreak, Return, Goto, TypeOK
  <2> QED BY <2>1, <2>2, <2>3, <2>4, CopyKeptIfQuiet
<1>3. ASSUME NEW p \in Processes, Open(p) \/ WriteFails(p) PROVE CopyIsCurrent'
  BY <1>3, CopyKeptIfQuiet DEF Open, WriteFails, Goto, TypeOK
<1>4. ASSUME NEW p \in Processes, Unlock(p) \/ Crash(p) PROVE CopyIsCurrent'
  BY <1>4, CopyKeptIfQuiet DEF Unlock, Crash, Return, Goto, TypeOK
<1>5. ASSUME LockAges \/ \E l \in Leases : Lapse(l) PROVE CopyIsCurrent'
  BY <1>5, CopyKeptIfQuiet DEF LockAges, Lapse
<1>6. ASSUME NEW p \in Processes, Write(p) PROVE CopyIsCurrent'
  <2>1. \A q \in Processes : pc'[q] # "write"
    BY <1>6 DEF Write, Goto, TypeOK, IInv, Exclusion, Section
  <2> QED BY <2>1 DEF CopyIsCurrent
<1>7. ASSUME NEW p \in Processes, Read(p) PROVE CopyIsCurrent'
  <2> DEFINE kept == Live(ledger)
  <2>1. \A q \in Processes : pc'[q] = "write" => q = p
    BY <1>7 DEF Read, Goto, TypeOK, IInv, Exclusion, Section
  <2>2. CASE pc' = [pc EXCEPT ![p] = "unlock"]
    BY <2>1, <2>2 DEF CopyIsCurrent, TypeOK
  <2>3. CASE /\ pc' = [pc EXCEPT ![p] = "write"]
             /\ call' = [call EXCEPT ![p].copy = Updated(call[p], kept)]
    <3>1. /\ call'[p].copy = Updated(call[p], kept) /\ call'[p].kind = call[p].kind
          /\ call'[p].lease = call[p].lease
      BY <2>3 DEF TypeOK, LocalCalls
    <3>2. Updated(call[p], ledger)' = Updated(call[p], ledger)
      BY <1>7, <3>1 DEF Updated, Read
    <3>3. kept \subseteq ledger
      BY DEF Live
    <3>4. Updated(call[p], kept) \subseteq Updated(call[p], ledger)
      BY <3>3 DEF Updated
    <3>5. \A l : l \in ledger /\ l \notin lapsed /\ Alive(Holder(l)) => l \in kept
      BY DEF Live
    <3>6. \A l : l \notin lapsed /\ Alive(Holder(l)) =>
                   (l \in Updated(call[p], kept) <=> l \in Updated(call[p], ledger))
      BY <3>3, <3>5 DEF Updated
    <3>7. \A q \in Processes : Alive(q)' <=> Alive(q)
      BY <1>7, <2>3 DEF Read, Alive, TypeOK
    <3>8. Updated(call[p], ledger) \subseteq Leases
      BY DEF Updated, TypeOK, LocalCalls, OnLease
    <3>9. \A l \in Leases : Alive(Holder(l))' <=> Alive(Holder(l))
      BY <3>7 DEF Leases, Holder
    <3>10. lapsed' = lapsed
      BY <1>7 DEF Read
    <3>11. Live(call[p].copy)' = Live(Updated(call[p], ledger))'
      BY <3>1, <3>2, <3>4, <3>6, <3>8, <3>9, <3>10 DEF Live
    <3> QED BY <2>1, <3>1, <3>2, <3>4, <3>11 DEF CopyIsCurrent
  <2> QED BY <1>7, <2>2, <2>3 DEF Read, Goto
<1> QED
  BY <1>1, <1>2, <1>3, <1>4, <1>5, <1>6, <1>7 DEF Next, Steps

\* Leases are numbered, and only the write of its own acquire puts one to use.
LEMMA NewKept ==
  ASSUME TypeOK, LeasesAreNew, UNCHANGED count, Used' \subseteq Used,
         \A q \in Processes :
           call'[q].kind = "heartbeat" => call'[q].lease \in granted',
         \A q \in Processes :
           call'[q].kind = "acquire" =>
             /\ call[q].kind = "acquire" /\ call'[q].lease = call[q].lease
             /\ pc'[q] # "unlock" => pc[q] # "unlock"
  PROVE  LeasesAreNew'
BY DEF LeasesAreNew

LEMMA NewStep ==
  ASSUME TypeOK, IInv, CopyIsCurrent, LeasesAreNew, Next
  PROVE  LeasesAreNew'
<1> USE CapacityAssumption
<1>1. ASSUME NEW p \in Processes, CallAcquire(p) PROVE LeasesAreNew'
  <2>1. /\ call'[p] = NewCall("acquire", <<p, count[p] + 1>>)
        /\ count'[p] = count[p] + 1 /\ count[p] + 1 \in 1..MaxLeases
        /\ \A q \in Processes : q # p => call'[q] = call[q] /\ count'[q] = count[q]
                                         /\ pc'[q] = pc[q]
    BY <1>1 DEF CallAcquire, Call, Goto, TypeOK
  <2>2. Used' = Used /\ granted' = granted
    BY <1>1 DEF CallAcquire, Call, Used
  <2>3. \A n \in 1..MaxLeases : n > count'[p] => <<p, n>> \notin Used'
    BY <2>1, <2>2 DEF LeasesAreNew, TypeOK
  <2>4. <<p, count'[p]>> \notin Used'
    BY <2>1, <2>2 DEF LeasesAreNew, TypeOK
  <2>5. call'[p].kind = "acquire" /\ call'[p].lease = <<p, count'[p]>>
    BY <2>1 DEF NewCall
  <2> QED BY <2>1, <2>2, <2>3, <2>4, <2>5 DEF LeasesAreNew
<1>2. ASSUME NEW p \in Processes, NEW kind, NEW l, Call(p, kind, l), kind # "acquire",
             UNCHANGED count, granted' \subseteq granted,
             kind = "heartbeat" => l \in granted',
             \A q \in Processes :
               q # p /\ call[q].kind = "heartbeat" => call[q].lease \in granted'
      PROVE  LeasesAreNew'
  <2>1. /\ call'[p].kind = kind /\ call'[p].lease = l
        /\ \A q \in Processes : q # p => call'[q] = call[q] /\ pc'[q] = pc[q]
    BY <1>2 DEF Call, NewCall, Goto, TypeOK
  <2>2. Used' \subseteq Used
    BY <1>2 DEF Call, Used
  <2> QED BY <1>2, <2>1, <2>2, NewKept
<1>3. ASSUME NEW p \in Processes, CallActive(p) PROVE LeasesAreNew'
  BY <1>2, <1>3 DEF CallActive, LeasesAreNew
<1>4. ASSUME NEW p \in Processes, NEW l \in Leases, CallHeartbeat(p, l)
      PROVE  LeasesAreNew'
  BY <1>2, <1>4 DEF CallHeartbeat, LeasesAreNew
<1>5. ASSUME NEW p \in Processes, NEW l \in Leases, CallRelease(p, l)
      PROVE  LeasesAreNew'
  <2>1. \A q \in Processes :
          q # p /\ call[q].kind = "heartbeat" => call[q].lease \in granted \ {l}
    BY <1>5 DEF CallRelease, LeasesAreNew, IInv, CallsAreOwn, OnLease
  <2> QED BY <1>2, <1>5, <2>1 DEF CallRelease
<1>6. ASSUME NEW p \in Processes, Busy(p) \/ Break(p) PROVE LeasesAreNew'
  <2>1. UNCHANGED <<ledger, lapsed, granted, count>> /\ pc[p] # "unlock"
        /\ \E n : Again(p, n) \/ ToBreak(p, n)
    BY <1>6 DEF Busy, Break
  <2>2. \/ call'[p] = NoCall
        \/ call'[p].kind = call[p].kind /\ call'[p].lease = call[p].lease
    BY <2>1 DEF Again, ToBreak, Return, TypeOK, LocalCalls
  <2>3. \A q \in Processes : q # p => call'[q] = call[q] /\ pc'[q] = pc[q]
    BY <2>1 DEF Again, ToBreak, Return, Goto, TypeOK
  <2>4. NoCall.kind = "none"
    BY DEF NoCall, NewCall
  <2> QED BY <2>1, <2>2, <2>3, <2>4, NewKept DEF LeasesAreNew, Used
<1>7. ASSUME NEW p \in Processes, Open(p) PROVE LeasesAreNew'
  <2>1. /\ UNCHANGED <<ledger, lapsed, granted, count, call>> /\ pc[p] # "unlock"
        /\ \A q \in Processes : q # p => pc'[q] = pc[q]
    BY <1>7 DEF Open, Goto, TypeOK
  <2> QED BY <2>1, NewKept DEF LeasesAreNew, Used
<1>8. ASSUME NEW p \in Processes, Read(p) PROVE LeasesAreNew'
  <2>1. /\ UNCHANGED <<ledger, lapsed, granted, count>> /\ pc[p] # "unlock"
        /\ \A q \in Processes : q # p => call'[q] = call[q] /\ pc'[q] = pc[q]
    BY <1>8 DEF Read, Goto, TypeOK
  <2>2. call'[p].kind = call[p].kind /\ call'[p].lease = call[p].lease
    BY <1>8 DEF Read, TypeOK, LocalCalls
  <2> QED BY <2>1, <2>2, NewKept DEF LeasesAreNew, Used
<1>9. ASSUME NEW p \in Processes, WriteFails(p) PROVE LeasesAreNew'
  <2>1. /\ UNCHANGED <<ledger, lapsed, granted, count, call>> /\ pc[p] # "unlock"
        /\ \A q \in Processes : q # p => pc'[q] = pc[q]
    BY <1>9 DEF WriteFails, Goto, TypeOK
  <2> QED BY <2>1, NewKept DEF LeasesAreNew, Used
<1>10. ASSUME NEW p \in Processes, Unlock(p) \/ Crash(p) PROVE LeasesAreNew'
  <2>1. /\ UNCHANGED <<ledger, lapsed, count>>
        /\ granted' = granted \/ granted' = {l \in granted : Holder(l) # p}
        /\ call'[p] = NoCall
        /\ \A q \in Processes : q # p => call'[q] = call[q] /\ pc'[q] = pc[q]
    BY <1>10 DEF Unlock, Crash, Return, Goto, TypeOK
  <2>2. NoCall.kind = "none"
    BY DEF NoCall, NewCall
  <2>3. \A q \in Processes :
          q # p /\ call[q].kind = "heartbeat" => call[q].lease \in granted'
    BY <2>1 DEF LeasesAreNew, IInv, CallsAreOwn, OnLease
  <2> QED BY <2>1, <2>2, <2>3, NewKept DEF Used
<1>11. ASSUME LockAges PROVE LeasesAreNew'
  BY <1>11, NewKept DEF LockAges, LeasesAreNew, Used
<1>12. ASSUME NEW l \in Leases, Lapse(l) PROVE LeasesAreNew'
  <2>1. Used' = Used
    BY <1>12 DEF Lapse, Used
  <2> QED BY <1>12, <2>1, NewKept DEF Lapse, LeasesAreNew
<1>13. ASSUME NEW p \in Processes, Write(p) PROVE LeasesAreNew'
  <2>1. /\ pc[p] = "write" /\ pc'[p] = "unlock" /\ UNCHANGED <<call, count>>
        /\ \A q \in Processes : q # p => pc'[q] = pc[q]
    BY <1>13 DEF Write, Goto, TypeOK
  <2>2. granted \subseteq granted'
    BY <1>13 DEF Write
  <2>3. call[p].copy \subseteq Updated(call[p], ledger)
    BY <2>1 DEF CopyIsCurrent
  <2>4. CASE call[p].kind # "acquire"
    <3>1. Used' \subseteq Used
      BY <1>13, <2>3, <2>4 DEF Write, Used, Updated
    <3> QED BY <2>1, <2>2, <2>4, <3>1, NewKept DEF LeasesAreNew
  <2>5. CASE call[p].kind = "acquire"
    <3>1. Used' \subseteq Used \union {<<p, count[p]>>}
      BY <1>13, <2>1, <2>3, <2>5 DEF Write, Used, Updated, LeasesAreNew
    <3>2. \A q \in Processes : \A n \in 1..MaxLeases :
            n > count'[q] => <<q, n>> \notin Used'
      BY <2>1, <3>1 DEF LeasesAreNew, TypeOK
    <3>3. \A q \in Processes : q # p /\ call[q].kind = "acquire" =>
            call[q].lease # <<p, count[p]>>
      BY DEF LeasesAreNew
    <3> QED BY <2>1, <2>2, <2>5, <3>1, <3>2, <3>3 DEF LeasesAreNew
  <2> QED BY <2>4, <2>5
<1> QED
  BY <1>1, <1>3, <1>4, <1>5, <1>6, <1>7, <1>8, <1>9, <1>10, <1>11, <1>12, <1>13
  DEF Next, Calls, Steps

\* A step that neither touches the ledger nor ends a process leaves what is taken.
LEMMA TakenStays ==
  ASSUME TypeOK, UNCHANGED <<ledger, lapsed>>,
         \A q \in Processes : pc'[q] = "dead" <=> pc[q] = "dead"
  PROVE  Live(ledger)' = Live(ledger)
<1>1. \A l \in Leases : Alive(Holder(l))' <=> Alive(Holder(l))
  BY DEF Alive, Holder, Leases
<1> QED BY <1>1 DEF Live, TypeOK

\* A lease outside a part of a set that fits finds room beside that part.
LEMMA RoomForOne ==
  ASSUME NEW S, NEW T, NEW l, Fits(T), S \subseteq T, l \in T, l \notin S
  PROVE  Cardinality(S) < Limit
<1>1. IsFiniteSet(T \ {l}) /\ Cardinality(T \ {l}) = Cardinality(T) - 1
  BY FS_RemoveElement DEF Fits
<1>2. Cardinality(S) <= Cardinality(T \ {l}) /\ IsFiniteSet(S)
  BY <1>1, FS_Subset
<1>3. Cardinality(S) \in Nat /\ Cardinality(T) \in Nat
  BY <1>2, FS_CardinalityType DEF Fits
<1> QED BY <1>1, <1>2, <1>3, CapacityAssumption DEF Fits

\* The abstract module counts as this one does.
LEMMA SameCount == \A S : Semaphore!Cardinality(S) = Cardinality(S)
BY DEF Semaphore!Cardinality, Cardinality

\* The rename of the ledger is where an operation takes effect, for all at once.
LEMMA WriteRefines ==
  ASSUME TypeOK, IInv, CopyIsCurrent, LeasesAreNew, NEW p \in Processes, Write(p)
  PROVE  Semaphore!Next \/ UNCHANGED Semaphore!vars
<1> USE CapacityAssumption
<1> DEFINE c == call[p]
           taken == Live(ledger)
           after == Live(ledger)'
<1>1. pc[p] = "write" /\ ledger' = c.copy /\ UNCHANGED call
  BY DEF Write
<1>2. \A l \in Leases : Alive(Holder(l))' <=> Alive(Holder(l))
  BY DEF Write, Goto, Alive, Holder, Leases, TypeOK
<1>3. c.copy \subseteq Leases /\ (c.kind \in OnLease => c.lease \in Leases)
  BY DEF TypeOK, LocalCalls
<1>4. Live(c.copy) = Live(Updated(c, ledger)) /\ Fits(c.copy)
  BY <1>1 DEF CopyIsCurrent, IInv
<1>5. after = {l \in c.copy : l \notin lapsed' /\ Alive(Holder(l))}
  BY <1>1, <1>2, <1>3 DEF Live, TypeOK, LocalCalls
<1>6. lapsed' = lapsed => after = Live(Updated(c, ledger))
  BY <1>4, <1>5 DEF Live
<1>7. c.kind \in OnLease => Alive(Holder(c.lease))
  BY <1>1 DEF IInv, CallsAreOwn, Alive
<1>8. CASE c.kind = "acquire"
  <2>1. c.lease \in Leases /\ c.lease \notin Used /\ c.lease \in c.copy
    BY <1>1, <1>3, <1>8 DEF LeasesAreNew, IInv, OnLease
  <2>2. lapsed' = lapsed /\ granted' = granted \union {c.lease}
    BY <1>8 DEF Write
  <2>3. after = taken \union {c.lease}
    BY <1>6, <1>7, <1>8, <2>1, <2>2 DEF Live, Updated, Used, OnLease
  <2>4. taken \subseteq c.copy
    BY <1>4, <1>8 DEF Live, Updated
  <2>5. c.lease \notin taken \union granted
    BY <2>1 DEF Used, Live
  <2>6. Cardinality(taken) < Limit
    BY <1>4, <2>1, <2>4, <2>5, RoomForOne
  <2>7. Semaphore!Grant(c.lease)
    BY <2>2, <2>3, <2>5, <2>6, SameCount DEF Semaphore!Grant
  <2> QED BY <2>1, <2>7 DEF Semaphore!Next
<1>9. CASE c.kind = "heartbeat" /\ c.lease \in c.copy
  <2>1. lapsed' = lapsed \ {c.lease} /\ UNCHANGED granted /\ c.lease \in Leases
    BY <1>3, <1>9 DEF Write, OnLease
  <2>2. Live(c.copy) = taken
    BY <1>4, <1>9 DEF Updated
  <2>3. after = taken \union {c.lease}
    BY <1>5, <1>7, <1>9, <2>1, <2>2 DEF Live, OnLease
  <2>4. CASE c.lease \in taken
    BY <2>1, <2>3, <2>4 DEF Semaphore!vars
  <2>5. CASE c.lease \notin taken
    <3>1. taken \subseteq c.copy
      BY <2>2 DEF Live
    <3>2. Cardinality(taken) < Limit
      BY <1>4, <1>9, <2>5, <3>1, RoomForOne
    <3>3. Semaphore!Revive(c.lease)
      BY <1>9, <2>1, <2>3, <2>5, <3>2, SameCount DEF Semaphore!Revive, LeasesAreNew
    <3> QED BY <2>1, <3>3 DEF Semaphore!Next
  <2> QED BY <2>4, <2>5
<1>10. CASE c.kind = "release"
  <2>1. lapsed' = lapsed /\ UNCHANGED granted /\ c.lease \in Leases
    BY <1>3, <1>10 DEF Write, OnLease
  <2>2. c.lease \notin granted
    BY <1>10 DEF IInv, CallsAreOwn
  <2>3. after = taken \ {c.lease}
    BY <1>6, <1>10, <2>1 DEF Live, Updated
  <2>4. Semaphore!GiveBack(c.lease) \/ UNCHANGED Semaphore!vars
    BY <2>1, <2>2, <2>3 DEF Semaphore!GiveBack, Semaphore!vars
  <2> QED BY <2>1, <2>4 DEF Semaphore!Next
<1>11. CASE ~(c.kind \in {"acquire", "release"} \/ (c.kind = "heartbeat" /\ c.lease \in c.copy))
  <2>1. lapsed' = lapsed /\ UNCHANGED granted
    BY <1>11 DEF Write
  <2>2. after = taken
    BY <1>6, <1>11, <2>1 DEF Updated
  <2> QED BY <2>1, <2>2 DEF Semaphore!vars
<1> QED BY <1>8, <1>9, <1>10, <1>11

\* A process that dies takes its leases with it, whether or not they are pruned already.
LEMMA CrashRefines ==
  ASSUME TypeOK, NEW p \in Processes, Crash(p)
  PROVE  Semaphore!Next \/ UNCHANGED Semaphore!vars
<1>1. \A q \in Processes : Alive(q)' <=> Alive(q) /\ q # p
  BY DEF Crash, Goto, Alive, TypeOK
<1>2. \A l \in Leases : Alive(Holder(l))' <=> Alive(Holder(l)) /\ Holder(l) # p
  BY <1>1 DEF Holder, Leases
<1>3. Live(ledger)' = {l \in Live(ledger) : Holder(l) # p}
  BY <1>2 DEF Crash, Live, TypeOK
<1>4. granted' = {l \in granted : Holder(l) # p}
  BY DEF Crash
<1>5. CASE \E l \in Leases : Holder(l) = p
  BY <1>3, <1>4, <1>5 DEF Semaphore!Next, Semaphore!Die
<1>6. CASE \A l \in Leases : Holder(l) # p
  BY <1>3, <1>4, <1>6 DEF Semaphore!vars, TypeOK, Live
<1> QED BY <1>5, <1>6

LEMMA SemaphoreInit == Init => Semaphore!Init
BY DEF Init, Semaphore!Init, Live

LEMMA SemaphoreStep ==
  TypeOK /\ IInv /\ CopyIsCurrent /\ LeasesAreNew /\ [Next]_vars
    => [Semaphore!Next]_(Semaphore!vars)
<1> SUFFICES ASSUME TypeOK, IInv, CopyIsCurrent, LeasesAreNew, [Next]_vars
             PROVE  Semaphore!Next \/ UNCHANGED Semaphore!vars
  OBVIOUS
<1>1. ASSUME NEW p \in Processes, CallAcquire(p) \/ CallActive(p)
                                    \/ \E l \in Leases : CallHeartbeat(p, l)
      PROVE  UNCHANGED Semaphore!vars
  BY <1>1, TakenStays
  DEF CallAcquire, CallActive, CallHeartbeat, Call, Goto, TypeOK, Semaphore!vars
<1>2. ASSUME NEW p \in Processes, NEW l \in Leases, CallRelease(p, l)
      PROVE  Semaphore!Next
  <2>1. Live(ledger)' = Live(ledger)
    BY <1>2, TakenStays DEF CallRelease, Call, Goto, TypeOK
  <2>2. Semaphore!Finish(l)
    BY <1>2, <2>1 DEF CallRelease, Semaphore!Finish
  <2> QED BY <2>2 DEF Semaphore!Next
<1>3. ASSUME NEW p \in Processes, Open(p) \/ Read(p) \/ WriteFails(p) \/ Unlock(p)
      PROVE  UNCHANGED Semaphore!vars
  BY <1>3, TakenStays
  DEF Open, Read, WriteFails, Unlock, Return, Goto, TypeOK, Semaphore!vars
<1>4. ASSUME NEW p \in Processes, Busy(p) \/ Break(p)
      PROVE  UNCHANGED Semaphore!vars
  <2>1. /\ UNCHANGED <<ledger, lapsed, granted>> /\ pc[p] # "dead"
        /\ \E n : Again(p, n) \/ ToBreak(p, n)
    BY <1>4 DEF Busy, Break
  <2>2. \A q \in Processes : pc'[q] = "dead" <=> pc[q] = "dead"
    BY <2>1 DEF Again, ToBreak, Return, Goto, TypeOK
  <2> QED BY <2>1, <2>2, TakenStays DEF Semaphore!vars
<1>5. ASSUME LockAges PROVE UNCHANGED Semaphore!vars
  BY <1>5, TakenStays DEF LockAges, Semaphore!vars
<1>6. ASSUME NEW l \in Leases, Lapse(l)
      PROVE  Semaphore!Next \/ UNCHANGED Semaphore!vars
  <2>1. Live(ledger)' = Live(ledger) \ {l} /\ UNCHANGED granted
    BY <1>6 DEF Lapse, Live, Alive
  <2>2. Semaphore!Lapse(l) \/ UNCHANGED Semaphore!vars
    BY <2>1 DEF Semaphore!Lapse, Semaphore!vars
  <2> QED BY <2>2 DEF Semaphore!Next
<1>7. CASE UNCHANGED vars
  BY <1>7 DEF vars, Semaphore!vars, Live, Alive
<1> QED
  BY <1>1, <1>2, <1>3, <1>4, <1>5, <1>6, <1>7, WriteRefines, CrashRefines
  DEF Next, Calls, Steps

\* Between processes that share nothing but files the coordinator is a counting semaphore
\* that changes at once, as its comment promises, under the condition of the two theorems
\* above: every step is one of the semaphore's, or is not seen.
THEOREM LedgerIsSemaphore ==
  ASSUME OneBreaker
  PROVE  Spec => ImplementsSemaphore
<1> DEFINE RInv == CopyIsCurrent /\ LeasesAreNew
<1>1. Init => RInv
  BY CapacityAssumption
  DEF Init, CopyIsCurrent, LeasesAreNew, Used, NoCall, NewCall
<1>2. TypeOK /\ IInv /\ RInv /\ [Next]_vars => RInv'
  <2>1. CASE UNCHANGED vars
    BY <2>1 DEF vars, CopyIsCurrent, LeasesAreNew, Used, Updated, Live, Alive
  <2>2. CASE Next
    BY <2>2, CopyStep, NewStep
  <2> QED BY <2>1, <2>2
<1>3. Spec => []RInv
  BY <1>1, <1>2, CapacityTypeCorrect, Invariance, PTL DEF Spec
<1>4. TypeOK /\ IInv /\ RInv /\ [Next]_vars => [Semaphore!Next]_(Semaphore!vars)
  BY SemaphoreStep
<1> QED
  BY <1>3, <1>4, SemaphoreInit, CapacityTypeCorrect, Invariance, PTL
  DEF Spec, Semaphore!Spec, ImplementsSemaphore

=============================================================================

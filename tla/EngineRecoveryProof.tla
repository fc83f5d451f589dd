------------------------ MODULE EngineRecoveryProof ------------------------
(* What the supervisor keeps across the death of an engine, for every value   *)
(* of its constants: the restart budget, the capabilities it sheds, the       *)
(* project it belongs to, and that a superseded engine ends unnoticed.        *)
EXTENDS EngineSupervisorProof, FiniteSetTheorems

-----------------------------------------------------------------------------
(* The deaths that count. *)

CrashIndices(h) == {i \in SinceClean(h) : \A j \in (i + 1)..Len(h) : ~h[j].stable}
ResourceIndices(h) == {i \in SinceClean(h) : h[i].kind \in ResourceKinds}
CountedRestarts(h) == {i \in CrashIndices(h) : h[i].auto}

\* The counts the policy reads are the sizes of these sets.
LEMMA Counts ==
  ASSUME NEW h
  PROVE  /\ ConsecutiveCrashes(h) = Cardinality(CrashIndices(h))
         /\ ResourceCrashes(h) = Cardinality(ResourceIndices(h))
BY DEF ConsecutiveCrashes, CrashIndices, ResourceCrashes, ResourceIndices

\* A recorded death is the last one, and leaves the others as they were.
LEMMA Recorded ==
  ASSUME NEW h \in Seq(Deaths), NEW d \in Deaths
  PROVE  LET g == Append(h, d)
         IN  /\ g \in Seq(Deaths)
             /\ Len(h) \in Nat /\ Len(g) = Len(h) + 1 /\ g[Len(h) + 1] = d
             /\ \A i \in 1..Len(h) : g[i] = h[i]
BY AppendProperties

\* A clean shutdown wipes the deaths before it; any other death is added to them.
LEMMA SinceCleanAppend ==
  ASSUME NEW h \in Seq(Deaths), NEW d \in Deaths
  PROVE  SinceClean(Append(h, d)) =
           IF d.kind = "clean_shutdown" THEN {} ELSE SinceClean(h) \union {Len(h) + 1}
<1> DEFINE g == Append(h, d)
           n == Len(h) + 1
<1>1. /\ Len(h) \in Nat /\ Len(g) = n /\ g[n] = d
      /\ \A i \in 1..Len(h) : g[i] = h[i]
  BY Recorded
<1> HIDE DEF g
<1>2. \A i \in 1..n : i..n = (i..Len(h)) \union {n}
  BY <1>1
<1>3. SinceClean(g) = {i \in 1..n : \A j \in i..n : g[j].kind # "clean_shutdown"}
  BY <1>1 DEF SinceClean
<1>4. CASE d.kind = "clean_shutdown"
  BY <1>1, <1>3, <1>4 DEF g
<1>5. CASE d.kind # "clean_shutdown"
  <2>1. ASSUME NEW i \in 1..n
        PROVE  (\A j \in i..n : g[j].kind # "clean_shutdown")
                 <=> (\A j \in i..Len(h) : h[j].kind # "clean_shutdown")
    BY <1>1, <1>2, <1>5
  <2>2. SinceClean(g) = {i \in 1..n : \A j \in i..Len(h) : h[j].kind # "clean_shutdown"}
    BY <1>3, <2>1
  <2> QED BY <1>1, <1>5, <2>2 DEF SinceClean, g
<1> QED BY <1>4, <1>5

\* The deaths counted for the budget after one more: all of them again, or the new one
\* alone when it followed a stable run.
LEMMA CrashesAppend ==
  ASSUME NEW h \in Seq(Deaths), NEW d \in Deaths
  PROVE  CrashIndices(Append(h, d)) =
           IF d.kind = "clean_shutdown" THEN {}
           ELSE IF d.stable THEN {Len(h) + 1}
           ELSE CrashIndices(h) \union {Len(h) + 1}
<1> DEFINE g == Append(h, d)
           n == Len(h) + 1
<1>1. /\ Len(h) \in Nat /\ Len(g) = n /\ g[n] = d
      /\ \A i \in 1..Len(h) : g[i] = h[i]
  BY Recorded
<1>2. SinceClean(g) = IF d.kind = "clean_shutdown" THEN {} ELSE SinceClean(h) \union {n}
  BY SinceCleanAppend
<1> HIDE DEF g
<1>3. SinceClean(h) \subseteq 1..Len(h)
  BY DEF SinceClean
<1>4. ASSUME NEW i \in 1..Len(h)
      PROVE  (\A j \in (i + 1)..n : ~g[j].stable)
               <=> (~d.stable /\ \A j \in (i + 1)..Len(h) : ~h[j].stable)
  <2>1. n \in (i + 1)..n
    BY <1>1
  <2>2. ASSUME NEW j \in (i + 1)..Len(h) PROVE j \in (i + 1)..n /\ g[j] = h[j]
    BY <1>1
  <2>3. ASSUME NEW j \in (i + 1)..n PROVE j = n \/ j \in (i + 1)..Len(h)
    BY <1>1
  <2> QED BY <1>1, <2>1, <2>2, <2>3, Zenon
<1>5. \A j \in (n + 1)..n : ~g[j].stable
  BY <1>1
<1> QED BY <1>1, <1>2, <1>3, <1>4, <1>5 DEF CrashIndices, g

\* The resource deaths after one more death.
LEMMA ResourcesAppend ==
  ASSUME NEW h \in Seq(Deaths), NEW d \in Deaths
  PROVE  ResourceIndices(Append(h, d)) =
           IF d.kind = "clean_shutdown" THEN {}
           ELSE IF d.kind \in ResourceKinds THEN ResourceIndices(h) \union {Len(h) + 1}
           ELSE ResourceIndices(h)
<1> DEFINE g == Append(h, d)
           n == Len(h) + 1
<1>1. /\ Len(h) \in Nat /\ Len(g) = n /\ g[n] = d
      /\ \A i \in 1..Len(h) : g[i] = h[i]
  BY Recorded
<1>2. SinceClean(g) = IF d.kind = "clean_shutdown" THEN {} ELSE SinceClean(h) \union {n}
  BY SinceCleanAppend
<1> HIDE DEF g
<1>3. SinceClean(h) \subseteq 1..Len(h)
  BY DEF SinceClean
<1> QED BY <1>1, <1>2, <1>3 DEF ResourceIndices, g

\* Every counted index is one of the history.
LEMMA IndicesAreFinite ==
  ASSUME NEW h \in Seq(Deaths), NEW S \in SUBSET SinceClean(h)
  PROVE  /\ S \subseteq 1..Len(h) /\ IsFiniteSet(S) /\ Cardinality(S) \in Nat
         /\ Len(h) + 1 \notin S
<1>1. Len(h) \in Nat /\ S \subseteq 1..Len(h)
  BY DEF SinceClean
<1>2. IsFiniteSet(1..Len(h))
  BY <1>1, FS_Interval
<1>3. IsFiniteSet(S)
  BY <1>1, <1>2, FS_Subset
<1>4. Len(h) + 1 \notin S
  BY <1>1
<1> QED BY <1>1, <1>3, <1>4, FS_CardinalityType

\* A set moved down by one is no larger than where it came from.
LEMMA ShiftedIsNoLarger ==
  ASSUME NEW S \in SUBSET Nat, NEW T, IsFiniteSet(T), \A i \in S : i + 1 \in T
  PROVE  Cardinality(S) <= Cardinality(T)
<1> DEFINE f == [i \in S |-> i + 1]
<1>1. f \in [S -> T] /\ \A i, j \in S : f[i] = f[j] => i = j
  OBVIOUS
<1>2. f \in Injection(S, T)
  BY <1>1 DEF Injection, IsInjective
<1> QED BY <1>2, FS_Injection

\* When the oldest death leaves the window, the others keep their place in the count.
LEMMA TailFacts ==
  ASSUME NEW h \in Seq(Deaths), h # <<>>
  PROVE  LET t == Tail(h)
         IN  /\ t \in Seq(Deaths) /\ Len(h) \in Nat \ {0} /\ Len(t) = Len(h) - 1
             /\ \A i \in 1..Len(t) : t[i] = h[i + 1]
             /\ \A i \in SinceClean(t) : i + 1 \in SinceClean(h)
             /\ \A i \in CrashIndices(t) : i + 1 \in CrashIndices(h)
<1> DEFINE t == Tail(h)
<1>1. /\ t \in Seq(Deaths) /\ Len(h) \in Nat \ {0} /\ Len(t) = Len(h) - 1
      /\ \A i \in 1..Len(t) : t[i] = h[i + 1]
  BY HeadTailProperties, EmptySeq
<1> HIDE DEF t
<1>2. ASSUME NEW i \in 1..Len(t), NEW j \in (i + 1)..Len(h)
      PROVE  j - 1 \in i..Len(t) /\ j - 1 \in 1..Len(t) /\ t[j - 1] = h[j]
  BY <1>1
<1>3. ASSUME NEW i \in SinceClean(t) PROVE i + 1 \in SinceClean(h)
  BY <1>1, <1>2, <1>3 DEF SinceClean
<1>4. ASSUME NEW i \in CrashIndices(t) PROVE i + 1 \in CrashIndices(h)
  <2>1. i \in SinceClean(t) /\ i \in 1..Len(t) /\ \A j \in (i + 1)..Len(t) : ~t[j].stable
    BY <1>4 DEF CrashIndices, SinceClean
  <2>2. ASSUME NEW j \in (i + 1 + 1)..Len(h) PROVE ~h[j].stable
    <3>1. j \in (i + 1)..Len(h) /\ j - 1 \in (i + 1)..Len(t)
      BY <1>1, <2>1
    <3> QED BY <1>2, <2>1, <3>1
  <2> QED BY <1>3, <2>1, <2>2 DEF CrashIndices
<1> QED BY <1>1, <1>3, <1>4 DEF t

-----------------------------------------------------------------------------
(* What a history and a floor have to keep. *)

\* ResourceDeathsShed of a history and a profile.
Shed(h, f) ==
  /\ ResourceCrashes(h) >= 2 => f = "minimal"
  /\ ResourceCrashes(h) = 1 => f # "full"

\* The budget as the policy sees it: it takes an uptime over the limit for a stable run.
WithinBudget(h) == Cardinality(CountedRestarts(h)) <= MaxAttempts

\* Only a launch that throws is booked with an uptime that is not its own.
UptimesAreTrue(h) == \A i \in 1..Len(h) : h[i].stable = h[i].ran

Kept(h, f) ==
  /\ Shed(h, f)
  /\ WithinBudget(h)
  /\ ~SpawnMayThrow => UptimesAreTrue(h)

\* A tighter profile sheds what the looser one did.
LEMMA TighterSheds ==
  ASSUME NEW h, NEW f \in Profiles, NEW g \in Profiles, Shed(h, f)
  PROVE  Shed(h, Tighter(f, g)) /\ Shed(h, Tighter(g, f))
BY DEF Shed, Tighter, Tightness, Profiles

\* Tightening is a join: it stays at or above what it started from.
LEMMA TighterIsMinimal ==
  /\ \A f \in Profiles : Tighter(f, "minimal") = "minimal"
  /\ \A f, p \in Profiles : Tighter(f, Tighter(p, "conservative")) # "full"
BY DEF Tighter, Tightness, Profiles

\* One more death is answered by a floor that sheds what the new count demands.
LEMMA ShedAppend ==
  ASSUME NEW h \in Seq(Deaths), NEW d \in Deaths, NEW f \in Profiles, NEW p \in Profiles,
         Shed(h, f)
  PROVE  Shed(Append(h, d),
              IF d.kind \in ResourceKinds THEN Tighter(f, ShedProfile(p, Append(h, d)))
              ELSE f)
<1> DEFINE g == Append(h, d)
           n == Len(h) + 1
           new == IF d.kind \in ResourceKinds THEN Tighter(f, ShedProfile(p, g)) ELSE f
<1>1. /\ IsFiniteSet(ResourceIndices(h)) /\ n \notin ResourceIndices(h)
      /\ Cardinality(ResourceIndices(h)) \in Nat
  BY IndicesAreFinite DEF ResourceIndices
<1>2. CASE d.kind = "clean_shutdown"
  <2>1. ResourceCrashes(g) = 0
    BY <1>2, ResourcesAppend, FS_EmptySet, Counts
  <2> QED BY <2>1 DEF Shed
<1>3. CASE d.kind # "clean_shutdown" /\ d.kind \in ResourceKinds
  <2>1. ResourceIndices(g) = ResourceIndices(h) \union {n}
    BY <1>3, ResourcesAppend
  <2>2. Cardinality(ResourceIndices(g)) = Cardinality(ResourceIndices(h)) + 1
    BY <1>1, <2>1, FS_AddElement
  <2>3. ResourceCrashes(g) \in Nat /\ ResourceCrashes(g) >= 1
    BY <1>1, <2>2, Counts
  <2>4. CASE ResourceCrashes(g) >= 2
    BY <1>3, <2>3, <2>4, TighterIsMinimal DEF Shed, ShedProfile
  <2>5. CASE ResourceCrashes(g) = 1
    BY <1>3, <2>5, TighterIsMinimal DEF Shed, ShedProfile
  <2> QED BY <2>3, <2>4, <2>5
<1>4. CASE d.kind # "clean_shutdown" /\ d.kind \notin ResourceKinds
  <2>1. ResourceCrashes(g) = ResourceCrashes(h)
    BY <1>4, ResourcesAppend, Counts
  <2> QED BY <1>4, <2>1 DEF Shed
<1> QED BY <1>2, <1>3, <1>4

\* A restart is decided only with budget left; a death that is not answered by one adds
\* nothing to what was spent.
LEMMA BudgetAppend ==
  ASSUME NEW h \in Seq(Deaths), NEW d \in Deaths, NEW e \in Deaths,
         e.kind = d.kind, e.stable = d.stable, WithinBudget(h),
         d.auto = (Decide(Append(h, e)) = "auto_restart")
  PROVE  WithinBudget(Append(h, d))
<1> DEFINE g == Append(h, d)
           n == Len(h) + 1
<1>1. CrashIndices(Append(h, e)) = CrashIndices(g)
  BY CrashesAppend
<1>2. /\ g \in Seq(Deaths) /\ Len(h) \in Nat /\ g[n] = d
      /\ \A i \in 1..Len(h) : g[i] = h[i]
  BY Recorded
<1>3. /\ IsFiniteSet(CrashIndices(g)) /\ Cardinality(CrashIndices(g)) \in Nat
      /\ IsFiniteSet(CountedRestarts(g)) /\ Cardinality(CountedRestarts(g)) \in Nat
      /\ IsFiniteSet(CountedRestarts(h)) /\ Cardinality(CountedRestarts(h)) \in Nat
  BY <1>2, IndicesAreFinite DEF CrashIndices, CountedRestarts
<1>4. MaxAttempts \in Nat
  BY SupervisorAssumption
<1>5. CASE d.auto
  <2>1. Decide(Append(h, e)) = "auto_restart"
    BY <1>5
  <2>2. ~(ConsecutiveCrashes(Append(h, e)) > MaxAttempts)
    BY <2>1 DEF Decide
  <2>3. Cardinality(CrashIndices(g)) <= MaxAttempts
    BY <1>1, <1>3, <1>4, <2>2, Counts
  <2>4. Cardinality(CountedRestarts(g)) <= Cardinality(CrashIndices(g))
    BY <1>3, FS_Subset DEF CountedRestarts
  <2> QED BY <1>3, <1>4, <2>3, <2>4 DEF WithinBudget
<1>6. CASE ~d.auto
  <2>1. ASSUME NEW i \in CountedRestarts(g) PROVE i \in CountedRestarts(h)
    <3>1. i \in CrashIndices(g) /\ g[i].auto /\ i # n
      BY <1>2, <1>6, <2>1 DEF CountedRestarts
    <3>2. i \in CrashIndices(h) /\ i \in 1..Len(h)
      BY <3>1, CrashesAppend DEF CrashIndices, SinceClean
    <3> QED BY <1>2, <3>1, <3>2 DEF CountedRestarts
  <2>2. Cardinality(CountedRestarts(g)) <= Cardinality(CountedRestarts(h))
    BY <1>3, <2>1, FS_Subset
  <2> QED BY <1>3, <1>4, <2>2 DEF WithinBudget
<1> QED BY <1>5, <1>6

LEMMA UptimesAppend ==
  ASSUME NEW h \in Seq(Deaths), NEW d \in Deaths, UptimesAreTrue(h), d.stable = d.ran
  PROVE  UptimesAreTrue(Append(h, d))
<1>1. /\ Len(h) \in Nat /\ Len(Append(h, d)) = Len(h) + 1 /\ Append(h, d)[Len(h) + 1] = d
      /\ \A i \in 1..Len(h) : Append(h, d)[i] = h[i]
  BY Recorded
<1> QED BY <1>1 DEF UptimesAreTrue

\* The rolling window only forgets.
LEMMA TailKeeps ==
  ASSUME NEW h \in Seq(Deaths), h # <<>>, NEW f, Kept(h, f)
  PROVE  Kept(Tail(h), f)
<1> DEFINE t == Tail(h)
<1>1. /\ t \in Seq(Deaths) /\ Len(h) \in Nat \ {0} /\ Len(t) = Len(h) - 1
      /\ \A i \in 1..Len(t) : t[i] = h[i + 1]
      /\ \A i \in SinceClean(t) : i + 1 \in SinceClean(h)
      /\ \A i \in CrashIndices(t) : i + 1 \in CrashIndices(h)
  BY TailFacts
<1> HIDE DEF t
<1>2. SinceClean(t) \subseteq 1..Len(t)
  BY DEF SinceClean
<1>3. /\ \A i \in ResourceIndices(t) : i + 1 \in ResourceIndices(h)
      /\ \A i \in CountedRestarts(t) : i + 1 \in CountedRestarts(h)
  BY <1>1, <1>2 DEF ResourceIndices, CountedRestarts, CrashIndices
<1>4. /\ ResourceIndices(t) \in SUBSET Nat /\ CountedRestarts(t) \in SUBSET Nat
      /\ Cardinality(ResourceIndices(t)) \in Nat /\ Cardinality(CountedRestarts(t)) \in Nat
  BY <1>1, <1>2, IndicesAreFinite DEF ResourceIndices, CountedRestarts, CrashIndices
<1>5. /\ IsFiniteSet(ResourceIndices(h)) /\ IsFiniteSet(CountedRestarts(h))
      /\ Cardinality(ResourceIndices(h)) \in Nat /\ Cardinality(CountedRestarts(h)) \in Nat
  BY IndicesAreFinite DEF ResourceIndices, CountedRestarts, CrashIndices
<1>6. /\ Cardinality(ResourceIndices(t)) <= Cardinality(ResourceIndices(h))
      /\ Cardinality(CountedRestarts(t)) <= Cardinality(CountedRestarts(h))
  BY <1>3, <1>4, <1>5, ShiftedIsNoLarger
<1>7. Shed(t, f)
  <2>1. Shed(h, f)
    BY DEF Kept
  <2> QED BY <1>4, <1>5, <1>6, <2>1, Counts DEF Shed
<1>8. WithinBudget(t)
  BY <1>4, <1>5, <1>6, SupervisorAssumption DEF Kept, WithinBudget
<1>9. ASSUME UptimesAreTrue(h) PROVE UptimesAreTrue(t)
  <2>1. \A i \in 1..Len(t) : i + 1 \in 1..Len(h)
    BY <1>1
  <2> QED BY <1>1, <1>9, <2>1, Zenon DEF UptimesAreTrue
<1> QED BY <1>7, <1>8, <1>9 DEF Kept, t

\* A new project starts with an empty history and every capability.
LEMMA EmptyKeeps ==
  ASSUME NEW f
  PROVE  Kept(<<>>, f)
<1>1. ResourceIndices(<<>>) = {} /\ CountedRestarts(<<>>) = {}
  BY DEF ResourceIndices, CountedRestarts, CrashIndices, SinceClean
<1>2. ResourceCrashes(<<>>) = 0 /\ Cardinality(CountedRestarts(<<>>)) = 0
  BY <1>1, FS_EmptySet, Counts
<1> QED BY <1>2, SupervisorAssumption DEF Kept, Shed, WithinBudget, UptimesAreTrue

-----------------------------------------------------------------------------
(* What handleDeath and spawnChild do to them. *)

\* handleDeath records one death, whose session is the only one it may offer.
LEMMA DiedKeeps ==
  ASSUME NEW s \in Situations, NEW kind \in Kinds, NEW stable \in BOOLEAN,
         NEW ran \in BOOLEAN, NEW session \in SessionInfo, NEW active \in BOOLEAN,
         plan \in Profiles, Kept(s.history, s.floor), SpawnMayThrow \/ stable = ran,
         Died(s, kind, stable, ran, session, active)
  PROVE  /\ Kept(history', floor')
         /\ kind \notin ResourceKinds => floor' = s.floor
         /\ interrupted' \in {session.id, s.interrupted}
<1> DEFINE death(a) == [kind |-> kind, stable |-> stable, ran |-> ran, auto |-> a]
           decision == Decide(Append(s.history, death(FALSE)))
           d == death(decision = "auto_restart")
           h == Append(s.history, d)
<1>1. s.history \in Seq(Deaths) /\ s.floor \in Profiles
  BY DEF Situations
<1>2. /\ d \in Deaths /\ d.kind = kind /\ d.stable = stable /\ d.ran = ran
      /\ d.auto = (decision = "auto_restart")
  <2>1. ASSUME NEW a \in BOOLEAN
        PROVE  /\ death(a) \in Deaths /\ death(a).kind = kind /\ death(a).stable = stable
               /\ death(a).ran = ran /\ death(a).auto = a
    BY DEF Deaths
  <2> HIDE DEF death
  <2> QED BY <2>1
<1>3. /\ death(FALSE) \in Deaths /\ death(FALSE).kind = kind
      /\ death(FALSE).stable = stable
  BY DEF Deaths
<1>4. /\ history' = h
      /\ floor' = IF kind \in ResourceKinds
                    THEN Tighter(s.floor, ShedProfile(plan, h)) ELSE s.floor
      /\ interrupted' \in {session.id, s.interrupted}
  BY DEF Died, Become
<1>5. WithinBudget(Append(s.history, d))
  <2> HIDE DEF d, death
  <2> QED BY <1>1, <1>2, <1>3, BudgetAppend DEF Kept
<1> HIDE DEF d, decision
<1>6. Shed(history', floor')
  BY <1>1, <1>2, <1>4, ShedAppend DEF Kept
<1>7. ~SpawnMayThrow => UptimesAreTrue(history')
  BY <1>1, <1>2, <1>4, UptimesAppend DEF Kept
<1> QED BY <1>4, <1>5, <1>6, <1>7 DEF Kept

\* spawnChild starts the engine in a profile that sheds what the recorded deaths demand.
LEMMA SpawnKeeps ==
  ASSUME TypeOK, NEW s \in Situations, NEW pr \in Processes,
         NEW dir \in Projects \union {NoProject}, NEW session \in SessionInfo,
         Kept(s.history, s.floor), SpawnChild(s, pr, dir, session)
  PROVE  /\ Kept(history', floor') /\ Shed(history', plan')
         /\ interrupted' \in {session.id, s.interrupted}
         /\ child' # NoEngine => home'[child'] = dir
<1> DEFINE routed == IF s.phase # "spawning" /\ "spawning" \notin Legal(s.phase)
                       THEN Enter(s.phase, "restarting") ELSE s.phase
           t == [s EXCEPT !.phase = Enter(routed, "spawning")]
<1>1. s.phase \in Phases /\ s.floor \in Profiles /\ s.history \in Seq(Deaths)
        /\ s.timer \in BOOLEAN /\ s.interrupted \in AnySession
  BY DEF Situations
<1>2. t.floor = s.floor /\ t.history = s.history /\ t.interrupted = s.interrupted
        /\ t \in Situations
  BY <1>1, SpawningIsReached DEF Situations, Phases, StartupPhases
<1>3. PICK mem \in MemoryProfiles : plan' = Tighter(mem, s.floor)
  BY DEF SpawnChild
<1>4. mem \in Profiles /\ generation' \in Launches
  BY <1>3, SpawnStep, SupervisorAssumption
<1>5. ASSUME Kept(history', floor'), floor' = s.floor
      PROVE  Shed(history', plan')
  BY <1>1, <1>3, <1>4, <1>5, TighterSheds DEF Kept
<1>6. CASE /\ child' = generation + 1 /\ home' = [home EXCEPT ![generation + 1] = dir]
           /\ Become(t)
  <2>1. history' = s.history /\ floor' = s.floor /\ interrupted' = s.interrupted
    BY <1>2, <1>6 DEF Become
  <2>2. generation' = generation + 1 /\ home \in [Launches -> Projects \union {NoProject}]
    BY DEF SpawnChild, TypeOK
  <2> QED BY <1>4, <1>5, <1>6, <2>1, <2>2
<1>7. CASE /\ SpawnMayThrow
           /\ Died(t, "spawn_error", launchAge >= StableTime, FALSE, session, FALSE)
  <2>1. "spawn_error" \in Kinds /\ "spawn_error" \notin ResourceKinds
          /\ (launchAge >= StableTime) \in BOOLEAN
    BY DEF Kinds, ResourceKinds
  <2>2. plan \in Profiles
    BY DEF TypeOK
  <2> HIDE DEF t
  <2>3. Kept(t.history, t.floor)
    BY <1>2
  <2>4. /\ Kept(history', floor') /\ floor' = s.floor
        /\ interrupted' \in {session.id, s.interrupted}
    BY <1>2, <1>7, <2>1, <2>2, <2>3, DiedKeeps
  <2>5. child' = NoEngine
    BY <1>7 DEF Died
  <2> QED BY <1>5, <2>4, <2>5
<1> QED BY <1>6, <1>7 DEF SpawnChild

\* What is handed to them from the current state.
LEMMA HereFields ==
  ASSUME TypeOK
  PROVE  /\ Here.history = history /\ Here.floor = floor /\ Here.interrupted = interrupted
         /\ \A f : LET s == [Here EXCEPT !.floor = f]
                  IN  s.history = history /\ s.floor = f /\ s.interrupted = interrupted
         /\ LET s == [Here EXCEPT !.history = <<>>, !.floor = "full",
                                  !.interrupted = NoSession]
            IN  s.history = <<>> /\ s.floor = "full" /\ s.interrupted = NoSession
         /\ \A s \in Situations :
              LET t == [s EXCEPT !.timer = FALSE]
              IN  /\ t.history = s.history /\ t.floor = s.floor
                  /\ t.interrupted = s.interrupted
BY DEF Here, Situations

LEMMA ReplaceKeeps ==
  ASSUME TypeOK, NEW s \in Situations,
         NEW dir \in Projects \union {NoProject}, NEW session \in SessionInfo,
         Kept(s.history, s.floor), Replace(s, dir, session)
  PROVE  /\ Kept(history', floor') /\ Shed(history', plan')
         /\ interrupted' \in {session.id, s.interrupted}
         /\ child' # NoEngine => home'[child'] = dir
<1> DEFINE t == [s EXCEPT !.timer = FALSE]
<1>1. Termed(proc, child) \in Processes
  BY TermedType DEF TypeOK, Processes
<1>2. /\ t \in Situations /\ t.history = s.history /\ t.floor = s.floor
      /\ t.interrupted = s.interrupted
  BY HereType, HereFields
<1>3. SpawnChild(t, Termed(proc, child), dir, session)
  BY DEF Replace
<1> HIDE DEF t
<1> QED BY <1>1, <1>2, <1>3, SpawnKeeps

\* A restart the user asks for only tightens the floor, and stays in the project.
LEMMA ManualRestartKeeps ==
  ASSUME TypeOK, Kept(history, floor), NEW f \in Profiles, ManualRestart(Tighter(floor, f))
  PROVE  /\ Kept(history', floor') /\ Shed(history', plan')
         /\ interrupted' \in {lastSession.id, interrupted}
         /\ child' # NoEngine => home'[child'] = project
<1> DEFINE s == [Here EXCEPT !.floor = Tighter(floor, f)]
<1>1. /\ s \in Situations /\ s.history = history /\ s.floor = Tighter(floor, f)
      /\ s.interrupted = interrupted
  BY HereType, HereFields, TighterType DEF TypeOK
<1>2. Kept(s.history, s.floor)
  BY <1>1, TighterSheds DEF Kept, TypeOK
<1>3. project \in Projects \union {NoProject} /\ lastSession \in SessionInfo
  BY DEF TypeOK, SessionInfo
<1>4. Replace(s, project, lastSession)
  BY DEF ManualRestart
<1> HIDE DEF s
<1> QED BY <1>1, <1>2, <1>3, <1>4, ReplaceKeeps

\* Every manual restart is of that form.
LEMMA Tightened ==
  ASSUME floor \in Profiles
  PROVE  Tighter(floor, "full") = floor /\ Tighter(floor, "minimal") = "minimal"
BY DEF Tighter, Tightness, Profiles

-----------------------------------------------------------------------------
(* The budget and the shed capabilities. *)

\* A step keeps the history and the floor in order, and what it launches is shed.
LEMMA KeptStep ==
  ASSUME TypeOK, Kept(history, floor), [Next]_vars
  PROVE  Kept(history', floor') /\ (generation' # generation => Shed(history', plan'))
<1> DEFINE Goal == Kept(history', floor') /\ (generation' # generation => Shed(history', plan'))
<1>0. ASSUME UNCHANGED <<history, floor, generation>> PROVE Goal
  BY <1>0
<1>1. floor \in Profiles /\ "full" \in Profiles /\ "minimal" \in Profiles
        /\ "conservative" \in Profiles /\ lastSession \in SessionInfo
        /\ project \in Projects \union {NoProject}
  BY DEF TypeOK, Profiles, SessionInfo
<1>2. ASSUME ManualRestart(floor) \/ ManualRestart("minimal")
             \/ ManualRestart(Tighter(floor, "conservative"))
      PROVE  Goal
  BY <1>1, <1>2, ManualRestartKeeps, Tightened
<1>3. CASE UserStep
  <2>1. ASSUME NEW p \in Projects, OpenProject(p) PROVE Goal
    <3> DEFINE s == [Here EXCEPT !.history = <<>>, !.floor = "full",
                                 !.interrupted = NoSession]
    <3>1. lastSession' \in SessionInfo
      BY <2>1 DEF OpenProject, SessionInfo, AnySession
    <3>2. s \in Situations /\ Kept(s.history, s.floor)
      BY HereType, HereFields, EmptyKeeps
    <3>3. Replace(s, p, lastSession')
      BY <2>1 DEF OpenProject
    <3> HIDE DEF s
    <3> QED BY <3>1, <3>2, <3>3, ReplaceKeeps
  <2>2. CASE Stop \/ Dispose
    BY <1>0, <2>2 DEF Stop, Dispose
  <2>3. CASE Retry \/ StartMinimal
    BY <1>2, <2>3 DEF Retry, StartMinimal
  <2>4. ASSUME NEW s, RestartSafe(s) \/ RequestResume(s) PROVE Goal
    BY <1>0, <1>2, <2>4 DEF RestartSafe, RequestResume, lifeVars, launchVars
  <2>5. ASSUME NEW r, QueueRead(r) PROVE Goal
    BY <1>0, <2>5 DEF QueueRead, lifeVars, launchVars
  <2> QED BY <1>3, <2>1, <2>2, <2>3, <2>4, <2>5 DEF UserStep
<1>4. ASSUME NEW g \in Launches, EngineStep(g) PROVE Goal
  <2>1. ASSUME NEW kind \in Kinds, Ended(g, kind) PROVE Goal
    <3>1. CASE ~Current(g)
      BY <1>0, <2>1, <3>1 DEF Ended, lifeVars, launchVars
    <3>2. CASE Current(g)
      <4> DEFINE ran == launchAge >= StableTime
                 active == beat = "active"
      <4>1. /\ Here \in Situations /\ Here.history = history /\ Here.floor = floor
            /\ plan \in Profiles /\ ran \in BOOLEAN /\ active \in BOOLEAN
        BY HereType, HereFields DEF TypeOK
      <4>2. Died(Here, kind, ran, ran, lastSession, active) /\ UNCHANGED generation
        BY <2>1, <3>2 DEF Ended
      <4> HIDE DEF ran, active
      <4>3. Kept(history', floor')
        BY <1>1, <4>1, <4>2, DiedKeeps
      <4> QED BY <4>2, <4>3
    <3> QED BY <3>1, <3>2
  <2>2. ASSUME NEW how \in Exits, Exit(g, how) PROVE Goal
    BY <2>1, <2>2, ClassifyType DEF Exit, TypeOK
  <2>3. CASE SpawnError(g)
    BY <2>1, <2>3 DEF SpawnError, Kinds
  <2>4. ASSUME NEW x, NEW y, Hello(g, x, y) \/ Snapshot(g, x, y) PROVE Goal
    BY <1>0, <2>4 DEF Hello, Snapshot, lifeVars, launchVars
  <2>5. ASSUME NEW x, Boot(g, x) \/ Health(g, x) \/ Ready(g, x) PROVE Goal
    BY <1>0, <2>5 DEF Boot, Health, Ready, lifeVars, launchVars
  <2>6. CASE Malformed(g)
    BY <1>0, <2>6 DEF Malformed, lifeVars
  <2> QED BY <1>4, <2>2, <2>3, <2>4, <2>5, <2>6 DEF EngineStep
<1>5. CASE TimerStep
  <2>1. CASE RestartFires
    <3> DEFINE s == [Here EXCEPT !.timer = FALSE]
    <3>1. s \in Situations /\ s.history = history /\ s.floor = floor /\ proc \in Processes
      BY HereType, HereFields DEF TypeOK, Processes
    <3>2. SpawnChild(s, proc, project, lastSession)
      BY <2>1 DEF RestartFires
    <3> HIDE DEF s
    <3> QED BY <1>1, <3>1, <3>2, SpawnKeeps
  <2>2. CASE LeaveWindow
    BY <2>2, TailKeeps DEF LeaveWindow, launchVars, TypeOK
  <2>3. ASSUME NEW g, KillFires(g) PROVE Goal
    BY <1>0, <2>3 DEF KillFires, lifeVars, launchVars
  <2>4. CASE TickStartup \/ TickHeartbeat
    BY <1>0, <2>4 DEF TickStartup, TickHeartbeat, Condemn, lifeVars
  <2>5. CASE Elapse
    BY <1>0, <2>5 DEF Elapse, lifeVars
  <2> QED BY <1>5, <2>1, <2>2, <2>3, <2>4, <2>5 DEF TimerStep
<1>6. CASE UNCHANGED vars
  BY <1>0, <1>6 DEF vars, lifeVars, launchVars
<1> QED BY <1>3, <1>4, <1>5, <1>6 DEF Next

LEMMA KeptAlways == Spec => []Kept(history, floor)
<1>1. Init => Kept(history, floor)
  BY EmptyKeeps DEF Init
<1>2. TypeOK /\ Kept(history, floor) /\ [Next]_vars => Kept(history, floor)'
  BY KeptStep
<1> QED BY <1>1, <1>2, TypeCorrect, PTL DEF Spec

\* Resource deaths that still count keep capabilities shed, whatever mix of restarts,
\* later deaths and forgotten ones follows.
THEOREM ResourceDeathsAlwaysShed == Spec => []ResourceDeathsShed
<1>1. Kept(history, floor) => ResourceDeathsShed
  BY DEF Kept, Shed, ResourceDeathsShed
<1> QED BY <1>1, KeptAlways, PTL

\* The profile an engine is launched in is already the shed one: after two counted
\* resource deaths only minimal engines start, after one no full one does.
LaunchesAreShed == [][generation' # generation => Shed(history', plan')]_vars

\* No engine is ever launched in a profile that the resource deaths still counted against
\* it have taken away, in any behaviour of the supervisor.
THEOREM LaunchesAlwaysShed == Spec => LaunchesAreShed
<1>1. TypeOK /\ Kept(history, floor) /\ [Next]_vars =>
        [generation' # generation => Shed(history', plan')]_vars
  BY KeptStep
<1> QED BY <1>1, KeptAlways, TypeCorrect, PTL DEF Spec, LaunchesAreShed

\* Between two runs that the policy takes for stable it grants at most MaxAttempts
\* automatic restarts, even where launches throw.
PolicyBudget == WithinBudget(history)

\* The policy keeps its own budget in every behaviour, whether or not a launch may throw.
THEOREM PolicyBudgetAlwaysHolds == Spec => []PolicyBudget
<1>1. Kept(history, floor) => PolicyBudget
  BY DEF Kept, PolicyBudget
<1> QED BY <1>1, KeptAlways, PTL

\* Where launches do not throw, uptimes are true, and the policy's budget bounds the
\* restarts between two runs that really lasted.
THEOREM RestartBudgetHolds ==
  ASSUME ~SpawnMayThrow
  PROVE  Spec => []RestartBudget
<1>1. TypeOK /\ Kept(history, floor) => RestartBudget
  <2> SUFFICES ASSUME TypeOK, Kept(history, floor) PROVE RestartBudget
    OBVIOUS
  <2>1. history \in Seq(Deaths) /\ UptimesAreTrue(history) /\ WithinBudget(history)
    BY DEF TypeOK, Kept
  <2>2. ASSUME NEW i \in SinceClean(history), NEW j \in (i + 1)..Len(history)
        PROVE  history[j].stable = history[j].ran
    <3>1. j \in 1..Len(history)
      BY <2>1 DEF SinceClean
    <3> QED BY <2>1, <3>1, Zenon DEF UptimesAreTrue
  <2>3. FruitlessRestarts \subseteq CountedRestarts(history)
    BY <2>2, Zenon DEF FruitlessRestarts, CountedRestarts, CrashIndices
  <2>4. IsFiniteSet(CountedRestarts(history)) /\ Cardinality(CountedRestarts(history)) \in Nat
    BY <2>1, IndicesAreFinite DEF CountedRestarts, CrashIndices
  <2>5. /\ Cardinality(FruitlessRestarts) \in Nat
        /\ Cardinality(FruitlessRestarts) <= Cardinality(CountedRestarts(history))
    BY <2>3, <2>4, FS_Subset, FS_CardinalityType
  <2> QED BY <2>1, <2>4, <2>5, SupervisorAssumption DEF WithinBudget, RestartBudget
<1> QED BY <1>1, KeptAlways, TypeCorrect, PTL

-----------------------------------------------------------------------------
(* One project at a time. *)

\* The strengthening of ProjectIsolation: the held engine was started in the open
\* project, so the sessions it reports are that project's.
Isolated ==
  /\ ProjectIsolation
  /\ child # NoEngine => home[child] = project

SessionsHere == SessionsOf(project) \union {NoSession}

\* A manual restart keeps the project's things, and what is queued with them.
LEMMA RestartIsolates ==
  ASSUME TypeOK, Isolated, Kept(history, floor), NEW f \in Profiles,
         ManualRestart(Tighter(floor, f)), UNCHANGED <<project, queue, lastSession>>,
         pendingResume' \in SessionsHere
  PROVE  Isolated'
<1>1. interrupted' \in SessionsHere /\ (child' # NoEngine => home'[child'] = project)
  BY ManualRestartKeeps DEF Isolated, ProjectIsolation, SessionsHere
<1> QED BY <1>1 DEF Isolated, ProjectIsolation, SessionsHere

\* A handler that neither launches nor ends an engine nor opens a project.
LEMMA QuietIsolates ==
  ASSUME Isolated, UNCHANGED <<child, home, project, lastSession>>,
         queue' = queue \/ queue' = <<>>,
         {pendingResume', interrupted'} \subseteq SessionsHere
  PROVE  Isolated'
BY DEF Isolated, ProjectIsolation, SessionsHere

\* One more read from the open project, and the oldest one dropped at the limit.
LEMMA QueueReadIsolates ==
  ASSUME TypeOK, Isolated, NEW r \in Reads, QueueRead(r)
  PROVE  Isolated'
<1> DEFINE m == [msg |-> r, from |-> project]
           q == Append(queue, m)
           Messages == [msg : Reads, from : Projects \union {NoProject}]
<1>1. queue \in Seq(Messages) /\ m \in Messages /\ m.from = project
        /\ \A i \in 1..Len(queue) : queue[i].from = project
  BY DEF TypeOK, Isolated, ProjectIsolation
<1> HIDE DEF m, Messages
<1>2. /\ q \in Seq(Messages) /\ Len(queue) \in Nat /\ Len(q) = Len(queue) + 1
      /\ q[Len(queue) + 1] = m /\ q # <<>>
      /\ \A i \in 1..Len(queue) : q[i] = queue[i]
  BY <1>1, AppendProperties
<1>3. \A i \in 1..Len(q) : q[i].from = project
  BY <1>1, <1>2
<1>4. queue' = (IF Len(q) > MaxQueue THEN Tail(q) ELSE q)
        /\ UNCHANGED <<child, home, project, lastSession, pendingResume, interrupted>>
  BY DEF QueueRead, m, lifeVars, launchVars, processVars
<1> HIDE DEF q
<1>5. \A i \in 1..Len(Tail(q)) : Tail(q)[i].from = project
  <2>1. /\ Len(Tail(q)) = Len(q) - 1
        /\ \A i \in 1..Len(Tail(q)) : Tail(q)[i] = q[i + 1]
    BY <1>2, HeadTailProperties
  <2> QED BY <1>2, <1>3, <2>1
<1> QED BY <1>3, <1>4, <1>5 DEF Isolated, ProjectIsolation

\* A step keeps what is queued, resumed or offered in the open project.
LEMMA IsolationStep ==
  ASSUME TypeOK, IInv, Kept(history, floor), Isolated, [Next]_vars
  PROVE  Isolated'
<1>1. /\ floor \in Profiles /\ "full" \in Profiles /\ "minimal" \in Profiles
      /\ "conservative" \in Profiles /\ lastSession \in SessionInfo
      /\ project \in Projects \union {NoProject}
      /\ {pendingResume, interrupted, lastSession.id, NoSession} \subseteq SessionsHere
  BY DEF TypeOK, Profiles, SessionInfo, Isolated, ProjectIsolation, SessionsHere
<1>2. ASSUME ManualRestart(floor) \/ ManualRestart("minimal")
             \/ ManualRestart(Tighter(floor, "conservative")),
             UNCHANGED <<project, queue, lastSession>>, pendingResume' \in SessionsHere
      PROVE  Isolated'
  BY <1>1, <1>2, RestartIsolates, Tightened
<1>3. CASE UserStep
  <2>1. ASSUME NEW p \in Projects, OpenProject(p) PROVE Isolated'
    <3> DEFINE s == [Here EXCEPT !.history = <<>>, !.floor = "full",
                                 !.interrupted = NoSession]
    <3>1. /\ lastSession' \in SessionInfo /\ lastSession'.id = NoSession
          /\ project' = p /\ queue' = <<>> /\ pendingResume' = NoSession
      BY <2>1 DEF OpenProject, SessionInfo, AnySession
    <3>2. s \in Situations /\ Kept(s.history, s.floor) /\ s.interrupted = NoSession
      BY HereType, HereFields, EmptyKeeps
    <3>3. Replace(s, p, lastSession')
      BY <2>1 DEF OpenProject
    <3> HIDE DEF s
    <3>4. interrupted' = NoSession /\ (child' # NoEngine => home'[child'] = p)
      BY <3>1, <3>2, <3>3, ReplaceKeeps
    <3> QED BY <3>1, <3>4 DEF Isolated, ProjectIsolation
  <2>2. CASE Stop
    BY <1>1, <2>2, QuietIsolates DEF Stop, KillCurrentChild, clientVars, processVars
  <2>3. CASE Dispose
    BY <2>3 DEF Dispose, clientVars, Isolated, ProjectIsolation
  <2>4. CASE Retry \/ StartMinimal
    BY <1>1, <1>2, <2>4 DEF Retry, StartMinimal, clientVars
  <2>5. ASSUME NEW s \in SessionsHere, RestartSafe(s) PROVE Isolated'
    <3>1. pendingResume' \in SessionsHere /\ UNCHANGED <<project, queue, lastSession>>
      BY <1>1, <2>5 DEF RestartSafe
    <3>2. CASE UNCHANGED <<lifeVars, launchVars, processVars>>
      BY <1>1, <3>1, <3>2, QuietIsolates DEF lifeVars, launchVars, processVars
    <3> QED BY <1>2, <2>5, <3>1, <3>2 DEF RestartSafe
  <2>6. ASSUME NEW s \in SessionsOf(project), RequestResume(s) PROVE Isolated'
    <3>1. pendingResume' \in SessionsHere /\ UNCHANGED <<project, queue, lastSession>>
      BY <1>1, <2>6 DEF RequestResume, SessionsHere
    <3>2. CASE UNCHANGED <<launchVars, processVars>>
                 /\ (interrupted' = NoSession \/ UNCHANGED interrupted)
      BY <1>1, <3>1, <3>2, QuietIsolates DEF launchVars, processVars
    <3> QED BY <1>2, <2>6, <3>1, <3>2 DEF RequestResume, lifeVars
  <2>7. ASSUME NEW r \in Reads, QueueRead(r) PROVE Isolated'
    BY <2>7, QueueReadIsolates
  <2> QED BY <1>3, <2>1, <2>2, <2>3, <2>4, <2>5, <2>6, <2>7 DEF UserStep, SessionsHere
<1>4. ASSUME NEW g \in Launches, EngineStep(g) PROVE Isolated'
  <2>0. ASSUME UNCHANGED <<child, home, project, lastSession, queue, pendingResume,
                           interrupted>>
        PROVE  Isolated'
    BY <1>1, <2>0, QuietIsolates
  <2>1. ASSUME NEW kind \in Kinds, Ended(g, kind) PROVE Isolated'
    <3>1. CASE ~Current(g)
      BY <2>0, <2>1, <3>1 DEF Ended, lifeVars, launchVars, clientVars
    <3>2. CASE Current(g)
      <4> DEFINE ran == launchAge >= StableTime
                 active == beat = "active"
      <4>1. /\ Here \in Situations /\ Here.history = history /\ Here.floor = floor
            /\ Here.interrupted = interrupted
            /\ plan \in Profiles /\ ran \in BOOLEAN /\ active \in BOOLEAN
        BY HereType, HereFields DEF TypeOK
      <4>2. /\ Died(Here, kind, ran, ran, lastSession, active)
            /\ UNCHANGED <<project, queue, pendingResume, lastSession>>
        BY <2>1, <3>2 DEF Ended, clientVars
      <4>3. child' = NoEngine
        BY <4>2 DEF Died
      <4> HIDE DEF ran, active
      <4>4. interrupted' \in {lastSession.id, interrupted}
        BY <1>1, <4>1, <4>2, DiedKeeps
      <4> QED BY <1>1, <4>2, <4>3, <4>4 DEF Isolated, ProjectIsolation, SessionsHere
    <3> QED BY <3>1, <3>2
  <2>2. ASSUME NEW how \in Exits, Exit(g, how) PROVE Isolated'
    BY <2>1, <2>2, ClassifyType DEF Exit, TypeOK
  <2>3. CASE SpawnError(g)
    BY <2>1, <2>3 DEF SpawnError, Kinds
  <2>4. ASSUME NEW major, NEW overlaps, Hello(g, major, overlaps) PROVE Isolated'
    BY <2>0, <2>4 DEF Hello, KillCurrentChild, lifeVars, clientVars, processVars
  <2>5. ASSUME NEW s \in SessionsOf(home[g]), NEW work \in BOOLEAN, Snapshot(g, s, work)
        PROVE  Isolated'
    <3>1. child = g /\ child # NoEngine
      BY <2>5, CurrentIsHeld DEF Snapshot
    <3>2. s \in SessionsHere
      BY <2>5, <3>1 DEF Isolated, SessionsHere
    <3>3. /\ lastSession' = [id |-> s, work |-> work]
          /\ UNCHANGED <<child, home, project, queue, pendingResume, interrupted>>
      BY <2>5 DEF Snapshot, lifeVars, launchVars, processVars
    <3> QED BY <3>2, <3>3 DEF Isolated, ProjectIsolation, SessionsHere
  <2>6. ASSUME NEW x, Boot(g, x) \/ Health(g, x) PROVE Isolated'
    BY <2>0, <2>6 DEF Boot, Health, lifeVars, launchVars, clientVars, processVars
  <2>7. ASSUME NEW major, Ready(g, major) PROVE Isolated'
    <3>1. /\ UNCHANGED <<child, home, project, lastSession>>
          /\ queue' = queue \/ queue' = <<>>
          /\ pendingResume' \in {pendingResume, NoSession}
          /\ interrupted' \in {interrupted, NoSession}
      BY <2>7 DEF Ready, KillCurrentChild, processVars
    <3> QED BY <1>1, <3>1, QuietIsolates
  <2>8. CASE Malformed(g)
    BY <2>0, <2>8 DEF Malformed, KillCurrentChild, lifeVars, clientVars, processVars
  <2> QED BY <1>4, <2>2, <2>3, <2>4, <2>5, <2>6, <2>7, <2>8 DEF EngineStep
<1>5. CASE TimerStep
  <2>0. ASSUME UNCHANGED <<child, home, interrupted, clientVars>>
        PROVE  Isolated'
    BY <1>1, <2>0, QuietIsolates DEF clientVars
  <2>1. CASE RestartFires
    <3> DEFINE s == [Here EXCEPT !.timer = FALSE]
    <3>1. /\ s \in Situations /\ s.history = history /\ s.floor = floor
          /\ s.interrupted = interrupted /\ proc \in Processes
      BY HereType, HereFields DEF TypeOK, Processes
    <3>2. SpawnChild(s, proc, project, lastSession)
            /\ UNCHANGED <<project, queue, pendingResume, lastSession>>
      BY <2>1 DEF RestartFires, clientVars
    <3> HIDE DEF s
    <3>3. /\ interrupted' \in {lastSession.id, interrupted}
          /\ child' # NoEngine => home'[child'] = project
      BY <1>1, <3>1, <3>2, SpawnKeeps
    <3> QED BY <1>1, <3>2, <3>3 DEF Isolated, ProjectIsolation, SessionsHere
  <2>2. CASE LeaveWindow
    BY <2>0, <2>2 DEF LeaveWindow, launchVars, processVars
  <2>3. ASSUME NEW g, KillFires(g) PROVE Isolated'
    BY <2>0, <2>3 DEF KillFires, lifeVars, launchVars
  <2>4. CASE TickStartup \/ TickHeartbeat
    BY <2>0, <2>4 DEF TickStartup, TickHeartbeat, Condemn, KillCurrentChild, lifeVars
  <2>5. CASE Elapse
    BY <2>0, <2>5 DEF Elapse, lifeVars, processVars
  <2> QED BY <1>5, <2>1, <2>2, <2>3, <2>4, <2>5 DEF TimerStep
<1>6. CASE UNCHANGED vars
  BY <1>1, <1>6, QuietIsolates DEF vars, lifeVars, launchVars, clientVars, processVars
<1> QED BY <1>3, <1>4, <1>5, <1>6 DEF Next

\* Nothing queued, to be resumed or offered after a crash ever comes from a project that
\* is no longer open, whichever engines of older projects still run.
THEOREM ProjectAlwaysIsolated == Spec => []ProjectIsolation
<1>1. Init => Isolated
  BY DEF Init, Isolated, ProjectIsolation
<1>2. TypeOK /\ IInv /\ Kept(history, floor) /\ Isolated /\ [Next]_vars => Isolated'
  BY IsolationStep
<1>3. Isolated => ProjectIsolation
  BY DEF Isolated
<1> QED BY <1>1, <1>2, <1>3, TypeCorrect, Invariance, KeptAlways, PTL DEF Spec

-----------------------------------------------------------------------------
(* A superseded engine ends unnoticed. *)

\* A launch ends no process.
LEMMA SpawnEndsNone ==
  ASSUME TypeOK, NEW s \in Situations, NEW pr \in Processes,
         NEW dir \in Projects \union {NoProject}, NEW session \in SessionInfo,
         SpawnChild(s, pr, dir, session), NEW g \in Launches, pr[g] # "gone"
  PROVE  proc'[g] # "gone"
<1>1. \/ proc' = [pr EXCEPT ![generation'] = "up"]
      \/ proc' = pr
  BY SpawnStep
<1> QED BY <1>1 DEF Processes

\* Nor does a SIGTERM.
LEMMA TermedEndsNone ==
  ASSUME NEW pr \in Processes, NEW c \in Launches \union {NoEngine},
         NEW g \in Launches, pr[g] # "gone"
  PROVE  Termed(pr, c) \in Processes /\ Termed(pr, c)[g] # "gone"
BY DEF Termed, Processes

LEMMA ReplaceEndsNone ==
  ASSUME TypeOK, NEW s \in Situations,
         NEW dir \in Projects \union {NoProject}, NEW session \in SessionInfo,
         Replace(s, dir, session), NEW g \in Launches, Alive(g)
  PROVE  proc'[g] # "gone"
<1>1. [s EXCEPT !.timer = FALSE] \in Situations
  BY HereType
<1>2. proc \in Processes /\ child \in Launches \union {NoEngine} /\ proc[g] # "gone"
  BY DEF TypeOK, Processes, Alive
<1> QED BY <1>1, <1>2, TermedEndsNone, SpawnEndsNone DEF Replace

LEMMA ManualRestartEndsNone ==
  ASSUME TypeOK, NEW f \in Profiles, ManualRestart(f), NEW g \in Launches, Alive(g)
  PROVE  proc'[g] # "gone"
<1>1. [Here EXCEPT !.floor = f] \in Situations
  BY HereType
<1>2. project \in Projects \union {NoProject} /\ lastSession \in SessionInfo
  BY DEF TypeOK, SessionInfo
<1> QED BY <1>1, <1>2, ReplaceEndsNone DEF ManualRestart

\* A process is gone only by its own exit.
LEMMA OnlyItsExitEndsIt ==
  ASSUME TypeOK, [Next]_vars, NEW g \in Launches, Alive(g), proc'[g] = "gone"
  PROVE  \E kind : Ended(g, kind)
<1>1. /\ proc \in Processes /\ child \in Launches \union {NoEngine} /\ proc[g] # "gone"
      /\ floor \in Profiles /\ "minimal" \in Profiles
      /\ Tighter(floor, "conservative") \in Profiles
      /\ project \in Projects \union {NoProject} /\ lastSession \in SessionInfo
  BY TighterType DEF TypeOK, Processes, Alive, Profiles, SessionInfo
<1>2. ASSUME proc' = Termed(proc, child) \/ UNCHANGED proc PROVE FALSE
  BY <1>1, <1>2, TermedEndsNone
<1>3. ASSUME ManualRestart(floor) \/ ManualRestart("minimal")
             \/ ManualRestart(Tighter(floor, "conservative"))
      PROVE  FALSE
  BY <1>1, <1>3, ManualRestartEndsNone
<1>4. CASE UserStep
  <2>1. ASSUME NEW p \in Projects, OpenProject(p) PROVE FALSE
    <3>1. lastSession' \in SessionInfo
      BY <2>1 DEF OpenProject, SessionInfo, AnySession
    <3> QED BY <2>1, <3>1, HereType, ReplaceEndsNone DEF OpenProject
  <2>2. ASSUME Stop \/ Dispose PROVE FALSE
    BY <1>2, <2>2 DEF Stop, Dispose, KillCurrentChild, processVars
  <2>3. ASSUME Retry \/ StartMinimal PROVE FALSE
    BY <1>3, <2>3 DEF Retry, StartMinimal
  <2>4. ASSUME NEW s, RestartSafe(s) \/ RequestResume(s) PROVE FALSE
    BY <1>2, <1>3, <2>4 DEF RestartSafe, RequestResume, processVars
  <2>5. ASSUME NEW r, QueueRead(r) PROVE FALSE
    BY <1>2, <2>5 DEF QueueRead, processVars
  <2> QED BY <1>4, <2>1, <2>2, <2>3, <2>4, <2>5 DEF UserStep
<1>5. ASSUME NEW f \in Launches, EngineStep(f) PROVE \E kind : Ended(g, kind)
  <2>1. ASSUME NEW kind, Ended(f, kind) PROVE Ended(g, kind)
    BY <1>1, <2>1 DEF Ended, Processes
  <2>2. ASSUME NEW how, Exit(f, how) PROVE \E kind : Ended(g, kind)
    BY <2>1, <2>2 DEF Exit
  <2>3. ASSUME SpawnError(f) PROVE \E kind : Ended(g, kind)
    BY <2>1, <2>3 DEF SpawnError
  <2>4. ASSUME NEW x, NEW y, Hello(f, x, y) \/ Snapshot(f, x, y) PROVE FALSE
    BY <1>2, <2>4 DEF Hello, Snapshot, KillCurrentChild, processVars
  <2>5. ASSUME NEW x, Boot(f, x) \/ Health(f, x) \/ Ready(f, x) PROVE FALSE
    BY <1>2, <2>5 DEF Boot, Health, Ready, KillCurrentChild, processVars
  <2>6. ASSUME Malformed(f) PROVE FALSE
    BY <1>2, <2>6 DEF Malformed, KillCurrentChild, processVars
  <2> QED BY <1>5, <2>2, <2>3, <2>4, <2>5, <2>6 DEF EngineStep
<1>6. CASE TimerStep
  <2>1. ASSUME RestartFires PROVE FALSE
    BY <1>1, <2>1, HereType, SpawnEndsNone DEF RestartFires
  <2>2. ASSUME NEW f, KillFires(f) PROVE FALSE
    BY <1>1, <2>2 DEF KillFires, Processes
  <2>3. ASSUME TickStartup \/ TickHeartbeat PROVE FALSE
    BY <1>2, <2>3 DEF TickStartup, TickHeartbeat, Condemn, KillCurrentChild
  <2>4. ASSUME Elapse \/ LeaveWindow PROVE FALSE
    BY <1>2, <2>4 DEF Elapse, LeaveWindow, processVars
  <2> QED BY <1>6, <2>1, <2>2, <2>3, <2>4 DEF TimerStep
<1>7. CASE UNCHANGED vars
  BY <1>2, <1>7 DEF vars, processVars
<1> QED BY <1>4, <1>5, <1>6, <1>7 DEF Next

\* The exit of an engine the supervisor no longer holds changes nothing it acts on.
THEOREM StaleExitsAreInert == Spec => StaleExitIsInert
<1> DEFINE Unnoticed ==
             (\E g \in Launches : Alive(g) /\ g # child /\ proc'[g] = "gone")
               => UNCHANGED <<lifeVars, launchVars, clientVars>>
<1>1. ASSUME TypeOK, IInv, [Next]_vars PROVE Unnoticed
  <2> SUFFICES ASSUME NEW g \in Launches, Alive(g), g # child, proc'[g] = "gone"
               PROVE  UNCHANGED <<lifeVars, launchVars, clientVars>>
    OBVIOUS
  <2>1. PICK kind : Ended(g, kind)
    BY <1>1, OnlyItsExitEndsIt
  <2>2. ~Current(g)
    BY <1>1 DEF IInv
  <2> QED BY <2>1, <2>2 DEF Ended
<1>2. TypeOK /\ IInv /\ [Next]_vars => [Unnoticed]_vars
  BY <1>1
<1> QED BY <1>2, TypeCorrect, Invariance, PTL DEF Spec, StaleExitIsInert
=============================================================================

--------------------------- MODULE ModelCallsProof ---------------------------
(***************************************************************************)
(* Theorems about ModelCalls, for any calls, keys, cap and number of days. *)
(*                                                                          *)
(* The invariant keeps the parts of the state apart: what a call is doing  *)
(* (CallsOK, Chats), the money (MoneyOK), and between them that the calls   *)
(* in flight are those whose reservation is still to be settled (Held).    *)
(***************************************************************************)
EXTENDS ModelCalls, FiniteSetTheorems, SequenceTheorems, TLAPS

\* Where calls are.
CallsOK ==
  /\ pc \in [Calls -> {"idle", "key", "veto"} \cup InFlight]
  /\ kind \in [Calls -> Kinds \cup {"none"}] /\ key \in [Calls -> Keys]
  /\ recorded \in [Calls -> BOOLEAN]

\* Only a chat records its usage before it ends.
Chats ==
  \A c \in Calls :
    /\ pc[c] = "usage" => IsChat(c) /\ ~recorded[c]
    /\ recorded[c] => IsChat(c) /\ pc[c] \in {"request", "done"}

\* The calls that owe a settlement.
Owing == {c \in Calls : pc[c] \in InFlight /\ ~recorded[c]}

\* Until a reservation slips, each of them holds its own.
Held ==
  /\ unsettled \subseteq Owing
  /\ ~slipped => Owing \subseteq unsettled

\* The account of the day.
MoneyOK ==
  /\ budget \in [spent : Nat, reserved : Nat, over : BOOLEAN]
  /\ leaked \in Nat /\ excess \in Nat
  /\ slipped \in BOOLEAN
  /\ IsFiniteSet(unsettled)
  /\ CapHolds /\ SettledOnce

\* The breaker.
Breakers ==
  [ state : {"closed", "open", "halfOpen"}, window : Seq(BOOLEAN),
    elapsed : BOOLEAN, claimed : BOOLEAN, lapsed : BOOLEAN ]
BreakerOK ==
  /\ breaker \in Breakers
  /\ Len(breaker.window) <= MaxWindow
  /\ breaker.state = "halfOpen" => breaker.claimed

\* The keys and the calendar.
KeysOK == cool \in [Keys -> {"none", "short", "bench"}] /\ hung \subseteq Keys
DaysOK == days \in 0..MaxDays

IInv ==
  /\ CallsOK /\ Chats /\ Held /\ MoneyOK
  /\ BreakerOK /\ KeysOK /\ DaysOK

-----------------------------------------------------------------------------
(* The breaker. *)

\* The end of a window is a window, and not longer.
LEMMA WindowEnd ==
  ASSUME NEW w \in Seq(BOOLEAN), NEW n \in 1..Len(w)
  PROVE  SubSeq(w, n, Len(w)) \in Seq(BOOLEAN) /\ Len(SubSeq(w, n, Len(w))) <= Len(w)
<1>1. Len(w) \in Nat BY LenProperties
<1>2. /\ SubSeq(w, n, Len(w)) \in Seq(BOOLEAN)
      /\ Len(SubSeq(w, n, Len(w))) = Len(w) - n + 1
  BY <1>1, SubSeqProperties
<1> QED BY <1>1, <1>2

\* A sample keeps the window within its limit.
LEMMA SampledWindow ==
  ASSUME NEW w \in Seq(BOOLEAN), Len(w) <= MaxWindow, NEW failed \in BOOLEAN,
         NEW x \in Sampled(w, failed)
  PROVE  x \in Seq(BOOLEAN) /\ Len(x) <= MaxWindow
<1>1. MaxWindow \in Nat \ {0} /\ Len(w) \in Nat BY ModelCallsAssumption, LenProperties
<1> DEFINE rest == IF Len(w) >= MaxWindow THEN Tail(w) ELSE w
           full == Append(rest, failed)
<1>2. rest \in Seq(BOOLEAN) /\ Len(rest) < MaxWindow
  <2>1. CASE Len(w) >= MaxWindow
    <3>1. w # <<>> BY <1>1, <2>1, EmptySeq
    <3>2. Tail(w) \in Seq(BOOLEAN) /\ Len(Tail(w)) = Len(w) - 1
      BY <3>1, HeadTailProperties
    <3> QED BY <1>1, <2>1, <3>2
  <2>2. CASE ~(Len(w) >= MaxWindow) BY <1>1, <2>2
  <2> QED BY <2>1, <2>2
<1>3. full \in Seq(BOOLEAN) /\ Len(full) = Len(rest) + 1
  BY <1>2, AppendProperties
<1>4. Len(full) <= MaxWindow /\ Len(rest) \in Nat BY <1>1, <1>2, <1>3, LenProperties
<1>5. PICK n \in 1..Len(full) : x = SubSeq(full, n, Len(full)) BY DEF Sampled
<1> HIDE DEF full
<1>6. x \in Seq(BOOLEAN) /\ Len(x) <= Len(full) BY <1>3, <1>5, WindowEnd
<1>7. Len(x) \in Nat /\ Len(full) \in Nat BY <1>3, <1>6, LenProperties
<1> QED BY <1>1, <1>4, <1>6, <1>7

\* The breakers that a sample or a probe leaves.
LEMMA BreakerValues ==
  ASSUME NEW w \in Seq(BOOLEAN)
  PROVE  /\ Tripped(w) \in Breakers /\ Tripped(w).state = "open" /\ Tripped(w).window = w
         /\ Closed(w) \in Breakers /\ Closed(w).state = "closed" /\ Closed(w).window = w
BY DEF Tripped, Closed, Breakers

\* record keeps the breaker's type.
LEMMA RecordBreaker ==
  ASSUME BreakerOK, NEW failed \in BOOLEAN, Record(failed)
  PROVE  BreakerOK'
<1>1. /\ breaker.window \in Seq(BOOLEAN) /\ Len(breaker.window) <= MaxWindow
      /\ breaker.state \in {"closed", "open", "halfOpen"}
  BY DEF BreakerOK, Breakers
<1>2. ASSUME NEW w \in Sampled(breaker.window, failed)
      PROVE  w \in Seq(BOOLEAN) /\ Len(w) <= MaxWindow
  BY <1>1, SampledWindow
<1>3. ASSUME NEW w \in Seq(BOOLEAN), Len(w) <= MaxWindow,
             breaker' = [breaker EXCEPT !.window = w]
      PROVE  BreakerOK'
  BY <1>3 DEF BreakerOK, Breakers
<1>4. ASSUME NEW w \in Seq(BOOLEAN), Len(w) <= MaxWindow, breaker' = Tripped(w)
      PROVE  BreakerOK'
  BY <1>4, BreakerValues DEF BreakerOK
<1>5. CASE breaker.state = "closed"
  <2>1. PICK w \in Sampled(breaker.window, failed) :
          breaker' = IF Trips(w) THEN Tripped(w) ELSE [breaker EXCEPT !.window = w]
    BY <1>5 DEF Record
  <2> QED BY <1>2, <1>3, <1>4, <2>1
<1>6. CASE breaker.state = "halfOpen"
  <2>1. breaker' = IF failed THEN Tripped(breaker.window) ELSE Closed(<<>>)
    BY <1>6 DEF Record
  <2>2. CASE failed BY <1>1, <1>4, <2>1, <2>2
  <2>3. CASE ~failed
    <3>1. <<>> \in Seq(BOOLEAN) /\ Len(<<>>) = 0 BY EmptySeq
    <3>2. 0 <= MaxWindow BY ModelCallsAssumption
    <3> QED BY <2>1, <2>3, <3>1, <3>2, BreakerValues DEF BreakerOK
  <2> QED BY <2>2, <2>3
<1>7. CASE breaker.state = "open"
  <2>1. PICK w \in Sampled(breaker.window, failed) :
          breaker' = [breaker EXCEPT !.window = w]
    BY <1>7 DEF Record
  <2> QED BY <1>2, <1>3, <2>1
<1> QED BY <1>1, <1>5, <1>6, <1>7

\* Every step keeps the breaker's type.
LEMMA NextBreaker == BreakerOK /\ [Next]_vars => BreakerOK'
<1> SUFFICES ASSUME BreakerOK, [Next]_vars PROVE BreakerOK' OBVIOUS
<1>1. CASE UNCHANGED breaker BY <1>1 DEF BreakerOK
<1>2. ASSUME breaker' = Admitted PROVE BreakerOK'
  BY <1>2 DEF Admitted, BreakerOK, Breakers
<1>3. ASSUME NEW failed \in BOOLEAN, Record(failed) PROVE BreakerOK'
  BY <1>3, RecordBreaker
<1>4. CASE OpenElapses \/ ClaimLapses
  BY <1>4 DEF OpenElapses, ClaimLapses, BreakerOK, Breakers
<1>5. ASSUME NEW c \in Calls, ChatStep(c) PROVE BreakerOK'
  BY <1>1, <1>3, <1>5 DEF ChatStep, YieldUsage, RecordUsage, YieldDone, Finish, SaveFails,
                          ProviderFails, ClientError, UserAborts, Abandon
<1>6. ASSUME NEW c \in Calls, OneShotStep(c) PROVE BreakerOK'
  BY <1>1, <1>6 DEF OneShotStep, Answered, AnsweredWithoutUsage, Malformed,
                    OneShotSaveFails, OneShotFails
<1> QED BY <1>1, <1>2, <1>4, <1>5, <1>6
        DEF Next, vars, StartChat, StartOneShot, GetKey, NoKey, CheckVeto, Midnight, CoolDownEnds

-----------------------------------------------------------------------------
(* The keys, the calendar and the calls. *)

\* Every step keeps the type of the keys' cool-downs.
LEMMA NextKeys == CallsOK /\ KeysOK /\ [Next]_vars => KeysOK'
<1> SUFFICES ASSUME CallsOK, KeysOK, [Next]_vars PROVE KeysOK' OBVIOUS
<1>1. CASE UNCHANGED <<cool, hung>> BY <1>1 DEF KeysOK
<1>2. ASSUME NEW k \in Keys, NEW result \in {"ok", "failed", "client"}, Report(k, result)
      PROVE  KeysOK'
  BY <1>2 DEF Report, KeyResult, KeysOK
<1>3. ASSUME NEW k \in Keys, ReportHang(k) PROVE KeysOK'
  BY <1>3 DEF ReportHang, KeyResult, KeyHang, KeysOK
<1>4. ASSUME NEW k \in Keys, CoolDownEnds(k) PROVE KeysOK'
  BY <1>4 DEF CoolDownEnds, KeysOK
<1>5. ASSUME NEW c \in Calls, ChatStep(c) PROVE KeysOK'
  <2>1. key[c] \in Keys BY DEF CallsOK
  <2> QED BY <1>1, <1>2, <1>3, <1>5, <2>1
          DEF ChatStep, YieldUsage, RecordUsage, YieldDone, Finish, SaveFails,
              ProviderFails, ClientError, UserAborts, Abandon
<1>6. ASSUME NEW c \in Calls, OneShotStep(c) PROVE KeysOK'
  <2>1. key[c] \in Keys BY DEF CallsOK
  <2> QED BY <1>2, <1>6, <2>1 DEF OneShotStep, Answered, AnsweredWithoutUsage, Malformed,
                                  OneShotSaveFails, OneShotFails
<1> QED BY <1>1, <1>4, <1>5, <1>6
        DEF Next, vars, StartChat, StartOneShot, GetKey, NoKey, CheckVeto, Midnight,
            OpenElapses, ClaimLapses

\* Days are counted up to the bound.
LEMMA NextDays == DaysOK /\ [Next]_vars => DaysOK'
<1> SUFFICES ASSUME DaysOK, [Next]_vars PROVE DaysOK' OBVIOUS
<1>1. CASE UNCHANGED days BY <1>1 DEF DaysOK
<1>2. CASE Midnight
  <2>1. days' = days + 1 /\ days < MaxDays /\ days \in 0..MaxDays
    BY <1>2 DEF Midnight, DaysOK
  <2> QED BY <2>1, ModelCallsAssumption DEF DaysOK
<1>3. ASSUME NEW c \in Calls, ChatStep(c) \/ OneShotStep(c) PROVE UNCHANGED days
  BY <1>3 DEF ChatStep, YieldUsage, RecordUsage, YieldDone, Finish, SaveFails,
              ProviderFails, ClientError, UserAborts, Abandon,
              OneShotStep, Answered, AnsweredWithoutUsage, Malformed,
              OneShotSaveFails, OneShotFails
<1> QED BY <1>1, <1>2, <1>3
        DEF Next, vars, StartChat, StartOneShot, GetKey, NoKey, CheckVeto,
            OpenElapses, ClaimLapses, CoolDownEnds

\* A call that returns is as if it had not been made.
LEMMA ReturnCalls ==
  ASSUME CallsOK, Chats, NEW c \in Calls, Return(c)
  PROVE  CallsOK' /\ Chats'
<1>1. /\ pc' = [pc EXCEPT ![c] = "idle"] /\ kind' = [kind EXCEPT ![c] = "none"]
      /\ recorded' = [recorded EXCEPT ![c] = FALSE] /\ key' = key
  BY DEF Return, Goto
<1>2. CallsOK' BY <1>1 DEF CallsOK
<1>3. pc'[c] = "idle" /\ ~recorded'[c] BY <1>1 DEF CallsOK
<1>4. \A d \in Calls \ {c} : pc'[d] = pc[d] /\ kind'[d] = kind[d] /\ recorded'[d] = recorded[d]
  BY <1>1 DEF CallsOK
<1> QED BY <1>2, <1>3, <1>4 DEF Chats, IsChat

\* A call that goes on keeps what it is.
LEMMA GotoCalls ==
  ASSUME CallsOK, Chats, NEW c \in Calls,
         NEW label \in {"veto", "request", "usage", "done"}, Goto(c, label),
         UNCHANGED <<kind, recorded>>, key' \in [Calls -> Keys],
         label = "usage" => IsChat(c) /\ ~recorded[c],
         recorded[c] => label \in {"request", "done"}
  PROVE  CallsOK' /\ Chats'
<1>1. pc' = [pc EXCEPT ![c] = label] BY DEF Goto
<1>2. CallsOK' BY <1>1 DEF CallsOK, InFlight
<1>3. pc'[c] = label /\ \A d \in Calls \ {c} : pc'[d] = pc[d] BY <1>1 DEF CallsOK
<1> QED BY <1>2, <1>3 DEF Chats, IsChat

\* Every step keeps the calls in order.
LEMMA NextCalls == CallsOK /\ Chats /\ [Next]_vars => CallsOK' /\ Chats'
<1> SUFFICES ASSUME CallsOK, Chats, [Next]_vars PROVE CallsOK' /\ Chats' OBVIOUS
<1>1. CASE UNCHANGED calls BY <1>1 DEF calls, CallsOK, Chats, IsChat
<1>2. ASSUME NEW c \in Calls, Return(c) PROVE CallsOK' /\ Chats'
  BY <1>2, ReturnCalls
<1>3. ASSUME NEW c \in Calls, StartChat(c) \/ StartOneShot(c) PROVE CallsOK' /\ Chats'
  <2>1. /\ pc[c] = "idle" /\ pc' = [pc EXCEPT ![c] = "key"] /\ UNCHANGED <<key, recorded>>
        /\ \E k \in Kinds : kind' = [kind EXCEPT ![c] = k]
    BY <1>3 DEF StartChat, StartOneShot, Goto
  <2>2. CallsOK' BY <2>1 DEF CallsOK
  <2>3. pc'[c] = "key" /\ ~recorded'[c] BY <2>1 DEF CallsOK, Chats
  <2>4. \A d \in Calls \ {c} : pc'[d] = pc[d] /\ kind'[d] = kind[d] /\ recorded'[d] = recorded[d]
    BY <2>1 DEF CallsOK
  <2> QED BY <2>2, <2>3, <2>4 DEF Chats, IsChat
<1>4. ASSUME NEW c \in Calls, GetKey(c) PROVE CallsOK' /\ Chats'
  <2>1. key' \in [Calls -> Keys] BY <1>4 DEF GetKey, Choosable, CallsOK
  <2>2. ~recorded[c] BY <1>4 DEF GetKey, Chats
  <2> QED BY <1>4, <2>1, <2>2, GotoCalls DEF GetKey
<1>5. ASSUME NEW c \in Calls, CheckVeto(c) PROVE CallsOK' /\ Chats'
  <2>1. Return(c) \/ (Goto(c, "request") /\ UNCHANGED <<kind, key, recorded>>)
    BY <1>5 DEF CheckVeto
  <2> QED BY <1>2, <2>1, GotoCalls DEF CallsOK
<1>6. ASSUME NEW c \in Calls, YieldUsage(c) \/ YieldDone(c) PROVE CallsOK' /\ Chats'
  BY <1>6, GotoCalls DEF YieldUsage, YieldDone, CallsOK
<1>7. ASSUME NEW c \in Calls, RecordUsage(c) PROVE CallsOK' /\ Chats'
  <2>1. /\ pc[c] = "usage" /\ pc' = [pc EXCEPT ![c] = "request"]
        /\ recorded' = [recorded EXCEPT ![c] = TRUE] /\ UNCHANGED <<kind, key>>
    BY <1>7 DEF RecordUsage, Goto
  <2>2. CallsOK' BY <2>1 DEF CallsOK, InFlight
  <2>3. pc'[c] = "request" /\ kind'[c] = kind[c] /\ IsChat(c) BY <2>1 DEF CallsOK, Chats
  <2>4. \A d \in Calls \ {c} : pc'[d] = pc[d] /\ kind'[d] = kind[d] /\ recorded'[d] = recorded[d]
    BY <2>1 DEF CallsOK
  <2> QED BY <2>2, <2>3, <2>4 DEF Chats, IsChat
<1>8. ASSUME NEW c \in Calls, Finish(c) \/ SaveFails(c) \/ ProviderFails(c) \/ ClientError(c)
                              \/ UserAborts(c) \/ Abandon(c) \/ OneShotStep(c) \/ NoKey(c)
      PROVE  CallsOK' /\ Chats'
  BY <1>2, <1>8 DEF Finish, SaveFails, ProviderFails, ClientError, UserAborts, Abandon, NoKey,
                    OneShotStep, Answered, AnsweredWithoutUsage, Malformed,
                    OneShotSaveFails, OneShotFails
<1> QED BY <1>1, <1>3, <1>4, <1>5, <1>6, <1>7, <1>8
        DEF Next, vars, ChatStep, Midnight, OpenElapses, ClaimLapses, CoolDownEnds

-----------------------------------------------------------------------------
(* The money. *)

\* A reservation is taken off what is reserved, never below zero.
LEMMA LessValues ==
  ASSUME NEW n \in Nat
  PROVE  Less(n) \in Nat /\ Less(n) >= n - 1 /\ (n # 0 => Less(n) = n - 1)
BY DEF Less

\* A budget with a cost booked on it is a budget.
LEMMA SpentType ==
  ASSUME budget \in [spent : Nat, reserved : Nat, over : BOOLEAN], NEW cost \in Nat
  PROVE  Spent(budget, cost) \in [spent : Nat, reserved : Nat, over : BOOLEAN]
<1> DEFINE b == Rolled(budget)
<1>1. b \in [spent : Nat, reserved : Nat, over : BOOLEAN] BY DEF Rolled
<1>2. Spent(budget, cost) = [b EXCEPT !.reserved = Less(@), !.spent = @ + cost]
  BY DEF Spent
<1> HIDE DEF b
<1>3. Less(b.reserved) \in Nat /\ b.spent + cost \in Nat BY <1>1, LessValues
<1> QED BY <1>1, <1>2, <1>3

\* One reservation less.
LEMMA SmallerSet ==
  ASSUME IsFiniteSet(unsettled), NEW c
  PROVE  /\ IsFiniteSet(unsettled \ {c})
         /\ Cardinality(unsettled) \in Nat /\ Cardinality(unsettled \ {c}) \in Nat
         /\ Cardinality(unsettled \ {c}) <= Cardinality(unsettled)
         /\ c \in unsettled => Cardinality(unsettled \ {c}) = Cardinality(unsettled) - 1
         /\ c \notin unsettled => unsettled \ {c} = unsettled
<1>1. Cardinality(unsettled) \in Nat BY FS_CardinalityType
<1>2. IsFiniteSet(unsettled \ {c}) BY FS_RemoveElement
<1>3. Cardinality(unsettled \ {c}) \in Nat BY <1>2, FS_CardinalityType
<1>4. Cardinality(unsettled \ {c}) =
        IF c \in unsettled THEN Cardinality(unsettled) - 1 ELSE Cardinality(unsettled)
  BY FS_RemoveElement
<1> QED BY <1>1, <1>2, <1>3, <1>4

\* A step that leaves the call with nothing to settle.
Cleared(c) ==
  /\ slipped => slipped'
  /\ unsettled' \subseteq unsettled \ {c}
  /\ ~slipped' => unsettled' = unsettled \ {c}

\* A call that holds its reservation settles it.
LEMMA SettleMoney ==
  ASSUME MoneyOK, NEW c \in Calls, ~slipped => c \in unsettled, Settle(c)
  PROVE  MoneyOK' /\ Cleared(c)
<1>1. PICK cost \in Costs :
        /\ budget' = Spent(budget, cost)
        /\ unsettled' = IF budget.over THEN {} ELSE unsettled \ {c}
        /\ slipped' = (slipped \/ budget.over)
        /\ leaked' = IF slipped' THEN 0 ELSE leaked
        /\ excess' = IF slipped' THEN 0 ELSE excess + Less(cost)
  BY DEF Settle
<1>2. cost \in Nat /\ Less(cost) \in Nat /\ cost <= 1 + Less(cost)
  BY LessValues DEF Costs
<1>3. IsFiniteSet(unsettled \ {c}) BY SmallerSet DEF MoneyOK
<1>4. /\ IsFiniteSet(unsettled') /\ slipped' \in BOOLEAN
      /\ leaked' \in Nat /\ excess' \in Nat
  <2>1. IsFiniteSet(unsettled') BY <1>1, <1>3, FS_EmptySet
  <2>2. slipped' \in BOOLEAN BY <1>1
  <2>3. leaked' \in Nat /\ excess' \in Nat BY <1>1, <1>2 DEF MoneyOK
  <2> QED BY <2>1, <2>2, <2>3
<1>5. /\ budget.spent \in Nat /\ budget.reserved \in Nat /\ budget.over \in BOOLEAN
      /\ leaked \in Nat /\ excess \in Nat
  BY DEF MoneyOK
<1>6. budget' \in [spent : Nat, reserved : Nat, over : BOOLEAN]
  BY <1>1, <1>2, SpentType DEF MoneyOK
<1>7. ASSUME ~slipped'
      PROVE  /\ budget'.reserved = Cardinality(unsettled') + leaked'
             /\ budget'.spent + Cardinality(unsettled') <= Cap + excess'
  <2>1. ~slipped /\ ~budget.over BY <1>1, <1>7
  <2>2. c \in unsettled BY <2>1
  <2>3. /\ Cardinality(unsettled') = Cardinality(unsettled) - 1
        /\ Cardinality(unsettled) \in Nat /\ Cardinality(unsettled') \in Nat
    BY <1>1, <2>1, <2>2, SmallerSet DEF MoneyOK
  <2>4. /\ budget.reserved = Cardinality(unsettled) + leaked
        /\ budget.spent + Cardinality(unsettled) <= Cap + excess
    BY <2>1 DEF MoneyOK, SettledOnce, CapHolds
  <2>5. budget.reserved # 0 /\ Less(budget.reserved) = budget.reserved - 1
    BY <1>5, <2>3, <2>4, LessValues
  <2>6. budget'.reserved = budget.reserved - 1 /\ budget'.spent = budget.spent + cost
    BY <1>1, <2>1, <2>5 DEF Spent, Rolled, MoneyOK
  <2>7. leaked' = leaked /\ excess' = excess + Less(cost) BY <1>1, <1>7
  <2>8. Cap \in Nat BY ModelCallsAssumption
  <2> QED BY <1>2, <1>5, <2>3, <2>4, <2>6, <2>7, <2>8
<1>8. Cleared(c) BY <1>1 DEF Cleared
<1> QED BY <1>4, <1>6, <1>7, <1>8 DEF MoneyOK, CapHolds, SettledOnce

\* A call that settles and gives back lets a reservation slip.
LEMMA SettleTwiceMoney ==
  ASSUME MoneyOK, NEW c \in Calls, SettleTwice(c)
  PROVE  MoneyOK' /\ Cleared(c)
<1>1. PICK cost \in Costs : budget' = Released(Spent(budget, cost)) BY DEF SettleTwice
<1>2. /\ unsettled' = (IF budget.over THEN {} ELSE unsettled \ {c})
      /\ slipped' = TRUE /\ leaked' = 0 /\ excess' = 0
  BY DEF SettleTwice
<1>3. IsFiniteSet(unsettled') BY <1>2, SmallerSet, FS_EmptySet DEF MoneyOK
<1>4. budget' \in [spent : Nat, reserved : Nat, over : BOOLEAN]
  <2>3. Spent(budget, cost) \in [spent : Nat, reserved : Nat, over : BOOLEAN]
    BY SpentType DEF MoneyOK, Costs
  <2>4. Less(Spent(budget, cost).reserved) \in Nat BY <2>3, LessValues
  <2> QED BY <1>1, <2>3, <2>4 DEF Released
<1> QED BY <1>2, <1>3, <1>4 DEF MoneyOK, CapHolds, SettledOnce, Cleared

\* A call that holds its reservation gives it back.
LEMMA GiveBackMoney ==
  ASSUME MoneyOK, NEW c \in Calls, ~slipped => c \in unsettled, GiveBack(c)
  PROVE  MoneyOK' /\ Cleared(c)
<1>1. /\ budget' = Released(budget) /\ unsettled' = unsettled \ {c}
      /\ leaked' = leaked /\ excess' = excess /\ slipped' = slipped
  BY DEF GiveBack
<1>2. /\ budget.spent \in Nat /\ budget.reserved \in Nat /\ leaked \in Nat /\ excess \in Nat
  BY DEF MoneyOK
<1>3. Less(budget.reserved) \in Nat BY <1>2, LessValues
<1>4. /\ budget' \in [spent : Nat, reserved : Nat, over : BOOLEAN]
      /\ budget'.reserved = Less(budget.reserved) /\ budget'.spent = budget.spent
  BY <1>1, <1>3 DEF Released, MoneyOK
<1>5. ASSUME ~slipped
      PROVE  /\ budget'.reserved = Cardinality(unsettled') + leaked'
             /\ budget'.spent + Cardinality(unsettled') <= Cap + excess'
  <2>1. /\ Cardinality(unsettled') = Cardinality(unsettled) - 1
        /\ Cardinality(unsettled) \in Nat /\ Cardinality(unsettled') \in Nat
    BY <1>1, <1>5, SmallerSet DEF MoneyOK
  <2>2. /\ budget.reserved = Cardinality(unsettled) + leaked
        /\ budget.spent + Cardinality(unsettled) <= Cap + excess
    BY <1>5 DEF MoneyOK, SettledOnce, CapHolds
  <2>3. budget'.reserved = budget.reserved - 1 BY <1>2, <1>4, <2>1, <2>2, LessValues
  <2>4. Cap \in Nat BY ModelCallsAssumption
  <2> QED BY <1>1, <1>2, <1>4, <2>1, <2>2, <2>3, <2>4
<1>6. IsFiniteSet(unsettled') BY <1>1, SmallerSet DEF MoneyOK
<1> QED BY <1>1, <1>4, <1>5, <1>6 DEF MoneyOK, CapHolds, SettledOnce, Cleared

\* A call that is abandoned leaves its reservation behind.
LEMMA LeakMoney ==
  ASSUME MoneyOK, NEW c \in Calls, Leak(c)
  PROVE  MoneyOK' /\ Cleared(c)
<1>1. /\ leaked' = IF slipped THEN 0 ELSE leaked + Cardinality(unsettled \cap {c})
      /\ unsettled' = unsettled \ {c}
      /\ budget' = budget /\ excess' = excess /\ slipped' = slipped
  BY DEF Leak
<1>2. Cardinality(unsettled \cap {c}) = IF c \in unsettled THEN 1 ELSE 0
  <2>1. CASE c \in unsettled
    <3>1. unsettled \cap {c} = {c} BY <2>1
    <3> QED BY <2>1, <3>1, FS_Singleton
  <2>2. CASE c \notin unsettled
    <3>1. unsettled \cap {c} = {} BY <2>2
    <3> QED BY <2>2, <3>1, FS_EmptySet
  <2> QED BY <2>1, <2>2
<1>3. /\ budget.spent \in Nat /\ budget.reserved \in Nat /\ leaked \in Nat /\ excess \in Nat
  BY DEF MoneyOK
<1>4. leaked' \in Nat BY <1>1, <1>2, <1>3
<1>5. /\ Cardinality(unsettled) \in Nat /\ Cardinality(unsettled') \in Nat
      /\ Cardinality(unsettled') = IF c \in unsettled THEN Cardinality(unsettled) - 1
                                   ELSE Cardinality(unsettled)
      /\ IsFiniteSet(unsettled')
  BY <1>1, SmallerSet DEF MoneyOK
<1>6. ASSUME ~slipped
      PROVE  /\ budget'.reserved = Cardinality(unsettled') + leaked'
             /\ budget'.spent + Cardinality(unsettled') <= Cap + excess'
  <2>1. /\ budget.reserved = Cardinality(unsettled) + leaked
        /\ budget.spent + Cardinality(unsettled) <= Cap + excess
    BY <1>6 DEF MoneyOK, SettledOnce, CapHolds
  <2>2. Cap \in Nat BY ModelCallsAssumption
  <2> QED BY <1>1, <1>2, <1>3, <1>5, <1>6, <2>1, <2>2
<1> QED BY <1>1, <1>4, <1>5, <1>6 DEF MoneyOK, CapHolds, SettledOnce, Cleared

\* A call that clears its debt and returns, or marks it as settled, owes nothing.
LEMMA ClearedHeld ==
  ASSUME CallsOK, Held, NEW c \in Calls, Cleared(c),
         pc'[c] \notin InFlight \/ recorded'[c],
         \A d \in Calls \ {c} : pc'[d] = pc[d] /\ recorded'[d] = recorded[d]
  PROVE  Held'
<1>1. Owing' = Owing \ {c} BY DEF Owing
<1> QED BY <1>1 DEF Held, Cleared

\* Nothing is owed or settled anew.
LEMMA SameHeld ==
  ASSUME Held, MoneyOK, UNCHANGED money, Owing' = Owing
  PROVE  Held' /\ MoneyOK'
BY DEF Held, MoneyOK, money, CapHolds, SettledOnce

\* A call that returns leaves the other calls what they owe.
LEMMA ReturnOwes ==
  ASSUME CallsOK, NEW c \in Calls, Return(c)
  PROVE  /\ pc'[c] \notin InFlight
         /\ \A d \in Calls \ {c} : pc'[d] = pc[d] /\ recorded'[d] = recorded[d]
BY DEF CallsOK, Return, Goto, InFlight

\* A step that keeps the money and what is owed.
LEMMA GotoOwes ==
  ASSUME CallsOK, NEW c \in Calls, NEW label \in {"key", "veto", "usage", "done"},
         Goto(c, label), UNCHANGED recorded, label \in InFlight <=> pc[c] \in InFlight
  PROVE  Owing' = Owing
<1>1. pc'[c] = label /\ \A d \in Calls \ {c} : pc'[d] = pc[d]
  BY DEF CallsOK, Goto
<1> QED BY <1>1 DEF Owing

\* checkVeto reserves within the cap, and only then.
LEMMA VetoMoney ==
  ASSUME CallsOK, Chats, Held, MoneyOK, NEW c \in Calls, CheckVeto(c)
  PROVE  Held' /\ MoneyOK'
<1> DEFINE b == Rolled(budget)
           kept == IF budget.over THEN {} ELSE unsettled
<1>1. /\ pc[c] = "veto" /\ ~recorded[c] /\ c \notin unsettled
  BY DEF CheckVeto, Chats, Held, Owing, InFlight
<1>2. /\ slipped' = IF budget.over THEN slipped \/ unsettled \ {c} # {} ELSE slipped
      /\ leaked' = IF budget.over THEN 0 ELSE leaked
      /\ excess' = IF budget.over THEN 0 ELSE excess
  BY DEF CheckVeto, RollHistory
<1>3. /\ \/ Exceeds(b) /\ Return(c) /\ budget' = b /\ unsettled' = kept
         \/ /\ ~Exceeds(b) /\ Goto(c, "request") /\ UNCHANGED recorded
            /\ budget' = Reserved(b) /\ unsettled' = kept \cup {c}
  BY DEF CheckVeto
<1>4. /\ b.spent \in Nat /\ b.reserved \in Nat
      /\ b \in [spent : Nat, reserved : Nat, over : BOOLEAN]
  BY DEF Rolled, MoneyOK
<1>5. IsFiniteSet(kept) /\ kept \subseteq unsettled BY FS_EmptySet DEF MoneyOK
<1>6. Cardinality(kept) \in Nat /\ IsFiniteSet(kept \cup {c})
      /\ Cardinality(kept \cup {c}) = Cardinality(kept) + 1
  BY <1>1, <1>5, FS_CardinalityType, FS_AddElement
<1>7. /\ leaked' \in Nat /\ excess' \in Nat /\ slipped' \in BOOLEAN
  BY <1>2 DEF MoneyOK
<1>8. ~slipped' => /\ b.reserved = Cardinality(kept) + leaked'
                   /\ b.spent + Cardinality(kept) <= Cap + excess'
  <2>1. CASE budget.over
    <3>1. b.spent = 0 /\ b.reserved = 0 /\ kept = {} BY <2>1 DEF Rolled
    <3>2. Cap \in Nat BY ModelCallsAssumption
    <3> QED BY <1>2, <2>1, <3>1, <3>2, FS_EmptySet
  <2>2. CASE ~budget.over
    BY <1>2, <2>2 DEF Rolled, MoneyOK, SettledOnce, CapHolds
  <2> QED BY <2>1, <2>2
<1>9. ~slipped' => Owing \subseteq kept
  <2>1. CASE budget.over
    <3>1. ~slipped' => Owing \subseteq unsettled /\ unsettled \subseteq {c}
      BY <1>2, <2>1 DEF Held
    <3> QED BY <1>1, <2>1, <3>1
  <2>2. CASE ~budget.over BY <1>2, <2>2 DEF Held
  <2> QED BY <2>1, <2>2
<1>10. kept \subseteq Owing BY <1>5 DEF Held
<1> HIDE DEF b, kept
<1>11. CASE Exceeds(b) /\ Return(c) /\ budget' = b /\ unsettled' = kept
  <2>1. Owing' = Owing
    BY <1>1, <1>11, ReturnOwes DEF Owing, InFlight
  <2> QED BY <1>4, <1>5, <1>7, <1>8, <1>9, <1>10, <1>11, <2>1
          DEF Held, MoneyOK, CapHolds, SettledOnce
<1>12. CASE /\ ~Exceeds(b) /\ Goto(c, "request") /\ UNCHANGED recorded
            /\ budget' = Reserved(b) /\ unsettled' = kept \cup {c}
  <2>1. Owing' = Owing \cup {c}
    BY <1>1, <1>12 DEF Owing, InFlight, Goto, CallsOK
  <2>2. Held' BY <1>9, <1>10, <1>12, <2>1 DEF Held
  <2>3. /\ budget' \in [spent : Nat, reserved : Nat, over : BOOLEAN]
        /\ budget'.spent = b.spent /\ budget'.reserved = b.reserved + 1
    BY <1>4, <1>12 DEF Reserved
  <2>4. b.spent + b.reserved + 1 <= Cap /\ Cap \in Nat
    BY <1>4, <1>12, ModelCallsAssumption DEF Exceeds
  <2>5. ~slipped' => /\ budget'.reserved = Cardinality(unsettled') + leaked'
                     /\ budget'.spent + Cardinality(unsettled') <= Cap + excess'
    BY <1>4, <1>6, <1>7, <1>8, <1>12, <2>3, <2>4
  <2> QED BY <1>6, <1>7, <1>12, <2>2, <2>3, <2>5 DEF MoneyOK, CapHolds, SettledOnce
<1> QED BY <1>3, <1>11, <1>12 DEF b, kept

\* A call that ends has settled what it owed.
LEMMA EndMoney ==
  ASSUME CallsOK, Held, MoneyOK, NEW c \in Calls, pc[c] \in InFlight,
         pc'[c] \notin InFlight \/ recorded'[c],
         \A d \in Calls \ {c} : pc'[d] = pc[d] /\ recorded'[d] = recorded[d],
         \/ recorded[c] /\ UNCHANGED money
         \/ ~recorded[c] /\ (Settle(c) \/ SettleTwice(c) \/ GiveBack(c))
         \/ Leak(c)
  PROVE  Held' /\ MoneyOK'
<1>1. CASE recorded[c] /\ UNCHANGED money
  <2>1. Owing' = Owing BY <1>1 DEF Owing
  <2> QED BY <1>1, <2>1, SameHeld
<1>2. CASE ~recorded[c] /\ (Settle(c) \/ SettleTwice(c) \/ GiveBack(c))
  <2>1. ~slipped => c \in unsettled BY <1>2 DEF Held, Owing
  <2>2. MoneyOK' /\ Cleared(c)
    BY <1>2, <2>1, SettleMoney, SettleTwiceMoney, GiveBackMoney
  <2> QED BY <2>2, ClearedHeld
<1>3. CASE Leak(c) BY <1>3, LeakMoney, ClearedHeld
<1> QED BY <1>1, <1>2, <1>3

\* Every step keeps the account and who is held to it.
LEMMA NextMoney ==
  ASSUME CallsOK, Chats, Held, MoneyOK, [Next]_vars
  PROVE  Held' /\ MoneyOK'
<1>1. CASE UNCHANGED <<calls, money>> BY <1>1, SameHeld DEF calls, Owing
<1>2. CASE Midnight
  <2>1. /\ budget' \in [spent : Nat, reserved : Nat, over : BOOLEAN]
        /\ budget'.spent = budget.spent /\ budget'.reserved = budget.reserved
        /\ UNCHANGED <<calls, unsettled, leaked, excess, slipped>>
    BY <1>2 DEF Midnight, MoneyOK
  <2> QED BY <2>1 DEF Held, Owing, calls, MoneyOK, CapHolds, SettledOnce
<1>3. ASSUME NEW c \in Calls, StartChat(c) \/ StartOneShot(c) \/ GetKey(c) \/ NoKey(c)
      PROVE  Held' /\ MoneyOK'
  <2>1. CASE NoKey(c)
    <3>1. pc[c] \notin InFlight BY <2>1 DEF NoKey, InFlight
    <3>2. Owing' = Owing BY <2>1, <3>1, ReturnOwes DEF NoKey, Owing
    <3> QED BY <2>1, <3>2, SameHeld DEF NoKey
  <2>2. CASE StartChat(c) \/ StartOneShot(c) \/ GetKey(c)
    <3>1. Owing' = Owing
      BY <2>2, GotoOwes DEF StartChat, StartOneShot, GetKey, InFlight
    <3> QED BY <2>2, <3>1, SameHeld DEF StartChat, StartOneShot, GetKey
  <2> QED BY <1>3, <2>1, <2>2
<1>4. ASSUME NEW c \in Calls, YieldUsage(c) \/ YieldDone(c) PROVE Held' /\ MoneyOK'
  <2>1. Owing' = Owing BY <1>4, GotoOwes DEF YieldUsage, YieldDone, InFlight
  <2> QED BY <1>4, <2>1, SameHeld DEF YieldUsage, YieldDone
<1>5. ASSUME NEW c \in Calls, RecordUsage(c) PROVE Held' /\ MoneyOK'
  <2>1. pc[c] \in InFlight /\ ~recorded[c] /\ Settle(c)
    BY <1>5 DEF RecordUsage, Chats, InFlight
  <2>2. recorded'[c] /\ \A d \in Calls \ {c} : pc'[d] = pc[d] /\ recorded'[d] = recorded[d]
    BY <1>5 DEF RecordUsage, Goto, CallsOK
  <2> QED BY <2>1, <2>2, EndMoney
<1>6. ASSUME NEW c \in Calls, Finish(c) \/ SaveFails(c) \/ ProviderFails(c) \/ ClientError(c)
                              \/ UserAborts(c) \/ Abandon(c)
      PROVE  Held' /\ MoneyOK'
  <2>1. pc[c] \in InFlight /\ Return(c)
    BY <1>6 DEF Finish, SaveFails, ProviderFails, ClientError, UserAborts, Abandon, InFlight
  <2>2. \/ recorded[c] /\ UNCHANGED money
        \/ ~recorded[c] /\ (Settle(c) \/ SettleTwice(c) \/ GiveBack(c))
        \/ Leak(c)
    BY <1>6 DEF Finish, SaveFails, ProviderFails, ClientError, UserAborts, Abandon, Catch
  <2> QED BY <2>1, <2>2, ReturnOwes, EndMoney
<1>7. ASSUME NEW c \in Calls, OneShotStep(c) PROVE Held' /\ MoneyOK'
  <2>1. pc[c] \in InFlight /\ ~IsChat(c) /\ Return(c)
    BY <1>7 DEF OneShotStep, Answered, AnsweredWithoutUsage, Malformed, OneShotSaveFails,
                OneShotFails, OneShot, InFlight
  <2>2. ~recorded[c] BY <2>1 DEF Chats
  <2>3. Settle(c) \/ SettleTwice(c) \/ GiveBack(c) \/ Leak(c)
    BY <1>7 DEF OneShotStep, Answered, AnsweredWithoutUsage, Malformed, OneShotSaveFails,
                OneShotFails
  <2> QED BY <2>1, <2>2, <2>3, ReturnOwes, EndMoney
<1>8. ASSUME NEW c \in Calls, CheckVeto(c) PROVE Held' /\ MoneyOK'
  BY <1>8, VetoMoney
<1>9. CASE UNCHANGED vars \/ OpenElapses \/ ClaimLapses \/ \E k \in Keys : CoolDownEnds(k)
  BY <1>1, <1>9 DEF vars, OpenElapses, ClaimLapses, CoolDownEnds
<1> QED BY <1>2, <1>3, <1>4, <1>5, <1>6, <1>7, <1>8, <1>9 DEF Next, ChatStep

-----------------------------------------------------------------------------
(* The theorems. *)

\* The invariant is inductive.
LEMMA Inductive == (Init => IInv) /\ (IInv /\ [Next]_vars => IInv')
<1>1. ASSUME Init PROVE IInv
  <2>1. CallsOK
    <3>1. (CHOOSE k \in Keys : TRUE) \in Keys BY ModelCallsAssumption
    <3> QED BY <1>1, <3>1 DEF Init, CallsOK
  <2>2. \A c \in Calls : pc[c] = "idle" /\ ~recorded[c] BY <1>1 DEF Init
  <2>3. Chats BY <2>2 DEF Chats
  <2>4. Held BY <1>1, <2>2 DEF Init, Held, Owing, InFlight
  <2>5. MoneyOK
    <3>1. budget \in [spent : Nat, reserved : Nat, over : BOOLEAN] BY <1>1 DEF Init
    <3>2. /\ budget.spent = 0 /\ budget.reserved = 0 /\ unsettled = {}
          /\ leaked = 0 /\ excess = 0 /\ slipped = FALSE
      BY <1>1 DEF Init
    <3>3. Cap \in Nat BY ModelCallsAssumption
    <3>4. CapHolds /\ SettledOnce BY <3>2, <3>3, FS_EmptySet DEF CapHolds, SettledOnce
    <3> QED BY <3>1, <3>2, <3>4, FS_EmptySet DEF MoneyOK
  <2>6. BreakerOK
    <3>1. <<>> \in Seq(BOOLEAN) /\ Len(<<>>) = 0 BY EmptySeq
    <3>2. 0 <= MaxWindow BY ModelCallsAssumption
    <3> QED BY <1>1, <3>1, <3>2, BreakerValues DEF Init, BreakerOK
  <2>7. KeysOK /\ DaysOK BY <1>1, ModelCallsAssumption DEF Init, KeysOK, DaysOK
  <2> QED BY <2>1, <2>3, <2>4, <2>5, <2>6, <2>7 DEF IInv
<1>2. ASSUME IInv, [Next]_vars PROVE IInv'
  <2>1. CallsOK' /\ Chats' BY <1>2, NextCalls DEF IInv
  <2>2. Held' /\ MoneyOK' BY <1>2, NextMoney DEF IInv
  <2>3. BreakerOK' BY <1>2, NextBreaker DEF IInv
  <2>4. KeysOK' BY <1>2, NextKeys DEF IInv
  <2>5. DaysOK' BY <1>2, NextDays DEF IInv
  <2> QED BY <2>1, <2>2, <2>3, <2>4, <2>5 DEF IInv
<1> QED BY <1>1, <1>2

\* The invariant holds of every reachable state.
LEMMA Invariant == Spec => []IInv
BY Inductive, PTL DEF Spec

\* The state keeps its shape: the window of the breaker within its limit, a
\* half-open breaker with its probe claimed, and only calls in flight that have
\* not told their usage with a reservation of their own.
THEOREM CallsTypeCorrect == Spec => []TypeOK
<1>1. IInv => TypeOK
  BY DEF IInv, CallsOK, MoneyOK, Held, Owing, BreakerOK, Breakers, KeysOK, DaysOK, TypeOK
<1> QED BY Invariant, <1>1, PTL

\* Until a reservation slips, the day's spending and the reservations of the
\* calls under way stay within the cap, but for what calls cost above their
\* estimates (BudgetVeto.checkVeto, recordSpend, releaseReservation).
THEOREM CapAlwaysHolds == Spec => []CapHolds
<1>1. IInv => CapHolds BY DEF IInv, MoneyOK
<1> QED BY Invariant, <1>1, PTL

\* Until a reservation slips, what is reserved is what unsettled calls hold and
\* abandoned ones left (LlmAdapter.chat and the one-shot calls).
THEOREM AlwaysSettledOnce == Spec => []SettledOnce
<1>1. IInv => SettledOnce BY DEF IInv, MoneyOK
<1> QED BY Invariant, <1>1, PTL
=============================================================================

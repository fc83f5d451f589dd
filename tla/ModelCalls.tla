----------------------------- MODULE ModelCalls -----------------------------
(***************************************************************************)
(* Calls of the model provider: LlmAdapter's chat() stream and one-shot    *)
(* calls, and the three guards they pass: the circuit breaker, the key     *)
(* pool and the daily spending cap.  A call reserves its estimate before   *)
(* the request and settles it when usage is known, when it ends, or in its *)
(* catch; every await and every yield lets other calls in, and a consumer  *)
(* that stops at a yield runs nothing of the rest of chat().               *)
(*                                                                          *)
(* Money is counted in estimates: a call reserves 1 and costs 0, 1 or, as   *)
(* the estimate leaves the prompt out, 2.                                   *)
(* Time is nondeterministic: cool-downs elapse, samples age, days change.  *)
(***************************************************************************)
EXTENDS Naturals, Sequences, FiniteSets

CONSTANTS
  Calls,        \* calls that may be under way together
  Kinds,        \* subset of {"chat", "completion", "metadata", "plan"}
  Keys,         \* the key pool
  Cap,          \* maxDailySpendUsd, in estimates
  MinSamples,   \* minSamples of the breaker (8)
  MaxWindow,    \* MAX_WINDOW_ENTRIES (10000)
  MaxDays,      \* bound on the midnights
  SaveMayFail   \* TRUE when writing spend.json may fail

ASSUME ModelCallsAssumption ==
  /\ Kinds \subseteq {"chat", "completion", "metadata", "plan"}
  /\ Cap \in Nat /\ MaxDays \in Nat /\ SaveMayFail \in BOOLEAN
  /\ MinSamples \in Nat \ {0} /\ MaxWindow \in Nat \ {0} /\ Keys # {}

VARIABLES
  pc, kind, key,  \* where a call is, what it is, and the key it uses
  recorded,       \* usageRecorded of a chat
  budget,         \* BudgetVeto: spent, reserved, and whether its day is over
  breaker,        \* CircuitBreaker: state, window, and the claimed probe
  cool,           \* cooldown of a key
  days,           \* midnights so far
  unsettled,      \* history: calls whose reservation is still theirs
  leaked,         \* history: reservations nobody will settle, until one has slipped
  excess,         \* history: what calls cost above their estimates, until then
  slipped,        \* history: a reservation was given back that was not held
  hung            \* history: keys whose bench is not over

calls == <<pc, kind, key, recorded>>
money == <<budget, unsettled, leaked, excess, slipped>>
vars == <<calls, money, breaker, cool, days, hung>>

InFlight == {"request", "usage", "done"}

-----------------------------------------------------------------------------
(* BudgetVeto.  Every operation holds the budget mutex. *)

Less(n) == IF n = 0 THEN 0 ELSE n - 1

\* rolloverIfNewDay
Rolled(b) == IF b.over THEN [spent |-> 0, reserved |-> 0, over |-> FALSE] ELSE b

\* Mutant: the reservations of the calls under way are not counted.
BugExceeds(b) == b.spent + 1 > Cap

Exceeds(b) == b.spent + b.reserved + 1 > Cap
Reserved(b) == [b EXCEPT !.reserved = @ + 1]
Spent(b, cost) ==
  [Rolled(b) EXCEPT !.reserved = Less(@), !.spent = @ + cost]
\* releaseReservation does not look at the day.
Released(b) == [b EXCEPT !.reserved = Less(@)]

\* History of a rollover: what is under way loses its reservation.
RollHistory(c) ==
  IF budget.over
  THEN /\ slipped' = (slipped \/ unsettled \ {c} # {})
       /\ leaked' = 0 /\ excess' = 0
  ELSE UNCHANGED <<slipped, leaked, excess>>

\* What a call costs, in estimates.
Costs == 0..2

\* recordSpend of a call, which succeeds.
Settle(c) ==
  \E cost \in Costs :
    /\ budget' = Spent(budget, cost)
    /\ unsettled' = IF budget.over THEN {} ELSE unsettled \ {c}
    /\ slipped' = (slipped \/ budget.over)
    /\ leaked' = IF slipped' THEN 0 ELSE leaked
    /\ excess' = IF slipped' THEN 0 ELSE excess + Less(cost)

\* recordSpend, then a throw and the catch's releaseReservation.
SettleTwice(c) ==
  /\ \E cost \in Costs : budget' = Released(Spent(budget, cost))
  /\ unsettled' = IF budget.over THEN {} ELSE unsettled \ {c}
  /\ slipped' = TRUE
  /\ leaked' = 0 /\ excess' = 0

GiveBack(c) ==
  /\ budget' = Released(budget)
  /\ unsettled' = unsettled \ {c}
  /\ UNCHANGED <<leaked, excess, slipped>>

\* Nobody settles: the reservation stays until the next day.
Leak(c) ==
  /\ leaked' = IF slipped THEN 0 ELSE leaked + Cardinality(unsettled \cap {c})
  /\ unsettled' = unsettled \ {c}
  /\ UNCHANGED <<budget, excess, slipped>>

-----------------------------------------------------------------------------
(* CircuitBreaker. *)

Failures(w) == Len(SelectSeq(w, LAMBDA failed : failed))
Trips(w) == Len(w) >= MinSamples /\ 10 * Failures(w) >= 7 * Len(w)

\* The window after a sample: its cap, then the samples that are too old.
Sampled(w, failed) ==
  LET full == Append(IF Len(w) >= MaxWindow THEN Tail(w) ELSE w, failed)
  IN  {SubSeq(full, n, Len(full)) : n \in 1..Len(full)}

Tripped(w) == [ state |-> "open", window |-> w, elapsed |-> FALSE,
                claimed |-> FALSE, lapsed |-> FALSE ]
Closed(w) == [Tripped(w) EXCEPT !.state = "closed"]

\* record
Record(failed) ==
  CASE breaker.state = "closed" ->
         \E w \in Sampled(breaker.window, failed) :
           breaker' = IF Trips(w) THEN Tripped(w) ELSE [breaker EXCEPT !.window = w]
    [] breaker.state = "halfOpen" ->
         breaker' = IF failed THEN Tripped(breaker.window) ELSE Closed(<<>>)
    [] breaker.state = "open" ->
         \E w \in Sampled(breaker.window, failed) : breaker' = [breaker EXCEPT !.window = w]

\* Mutant: a claimed probe is never taken over.
BugFreeProbe == ~breaker.claimed

\* A probe slot, or a claim older than openDuration.
FreeProbe == ~breaker.claimed \/ breaker.lapsed

Admits ==
  \/ breaker.state = "closed"
  \/ breaker.state = "open" /\ breaker.elapsed
  \/ breaker.state = "halfOpen" /\ FreeProbe

Admitted ==
  IF breaker.state = "closed" THEN breaker
  ELSE [ breaker EXCEPT !.state = "halfOpen", !.elapsed = FALSE,
                        !.claimed = TRUE, !.lapsed = FALSE ]

-----------------------------------------------------------------------------
(* ApiKeyManager. *)

\* getNextKey: a key off cool-down, else the one whose cool-down ends soonest.
Choosable ==
  LET free == {k \in Keys : cool[k] = "none"}
      soon == {k \in Keys : cool[k] = "short"}
  IN  IF free # {} THEN free ELSE IF soon # {} THEN soon ELSE Keys

\* reportKeyResult
KeyResult(cooling, k, result) ==
  CASE result = "ok" -> [cooling EXCEPT ![k] = "none"]
    [] result = "failed" -> [cooling EXCEPT ![k] = "short"]
    [] result = "client" -> cooling

\* reportKeyHang: with a single key, a bench is as short as a cool-down.
Rotates == Cardinality(Keys) > 1
KeyHang(cooling, k) == [cooling EXCEPT ![k] = IF Rotates THEN "bench" ELSE "short"]

Report(k, result) ==
  /\ cool' = KeyResult(cool, k, result)
  /\ hung' = IF result = "ok" THEN hung \ {k} ELSE hung

\* chat()'s catch, when no first token or no headers came: both, in this order.
ReportHang(k) ==
  /\ cool' = KeyResult(KeyHang(cool, k), k, "failed")
  /\ hung' = IF Rotates THEN hung \cup {k} ELSE hung

-----------------------------------------------------------------------------
(* The beginning of a call. *)

Goto(c, label) == pc' = [pc EXCEPT ![c] = label]
\* Mutant: usageRecorded survives the call.
BugReturn(c) ==
  /\ Goto(c, "idle")
  /\ kind' = [kind EXCEPT ![c] = "none"]
  /\ UNCHANGED <<key, recorded>>

Return(c) ==
  /\ Goto(c, "idle")
  /\ kind' = [kind EXCEPT ![c] = "none"]
  /\ recorded' = [recorded EXCEPT ![c] = FALSE]
  /\ UNCHANGED key

\* chat() asks the breaker first; a shed call does nothing.
StartChat(c) ==
  /\ pc[c] = "idle" /\ "chat" \in Kinds /\ Admits
  /\ breaker' = Admitted
  /\ Goto(c, "key") /\ kind' = [kind EXCEPT ![c] = "chat"]
  /\ UNCHANGED <<key, recorded, money, cool, days, hung>>

StartOneShot(c) ==
  /\ pc[c] = "idle"
  /\ \E k \in Kinds \ {"chat"} : kind' = [kind EXCEPT ![c] = k]
  /\ Goto(c, "key")
  /\ UNCHANGED <<key, recorded, money, breaker, cool, days, hung>>

GetKey(c) ==
  /\ pc[c] = "key"
  /\ \E k \in Choosable : key' = [key EXCEPT ![c] = k]
  /\ Goto(c, "veto")
  /\ UNCHANGED <<kind, recorded, money, breaker, cool, days, hung>>

\* allKeysAuthDead: getKey throws, outside of the try.
NoKey(c) ==
  /\ pc[c] = "key" /\ \A k \in Keys : cool[k] # "none"
  /\ Return(c)
  /\ UNCHANGED <<money, breaker, cool, days, hung>>

\* checkVeto, also outside: a vetoed chat keeps the probe it has claimed.
CheckVeto(c) ==
  /\ pc[c] = "veto"
  /\ RollHistory(c)
  /\ LET b == Rolled(budget)
         kept == IF budget.over THEN {} ELSE unsettled
     IN  IF Exceeds(b)
         THEN Return(c) /\ budget' = b /\ unsettled' = kept
         ELSE /\ budget' = Reserved(b) /\ unsettled' = kept \cup {c}
              /\ Goto(c, "request") /\ UNCHANGED <<kind, key, recorded>>
  /\ UNCHANGED <<breaker, cool, days, hung>>

-----------------------------------------------------------------------------
(* chat(). *)

IsChat(c) == kind[c] = "chat"

\* A usage chunk is yielded before it is recorded.
YieldUsage(c) ==
  /\ pc[c] = "request" /\ IsChat(c) /\ ~recorded[c]
  /\ Goto(c, "usage")
  /\ UNCHANGED <<kind, key, recorded, money, breaker, cool, days, hung>>

RecordUsage(c) ==
  /\ pc[c] = "usage"
  /\ Settle(c)
  /\ Goto(c, "request") /\ recorded' = [recorded EXCEPT ![c] = TRUE]
  /\ UNCHANGED <<kind, key, breaker, cool, days, hung>>

YieldDone(c) ==
  /\ pc[c] = "request" /\ IsChat(c)
  /\ Goto(c, "done")
  /\ UNCHANGED <<kind, key, recorded, money, breaker, cool, days, hung>>

Finish(c) ==
  /\ pc[c] = "done"
  /\ IF recorded[c] THEN UNCHANGED money ELSE Settle(c)
  /\ Return(c) /\ Report(key[c], "ok") /\ Record(FALSE)
  /\ UNCHANGED days

\* recordSpend throws while it saves, before usageRecorded is set.
SaveFails(c) ==
  /\ SaveMayFail /\ pc[c] \in {"usage", "done"} /\ ~recorded[c]
  /\ SettleTwice(c)
  /\ Return(c) /\ Report(key[c], "failed") /\ Record(TRUE)
  /\ UNCHANGED days

\* Mutant: the catch releases whether or not usage was recorded.
BugCatch(c) == GiveBack(c)

Catch(c) == IF recorded[c] THEN UNCHANGED money ELSE GiveBack(c)

\* 429, 5xx, a stall in the middle, or a first token that never came.
ProviderFails(c) ==
  /\ pc[c] = "request" /\ IsChat(c)
  /\ Catch(c)
  /\ Return(c) /\ Record(TRUE)
  /\ Report(key[c], "failed") \/ ReportHang(key[c])
  /\ UNCHANGED days

\* A 4xx: the provider answered, so the breaker counts it as a success.
ClientError(c) ==
  /\ pc[c] = "request" /\ IsChat(c)
  /\ Catch(c)
  /\ Return(c) /\ Record(FALSE)
  /\ \E r \in {"failed", "client"} : Report(key[c], r)
  /\ UNCHANGED days

\* The abort signal rejects the read: nothing for the breaker, 500 for the key.
UserAborts(c) ==
  /\ pc[c] = "request" /\ IsChat(c)
  /\ Catch(c)
  /\ Return(c) /\ Report(key[c], "failed")
  /\ UNCHANGED <<breaker, days>>

\* The agent loop returns from its for-await at an event.
Abandon(c) ==
  /\ pc[c] \in InFlight /\ IsChat(c)
  /\ Leak(c)
  /\ Return(c)
  /\ UNCHANGED <<breaker, cool, days, hung>>

-----------------------------------------------------------------------------
(* One-shot calls. *)

OneShot(c) == pc[c] = "request" /\ ~IsChat(c)

Answered(c) ==
  /\ OneShot(c)
  /\ Settle(c)
  /\ Return(c) /\ Report(key[c], "ok")
  /\ UNCHANGED <<breaker, days>>

\* generateTinyPlans settles only if the provider told the usage.
AnsweredWithoutUsage(c) ==
  /\ OneShot(c) /\ kind[c] = "plan"
  /\ Leak(c)
  /\ Return(c) /\ Report(key[c], "ok")
  /\ UNCHANGED <<breaker, days>>

\* JSON.parse throws after recordSpend: the catch releases, and blames the key.
Malformed(c) ==
  /\ OneShot(c) /\ kind[c] \in {"plan", "metadata"}
  /\ \/ SettleTwice(c)
     \/ kind[c] = "plan" /\ GiveBack(c)
  /\ Return(c) /\ Report(key[c], "failed")
  /\ UNCHANGED <<breaker, days>>

\* recordSpend of a one-shot call throws while it saves.
OneShotSaveFails(c) ==
  /\ SaveMayFail /\ OneShot(c)
  /\ SettleTwice(c)
  /\ Return(c) /\ \E r \in {"ok", "failed"} : Report(key[c], r)
  /\ UNCHANGED <<breaker, days>>

OneShotFails(c) ==
  /\ OneShot(c)
  /\ GiveBack(c)
  /\ Return(c) /\ \E r \in {"failed", "client"} : Report(key[c], r)
  /\ UNCHANGED <<breaker, days>>

-----------------------------------------------------------------------------
(* Time. *)

Midnight ==
  /\ days < MaxDays
  /\ days' = days + 1
  /\ budget' = [budget EXCEPT !.over = TRUE]
  /\ UNCHANGED <<calls, unsettled, leaked, excess, slipped, breaker, cool, hung>>

OpenElapses ==
  /\ breaker.state = "open" /\ ~breaker.elapsed
  /\ breaker' = [breaker EXCEPT !.elapsed = TRUE]
  /\ UNCHANGED <<calls, money, cool, days, hung>>

ClaimLapses ==
  /\ breaker.state = "halfOpen" /\ breaker.claimed /\ ~breaker.lapsed
  /\ breaker' = [breaker EXCEPT !.lapsed = TRUE]
  /\ UNCHANGED <<calls, money, cool, days, hung>>

\* A cool-down ends; the bench that a key was due, only when it is over.
CoolDownEnds(k) ==
  /\ cool[k] # "none" \/ k \in hung
  /\ cool' = [cool EXCEPT ![k] = "none"]
  /\ hung' = IF cool[k] = "short" THEN hung ELSE hung \ {k}
  /\ UNCHANGED <<calls, money, breaker, days>>

-----------------------------------------------------------------------------
Init ==
  /\ pc = [c \in Calls |-> "idle"] /\ kind = [c \in Calls |-> "none"]
  /\ key \in [Calls -> {CHOOSE k \in Keys : TRUE}]
  /\ recorded = [c \in Calls |-> FALSE]
  /\ budget = [spent |-> 0, reserved |-> 0, over |-> FALSE]
  /\ breaker = Closed(<<>>)
  /\ cool = [k \in Keys |-> "none"] /\ hung = {}
  /\ days = 0 /\ unsettled = {} /\ leaked = 0 /\ excess = 0
  /\ slipped = FALSE

ChatStep(c) ==
  \/ YieldUsage(c) \/ RecordUsage(c) \/ YieldDone(c) \/ Finish(c) \/ SaveFails(c)
  \/ ProviderFails(c) \/ ClientError(c) \/ UserAborts(c) \/ Abandon(c)
OneShotStep(c) ==
  \/ Answered(c) \/ AnsweredWithoutUsage(c) \/ Malformed(c)
  \/ OneShotSaveFails(c) \/ OneShotFails(c)

Next ==
  \/ \E c \in Calls :
       \/ StartChat(c) \/ StartOneShot(c) \/ GetKey(c) \/ NoKey(c) \/ CheckVeto(c)
       \/ ChatStep(c) \/ OneShotStep(c)
  \/ Midnight \/ OpenElapses \/ ClaimLapses
  \/ \E k \in Keys : CoolDownEnds(k)

Spec == Init /\ [][Next]_vars

\* The clock goes on: a cool-down elapses, a claim grows old.
FairSpec == Spec /\ WF_vars(OpenElapses) /\ WF_vars(ClaimLapses)
-----------------------------------------------------------------------------
(* Properties. *)

\* The shape of the state.
TypeOK ==
  /\ pc \in [Calls -> {"idle", "key", "veto"} \cup InFlight]
  /\ kind \in [Calls -> Kinds \cup {"none"}] /\ key \in [Calls -> Keys]
  /\ recorded \in [Calls -> BOOLEAN]
  /\ budget \in [spent : Nat, reserved : Nat, over : BOOLEAN]
  /\ breaker \in [ state : {"closed", "open", "halfOpen"}, window : Seq(BOOLEAN),
                    elapsed : BOOLEAN, claimed : BOOLEAN, lapsed : BOOLEAN ]
  /\ Len(breaker.window) <= MaxWindow
  /\ breaker.state = "halfOpen" => breaker.claimed
  /\ cool \in [Keys -> {"none", "short", "bench"}] /\ hung \subseteq Keys
  /\ days \in 0..MaxDays /\ leaked \in Nat /\ excess \in Nat /\ slipped \in BOOLEAN
  /\ unsettled \subseteq {c \in Calls : pc[c] \in InFlight /\ ~recorded[c]}

\* The cap holds for the calls under way together: apart from what calls cost
\* above their estimates, what was spent and what the unsettled calls reserved
\* is never more than the day's cap, until a reservation is given back that was
\* not held (a save that fails, a malformed answer, a midnight with calls under
\* way).  BudgetVeto.checkVeto.
CapHolds ==
  ~slipped => budget.spent + Cardinality(unsettled) <= Cap + excess

\* Every reservation is settled once: what is reserved is what the unsettled
\* calls hold and what an abandoned call left behind.  A usage chunk and the
\* end, or the catch, of the same chat() do not both settle.
SettledOnce == ~slipped => budget.reserved = Cardinality(unsettled) + leaked

\* A call that is abandoned, vetoed or never answers cannot keep the provider
\* shut out: the breaker admits a call again and again (tryHalfOpenProbe takes
\* over a claim that is older than the cool-down).
BreakerRecovers == []<>Admits

\* Violated.  A key that hung before its first token stays benched: chat()'s
\* catch calls reportKeyHang so that rotation stops feeding the dead lane.
HungKeyIsBenched == \A k \in hung : cool[k] = "bench"
=============================================================================

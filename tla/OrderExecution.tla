--------------------------- MODULE OrderExecution ---------------------------
(***************************************************************************)
(* The calls of TradingEngineService.executeOrder of one user, running at  *)
(* the same time: risk validation (RiskManagerService.validateOrder), the  *)
(* order at the broker (KIS), the result reported to the circuit breaker   *)
(* and the Trade row.  A call is interrupted at every await, so each       *)
(* stage below is one await and each action what runs when it ends.        *)
(* The breaker is the instance Breaker of CircuitBreaker.                  *)
(*                                                                         *)
(* One trading day; every trade counted was created in it.  The loss,      *)
(* position and order-value checks only read: their verdict is any.        *)
(***************************************************************************)
EXTENDS Integers, FiniteSets

CONSTANTS
  userId,
  Order,                       \* requests, each executed once
  MaxConcurrent,               \* calls in flight at a time
  MaxDailyTrades,              \* limits.maxDailyTrades
  FAILURE_THRESHOLD, RECOVERY_TIMEOUT, HALF_OPEN_SUCCESS_THRESHOLD

ASSUME OrdersAssumption ==
  /\ IsFiniteSet(Order)
  /\ MaxConcurrent \in Nat \ {0}
  /\ MaxDailyTrades \in Nat \ {0}
  /\ FAILURE_THRESHOLD \in Nat \ {0}
  /\ RECOVERY_TIMEOUT \in Nat \ {0}
  /\ HALF_OPEN_SUCCESS_THRESHOLD \in Nat \ {0}

VARIABLES
  states, sinceTrip, failureCounts, halfOpenSuccessCount,  \* of the breaker
  stage,         \* order -> where its executeOrder call is
  atBroker,      \* orders the broker accepted
  trades,        \* orders with a Trade row
  overtaken,     \* history: orders past the breaker check when it opened
  failedInRow    \* history: calls that ended in failure since one succeeded

Breaker == INSTANCE CircuitBreaker WITH User <- {userId}

breakerVars == <<states, sinceTrip, failureCounts, halfOpenSuccessCount>>
vars == <<breakerVars, stage, atBroker, trades, overtaken, failedInRow>>

\* "limits": awaiting getRiskLimits.       "screening": past the breaker check,
\* "placing": the order is under way.       awaiting the other risk checks.
\* "accepted": the broker has it.          "saving": awaiting trade.create.
Stage == {"idle", "limits", "screening", "placing", "accepted", "saving", "returned"}

At(stages) == {o \in Order : stage[o] \in stages}

InFlight   == Order \ At({"idle", "returned"})
PastCheck  == At({"screening", "placing"})      \* checked, not yet at the broker
PastCount  == At({"placing", "accepted", "saving"})

TypeOK ==
  /\ Breaker!TypeOK
  /\ stage \in [Order -> Stage]
  /\ atBroker \subseteq Order
  /\ trades \subseteq Order
  /\ overtaken \subseteq Order
  /\ failedInRow \in 0..FAILURE_THRESHOLD

Init ==
  /\ Breaker!Init
  /\ stage = [o \in Order |-> "idle"]
  /\ atBroker = {}
  /\ trades = {}
  /\ overtaken = {}
  /\ failedInRow = 0

-----------------------------------------------------------------------------
GoTo(o, s) == stage' = [stage EXCEPT ![o] = s]

\* The catch clause and the branch of an unsuccessful result: the failure
\* is recorded, which may trip the breaker, and the call returns.
Fail(o) ==
  /\ GoTo(o, "returned")
  /\ Breaker!RecordFailure(userId)
  /\ failedInRow' = IF failedInRow < FAILURE_THRESHOLD THEN failedInRow + 1 ELSE failedInRow

Submit(o) ==
  /\ stage[o] = "idle"
  /\ Cardinality(InFlight) < MaxConcurrent
  /\ GoTo(o, "limits")
  /\ UNCHANGED <<breakerVars, atBroker, trades, failedInRow>>

\* A read of the risk validation throws.
ValidationThrows(o) ==
  /\ stage[o] \in {"limits", "screening"}
  /\ Fail(o)
  /\ UNCHANGED <<atBroker, trades>>

\* Mutated form: the breaker is not asked.
CheckBreakerSkipped(o) ==
  /\ stage[o] = "limits"
  /\ GoTo(o, "screening")
  /\ UNCHANGED <<breakerVars, atBroker, trades, failedInRow>>

\* canPlaceOrder is asked once, when the limits have been read.
CheckBreaker(o) ==
  /\ stage[o] = "limits"
  /\ GoTo(o, IF Breaker!CanPlaceOrder(userId) THEN "screening" ELSE "returned")
  /\ UNCHANGED <<breakerVars, atBroker, trades, failedInRow>>

\* A loss, position or value limit is exceeded; this is no failure.
RiskRejects(o) ==
  /\ stage[o] = "screening"
  /\ GoTo(o, "returned")
  /\ UNCHANGED <<breakerVars, atBroker, trades, failedInRow>>

\* Mutated form: one trade more than the limit passes.
CountTradesOffByOne(o) ==
  /\ stage[o] = "screening"
  /\ GoTo(o, IF Cardinality(trades) > MaxDailyTrades THEN "returned" ELSE "placing")
  /\ UNCHANGED <<breakerVars, atBroker, trades, failedInRow>>

\* The rows of the day are counted, and the answer decides about placing
\* the order however many rows are there by then.
CountTrades(o) ==
  /\ stage[o] = "screening"
  /\ GoTo(o, IF MaxDailyTrades - Cardinality(trades) <= 0 THEN "returned" ELSE "placing")
  /\ UNCHANGED <<breakerVars, atBroker, trades, failedInRow>>

BrokerAccepts(o) ==
  /\ stage[o] = "placing"
  /\ GoTo(o, "accepted")
  /\ atBroker' = atBroker \cup {o}
  /\ UNCHANGED <<breakerVars, trades, failedInRow>>

\* The broker refuses, or the request fails before it gets there.
PlacementFails(o) ==
  /\ stage[o] = "placing"
  /\ Fail(o)
  /\ UNCHANGED <<atBroker, trades>>

\* The broker has the order and the answer is lost: placeOrder throws.
AnswerLost(o) ==
  /\ stage[o] = "accepted"
  /\ Fail(o)
  /\ UNCHANGED <<atBroker, trades>>

AnswerArrives(o) ==
  /\ stage[o] = "accepted"
  /\ Breaker!RecordSuccess(userId)
  /\ GoTo(o, "saving")
  /\ UNCHANGED <<atBroker, trades, failedInRow>>

SaveTrade(o) ==
  /\ stage[o] = "saving"
  /\ trades' = trades \cup {o}
  /\ GoTo(o, "returned")
  /\ failedInRow' = 0
  /\ UNCHANGED <<breakerVars, atBroker>>

\* trade.create throws: the catch clause records a failure for an order
\* that is live at the broker and that no row tells of.
SaveFails(o) ==
  /\ stage[o] = "saving"
  /\ Fail(o)
  /\ UNCHANGED <<atBroker, trades>>

-----------------------------------------------------------------------------
\* The breaker moves without an order: emergencyLiquidation trips it, the
\* user resets it, its timer and the time go on.
EmergencyTrip ==
  /\ Breaker!Trip(userId)
  /\ UNCHANGED <<stage, atBroker, trades, failedInRow>>

ManualReset ==
  /\ Breaker!Reset(userId)
  /\ failedInRow' = 0
  /\ UNCHANGED <<stage, atBroker, trades>>

BreakerTimer ==
  /\ Breaker!AttemptRecovery(userId) \/ Breaker!Tick
  /\ UNCHANGED <<stage, atBroker, trades, failedInRow>>

\* The API process dies: the calls in flight are gone with the breaker's
\* Maps; what the broker and the database have stays.
Crash ==
  /\ Breaker!Restart
  /\ stage' = [o \in Order |-> IF o \in InFlight THEN "returned" ELSE stage[o]]
  /\ failedInRow' = 0
  /\ UNCHANGED <<atBroker, trades>>

\* Keeps the history variable overtaken while the breaker is OPEN.
NoteOpening ==
  overtaken' = IF states'[userId] # "OPEN" THEN {}
               ELSE IF states[userId] # "OPEN" THEN PastCheck'
               ELSE overtaken

Next ==
  /\ \/ \E o \in Order :
          \/ Submit(o) \/ ValidationThrows(o) \/ CheckBreaker(o) \/ RiskRejects(o)
          \/ CountTrades(o) \/ BrokerAccepts(o) \/ PlacementFails(o)
          \/ AnswerLost(o) \/ AnswerArrives(o) \/ SaveTrade(o) \/ SaveFails(o)
     \/ EmergencyTrip \/ ManualReset \/ BreakerTimer \/ Crash
  /\ NoteOpening

Spec == Init /\ [][Next]_vars

-----------------------------------------------------------------------------
\* While the breaker is OPEN the only orders that still reach the broker are
\* those that had passed canPlaceOrder when it opened: validateOrder asks
\* once, several awaits before placeOrder.
OpenLeaksOnlyOvertaken ==
  [][states[userId] = "OPEN" => atBroker' \subseteq atBroker \cup overtaken]_vars

\* The count of Trade rows is read before the order is placed and its row is
\* written after, so calls that run together overshoot the daily limit, but
\* by no more than the calls in flight less one.
DailyOvershootBounded == Cardinality(trades) <= MaxDailyTrades - 1 + MaxConcurrent

\* An OPEN breaker is closed by the user or by a restart, never by the
\* results of orders placed before it opened, however many succeed
\* (recordSuccess counts in HALF_OPEN only).
OpenClosesOnlyByHand ==
  [][states[userId] = "OPEN" /\ states'[userId] = "CLOSED" => ManualReset \/ Crash]_vars

\* circuit-breaker.service.ts:11 says of OPEN that all trading is blocked.
\* Orders that passed the check before still reach the broker.
AllTradingBlockedWhileOpen ==
  [][states[userId] = "OPEN" => atBroker' = atBroker]_vars

\* schema.prisma:34, "Maximum trades per day".
DailyTradeLimit == Cardinality(trades) <= MaxDailyTrades

\* circuit-breaker.service.ts:25 makes the threshold a number of failures in
\* a row, and line 111 calls them failed orders.  An order whose row cannot
\* be saved fails, yet recordSuccess has cleared the count just before.
FailuresInRowTrip ==
  failedInRow >= FAILURE_THRESHOLD => states[userId] # "CLOSED"

-----------------------------------------------------------------------------
\* The strengthening that the proofs use.  The daily bound needs the calls
\* that were allowed by their count and have no row yet.
OrdersInv ==
  /\ stage \in [Order -> Stage]
  /\ trades \subseteq Order
  /\ Cardinality(InFlight) <= MaxConcurrent
  /\ states[userId] = "OPEN" => PastCheck \subseteq overtaken
  /\ Cardinality(trades \cup PastCount) <= MaxDailyTrades - 1 + MaxConcurrent
=============================================================================

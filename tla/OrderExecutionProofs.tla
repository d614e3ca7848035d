------------------------ MODULE OrderExecutionProofs ------------------------
(***************************************************************************)
(* For every number of orders, of concurrent calls and every daily limit:  *)
(* what passes an OPEN breaker was past its check when it opened, and the  *)
(* daily limit is overshot by less than the calls in flight.               *)
(***************************************************************************)
EXTENDS OrderExecution, FiniteSetTheorems, TLAPS

P == INSTANCE CircuitBreakerProofs WITH User <- {userId}

LEMMA StepOfBreaker == [Next]_vars => [Breaker!Next]_breakerVars
  BY DEF Next, vars, breakerVars, Breaker!Next, Submit, ValidationThrows, CheckBreaker,
         RiskRejects, CountTrades, BrokerAccepts, PlacementFails, AnswerLost,
         AnswerArrives, SaveTrade, SaveFails, Fail, EmergencyTrip, ManualReset,
         BreakerTimer, Crash

LEMMA Thresholds == P!ThresholdsAssumption
  BY OrdersAssumption DEF P!ThresholdsAssumption

\* P is the breaker's proof module for the one user, Breaker the instance
\* that OrderExecution uses: the same formulas under two names.
LEMMA SameInit == Breaker!Init <=> P!Init
  BY DEF Breaker!Init, P!Init, Breaker!NoTrip, P!NoTrip

LEMMA SameInv == Breaker!BreakerInv <=> P!BreakerInv
  BY DEF Breaker!BreakerInv, P!BreakerInv, Breaker!TypeOK, P!TypeOK,
         Breaker!ClosedBelowThreshold, P!ClosedBelowThreshold,
         Breaker!TripTimeKnownUnlessClosed, P!TripTimeKnownUnlessClosed,
         Breaker!ProbationEarned, P!ProbationEarned, Breaker!State,
         P!State, Breaker!NoTrip, P!NoTrip

LEMMA SameInvPrimed == Breaker!BreakerInv' <=> P!BreakerInv'
  BY DEF Breaker!BreakerInv, P!BreakerInv, Breaker!TypeOK, P!TypeOK,
         Breaker!ClosedBelowThreshold, P!ClosedBelowThreshold,
         Breaker!TripTimeKnownUnlessClosed, P!TripTimeKnownUnlessClosed,
         Breaker!ProbationEarned, P!ProbationEarned, Breaker!State,
         P!State, Breaker!NoTrip, P!NoTrip

LEMMA SameNext == Breaker!Next <=> P!Next
  BY DEF Breaker!Next, P!Next, Breaker!Trip, P!Trip,
         Breaker!RecordFailure, P!RecordFailure, Breaker!RecordSuccess,
         P!RecordSuccess, Breaker!Reset, P!Reset, Breaker!AttemptRecovery,
         P!AttemptRecovery, Breaker!Tick, P!Tick, Breaker!Restart,
         P!Restart, Breaker!OpenBreaker, P!OpenBreaker,
         Breaker!NextFailureCount, P!NextFailureCount, Breaker!NoTrip,
         P!NoTrip

THEOREM BreakerKeepsItsInvariant == Spec => []Breaker!BreakerInv
<1>1. Init => Breaker!BreakerInv
  BY P!InitBreakerInv, Thresholds, SameInit, SameInv DEF Init
<1>2. Breaker!BreakerInv /\ [Next]_vars => Breaker!BreakerInv'
  BY P!NextBreakerInv, StepOfBreaker, Thresholds, SameNext, SameInv, SameInvPrimed
  DEF P!breakerVars, breakerVars
<1> QED BY <1>1, <1>2, PTL DEF Spec

LEMMA SameGate ==
  /\ Breaker!Gate!GateInit <=> P!Gate!GateInit
  /\ [Breaker!Gate!GateNext]_(Breaker!Gate!gateVars) <=> [P!Gate!GateNext]_(P!Gate!gateVars)
  BY DEF Breaker!Gate!GateInit, P!Gate!GateInit, Breaker!Gate!gateVars, P!Gate!gateVars,
         Breaker!Gate!GateNext, P!Gate!GateNext, Breaker!Gate!Block, P!Gate!Block,
         Breaker!Gate!StartTrial, P!Gate!StartTrial, Breaker!Gate!EarnCredit,
         P!Gate!EarnCredit, Breaker!Gate!CompleteTrial, P!Gate!CompleteTrial,
         Breaker!Gate!Lift, P!Gate!Lift, Breaker!Gate!PassTime, P!Gate!PassTime,
         Breaker!Gate!Forget, P!Gate!Forget, Breaker!Gate!MoveTo, P!Gate!MoveTo,
         Breaker!GateOf, P!GateOf

\* The breaker inside the engine keeps the promise of TradingGate: however the
\* calls interleave, answers are lost and the process restarts, trading resumes
\* only by a whole trial after the whole recovery time, by a person, or because
\* the process forgot.
THEOREM EngineObeysTheGate == Spec => Breaker!ImplementsGate
<1>1. Init => Breaker!Gate!GateInit
  BY P!InitMapsToGate, Thresholds, SameInit, SameGate DEF Init
<1>2. Breaker!BreakerInv /\ [Next]_vars =>
        [Breaker!Gate!GateNext]_(Breaker!Gate!gateVars)
  BY P!StepMapsToGate, StepOfBreaker, Thresholds, SameNext, SameInv, SameGate
  DEF P!breakerVars, breakerVars
<1> QED
  BY <1>1, <1>2, BreakerKeepsItsInvariant, PTL
  DEF Spec, Breaker!ImplementsGate, Breaker!Gate!GateSpec

-----------------------------------------------------------------------------
\* Sets of orders are finite, so a smaller set has the smaller cardinality.
LEMMA OrderSets ==
  ASSUME NEW S \in SUBSET Order, NEW T \in SUBSET Order
  PROVE  /\ IsFiniteSet(S)
         /\ Cardinality(S) \in Nat
         /\ Cardinality(S \cup T) <= Cardinality(S) + Cardinality(T)
         /\ S \subseteq T => Cardinality(S) <= Cardinality(T)
<1>1. IsFiniteSet(S) /\ IsFiniteSet(T)
  BY FS_Subset, OrdersAssumption
<1>2. /\ Cardinality(S) \in Nat /\ Cardinality(T) \in Nat
      /\ Cardinality(S \cap T) \in Nat
  BY <1>1, FS_CardinalityType, FS_Intersection
<1>3. Cardinality(S \cup T) = Cardinality(S) + Cardinality(T) - Cardinality(S \cap T)
  BY <1>1, FS_Union
<1>4. S \subseteq T => Cardinality(S) <= Cardinality(T)
  BY <1>1, FS_Subset
<1> QED BY <1>1, <1>2, <1>3, <1>4

\* A step that starts no call and allows no further call by the count keeps
\* both cardinalities down.
LEMMA InitOrdersInv == Init => OrdersInv
<1> SUFFICES ASSUME Init PROVE OrdersInv
  OBVIOUS
<1>1. InFlight = {} /\ PastCheck = {} /\ PastCount = {}
  BY DEF Init, InFlight, PastCheck, PastCount, At
<1>2. Cardinality({}) = 0
  BY FS_EmptySet
<1>3. stage \in [Order -> Stage] /\ trades = {}
  BY DEF Init, Stage
<1>4. trades \cup PastCount = {}
  BY <1>1, <1>3
<1> QED BY <1>1, <1>2, <1>3, <1>4, OrdersAssumption DEF OrdersInv

\* What every step does but the two that let a call in.
OnlyShrinks ==
  /\ stage' \in [Order -> Stage]
  /\ trades' \subseteq Order
  /\ InFlight' \subseteq InFlight
  /\ PastCheck' \subseteq PastCheck
  /\ trades' \cup PastCount' \subseteq trades \cup PastCount

LEMMA ShrinkingKeeps ==
  ASSUME OrdersInv, OnlyShrinks, NoteOpening
  PROVE  OrdersInv'
<1>1. /\ InFlight \in SUBSET Order
      /\ InFlight' \in SUBSET Order
      /\ trades \cup PastCount \in SUBSET Order
      /\ trades' \cup PastCount' \in SUBSET Order
  BY DEF OrdersInv, OnlyShrinks, InFlight, PastCount, At
<1>2. Cardinality(InFlight') <= Cardinality(InFlight)
  BY <1>1, OrderSets DEF OnlyShrinks
<1>3. Cardinality(trades' \cup PastCount') <= Cardinality(trades \cup PastCount)
  BY <1>1, OrderSets DEF OnlyShrinks
<1>4. /\ Cardinality(InFlight) \in Nat /\ Cardinality(InFlight') \in Nat
      /\ Cardinality(trades \cup PastCount) \in Nat
      /\ Cardinality(trades' \cup PastCount') \in Nat
  BY <1>1, OrderSets
<1>5. states'[userId] = "OPEN" => PastCheck' \subseteq overtaken'
  BY DEF OrdersInv, OnlyShrinks, NoteOpening
<1> QED
  BY <1>2, <1>3, <1>4, <1>5, OrdersAssumption DEF OrdersInv, OnlyShrinks

\* A call that moves on to a later stage, without having been counted.
LEMMA MovingOn ==
  ASSUME OrdersInv, NEW o \in InFlight, NEW s \in Stage \ {"idle"}, GoTo(o, s)
  PROVE  /\ stage' \in [Order -> Stage]
         /\ InFlight' \subseteq InFlight
         /\ s \notin {"screening", "placing"} => PastCheck' \subseteq PastCheck
         /\ PastCount' \subseteq PastCount \cup {o}
         /\ s \notin {"placing", "accepted", "saving"} => PastCount' \subseteq PastCount
  BY DEF OrdersInv, GoTo, InFlight, PastCheck, PastCount, At, Stage

LEMMA NextOrdersInv == OrdersInv /\ [Next]_vars => OrdersInv'
<1> SUFFICES ASSUME OrdersInv, [Next]_vars PROVE OrdersInv'
  OBVIOUS
<1>1. ASSUME NEW o \in Order, Submit(o), NoteOpening PROVE OrdersInv'
  <2>1. /\ stage' \in [Order -> Stage] /\ trades' = trades
        /\ InFlight' = InFlight \cup {o} /\ o \notin InFlight
        /\ PastCheck' = PastCheck /\ PastCount' = PastCount
    BY <1>1 DEF OrdersInv, Submit, GoTo, InFlight, PastCheck, PastCount, At, Stage
  <2>2. InFlight \in SUBSET Order
    BY DEF InFlight
  <2>3. Cardinality(InFlight') = Cardinality(InFlight) + 1
    BY <2>1, <2>2, OrderSets, FS_AddElement
  <2>4. Cardinality(InFlight') <= MaxConcurrent
    BY <1>1, <2>2, <2>3, OrderSets, OrdersAssumption DEF Submit
  <2> QED BY <1>1, <2>1, <2>4 DEF OrdersInv, NoteOpening
<1>2. ASSUME NEW o \in Order, CountTrades(o), NoteOpening PROVE OrdersInv'
  <2>1. /\ o \in InFlight /\ o \in PastCheck /\ trades' = trades
        /\ GoTo(o, "returned") \/ GoTo(o, "placing")
    BY <1>2 DEF CountTrades, InFlight, PastCheck, At
  <2>2. CASE GoTo(o, "returned")
    <3>1. OnlyShrinks
      BY <2>1, <2>2, MovingOn DEF OnlyShrinks, OrdersInv, Stage
    <3> QED BY <1>2, <3>1, ShrinkingKeeps
  <2>3. CASE GoTo(o, "placing")
    <3>1. /\ stage' \in [Order -> Stage]
          /\ InFlight' = InFlight /\ PastCheck' = PastCheck
          /\ PastCount' \subseteq InFlight
      BY <1>2, <2>3 DEF CountTrades, OrdersInv, GoTo, InFlight, PastCheck, PastCount, At, Stage
    <3>2. ~(MaxDailyTrades - Cardinality(trades) <= 0)
      <4>1. stage'[o] = "placing"
        BY <2>3 DEF OrdersInv, GoTo
      <4>2. GoTo(o, "returned") => stage'[o] = "returned"
        BY DEF OrdersInv, GoTo
      <4> QED BY <1>2, <4>1, <4>2, Zenon DEF CountTrades
    <3>3. /\ InFlight \in SUBSET Order
          /\ PastCount' \in SUBSET Order
          /\ trades \in SUBSET Order
      BY DEF InFlight, PastCount, At, OrdersInv
    <3>4. /\ Cardinality(PastCount') <= Cardinality(InFlight)
          /\ Cardinality(trades \cup PastCount') <= Cardinality(trades) + Cardinality(PastCount')
          /\ Cardinality(PastCount') \in Nat /\ Cardinality(trades) \in Nat
          /\ Cardinality(InFlight) \in Nat /\ Cardinality(trades \cup PastCount') \in Nat
      <4>1. trades \cup PastCount' \in SUBSET Order
        BY <3>3
      <4> QED BY <3>1, <3>3, <4>1, OrderSets
    <3>5. Cardinality(trades' \cup PastCount') <= MaxDailyTrades - 1 + MaxConcurrent
      BY <2>1, <3>2, <3>4, OrdersAssumption DEF OrdersInv
    <3> QED BY <1>2, <2>1, <3>1, <3>5 DEF OrdersInv, NoteOpening
  <2> QED BY <2>1, <2>2, <2>3
<1>3. ASSUME NEW o \in Order, CheckBreaker(o), NoteOpening PROVE OrdersInv'
  <2>1. /\ o \in InFlight /\ trades' = trades /\ states' = states
        /\ stage[o] = "limits"
    BY <1>3 DEF CheckBreaker, InFlight, At, breakerVars
  <2>2. CASE states[userId] = "OPEN"
    <3>1. GoTo(o, "returned")
      BY <1>3, <2>2 DEF CheckBreaker, Breaker!CanPlaceOrder
    <3>2. OnlyShrinks
      BY <2>1, <3>1, MovingOn DEF OnlyShrinks, OrdersInv, Stage
    <3> QED BY <1>3, <3>2, ShrinkingKeeps
  <2>3. CASE states[userId] # "OPEN"
    <3>1. GoTo(o, "screening")
      BY <1>3, <2>3 DEF CheckBreaker, Breaker!CanPlaceOrder
    <3>2. /\ stage' \in [Order -> Stage]
          /\ InFlight' = InFlight /\ PastCount' = PastCount
      BY <2>1, <3>1 DEF OrdersInv, GoTo, InFlight, PastCount, At, Stage
    <3> QED BY <2>1, <2>3, <3>2 DEF OrdersInv
  <2> QED BY <2>2, <2>3
<1>4. ASSUME NEW o \in Order, Fail(o), o \in InFlight, trades' = trades, NoteOpening
      PROVE  OrdersInv'
  <2>1. OnlyShrinks
    BY <1>4, MovingOn DEF Fail, OnlyShrinks, OrdersInv, Stage
  <2> QED BY <1>4, <2>1, ShrinkingKeeps
<1>5. ASSUME NEW o \in Order, NoteOpening,
             \/ ValidationThrows(o) \/ PlacementFails(o) \/ AnswerLost(o) \/ SaveFails(o)
      PROVE  OrdersInv'
  BY <1>4, <1>5 DEF ValidationThrows, PlacementFails, AnswerLost, SaveFails, InFlight, At
<1>6. ASSUME NEW o \in Order, RiskRejects(o), NoteOpening PROVE OrdersInv'
  <2>1. o \in InFlight /\ GoTo(o, "returned") /\ trades' = trades
    BY <1>6 DEF RiskRejects, InFlight, At
  <2>2. OnlyShrinks
    BY <2>1, MovingOn DEF OnlyShrinks, OrdersInv, Stage
  <2> QED BY <1>6, <2>2, ShrinkingKeeps
<1>7. ASSUME NEW o \in Order, BrokerAccepts(o) \/ AnswerArrives(o), NoteOpening
      PROVE  OrdersInv'
  <2>1. /\ o \in InFlight /\ o \in PastCount /\ trades' = trades
        /\ GoTo(o, "accepted") \/ GoTo(o, "saving")
    BY <1>7 DEF BrokerAccepts, AnswerArrives, InFlight, PastCount, At
  <2>2. OnlyShrinks
    BY <2>1, MovingOn DEF OnlyShrinks, OrdersInv, Stage
  <2> QED BY <1>7, <2>2, ShrinkingKeeps
<1>8. ASSUME NEW o \in Order, SaveTrade(o), NoteOpening PROVE OrdersInv'
  <2>1. /\ o \in InFlight /\ o \in PastCount /\ trades' = trades \cup {o}
        /\ GoTo(o, "returned")
    BY <1>8 DEF SaveTrade, InFlight, PastCount, At
  <2>2. OnlyShrinks
    BY <2>1, MovingOn DEF OnlyShrinks, OrdersInv, Stage
  <2> QED BY <1>8, <2>2, ShrinkingKeeps
<1>9. ASSUME EmergencyTrip \/ ManualReset \/ BreakerTimer, NoteOpening PROVE OrdersInv'
  <2>1. OnlyShrinks
    BY <1>9 DEF EmergencyTrip, ManualReset, BreakerTimer, OnlyShrinks, OrdersInv,
                InFlight, PastCheck, PastCount, At
  <2> QED BY <1>9, <2>1, ShrinkingKeeps
<1>10. ASSUME Crash, NoteOpening PROVE OrdersInv'
  <2>1. OnlyShrinks
    BY <1>10 DEF Crash, OnlyShrinks, OrdersInv, InFlight, PastCheck, PastCount, At, Stage
  <2> QED BY <1>10, <2>1, ShrinkingKeeps
<1>11. CASE UNCHANGED vars
  BY <1>11 DEF vars, breakerVars, OrdersInv, InFlight, PastCheck, PastCount, At
<1> QED
  BY <1>1, <1>2, <1>3, <1>5, <1>6, <1>7, <1>8, <1>9, <1>10, <1>11 DEF Next

\* The invariant for any number of orders and calls.
THEOREM OrdersInvariant == Spec => []OrdersInv
  BY InitOrdersInv, NextOrdersInv, PTL DEF Spec

\* Concurrent calls overshoot maxDailyTrades by less than the calls in
\* flight, whatever fails and whenever the process restarts.
THEOREM OvershootBounded == Spec => []DailyOvershootBounded
<1>1. OrdersInv => DailyOvershootBounded
  <2> SUFFICES ASSUME OrdersInv PROVE DailyOvershootBounded
    OBVIOUS
  <2>1. trades \in SUBSET Order /\ trades \cup PastCount \in SUBSET Order
    BY DEF OrdersInv, PastCount, At
  <2>2. Cardinality(trades) <= Cardinality(trades \cup PastCount)
    BY <2>1, OrderSets
  <2>3. Cardinality(trades) \in Nat /\ Cardinality(trades \cup PastCount) \in Nat
    BY <2>1, OrderSets
  <2> QED BY <2>2, <2>3, OrdersAssumption DEF OrdersInv, DailyOvershootBounded
<1> QED BY <1>1, OrdersInvariant, PTL

\* While the breaker is OPEN no order reaches the broker but those past
\* canPlaceOrder when it opened.
THEOREM LeaksOnlyOvertaken == Spec => OpenLeaksOnlyOvertaken
<1>1. OrdersInv /\ [Next]_vars =>
        [states[userId] = "OPEN" => atBroker' \subseteq atBroker \cup overtaken]_vars
  <2> SUFFICES ASSUME OrdersInv, Next, states[userId] = "OPEN"
               PROVE  atBroker' \subseteq atBroker \cup overtaken
    OBVIOUS
  <2>1. ASSUME NEW o \in Order, BrokerAccepts(o)
        PROVE  atBroker' \subseteq atBroker \cup overtaken
    BY <2>1 DEF BrokerAccepts, OrdersInv, PastCheck, At
  <2>2. CASE \A o \in Order : ~BrokerAccepts(o)
    BY <2>2 DEF Next, Submit, ValidationThrows, CheckBreaker, RiskRejects, CountTrades,
                PlacementFails, AnswerLost, AnswerArrives, SaveTrade, SaveFails,
                EmergencyTrip, ManualReset, BreakerTimer, Crash
  <2> QED BY <2>1, <2>2
<1> QED BY <1>1, OrdersInvariant, PTL DEF Spec, OpenLeaksOnlyOvertaken

\* No result of an order closes an OPEN breaker, for any number of orders.
THEOREM OpenClosedByHand == Spec => OpenClosesOnlyByHand
<1>1. Breaker!BreakerInv /\ [Next]_vars =>
        [states[userId] = "OPEN" /\ states'[userId] = "CLOSED" => ManualReset \/ Crash]_vars
  <2> SUFFICES ASSUME Breaker!BreakerInv, Next, states[userId] = "OPEN",
                      states'[userId] = "CLOSED"
               PROVE  ManualReset \/ Crash
    OBVIOUS
  <2>1. userId \in DOMAIN states
    BY DEF Breaker!BreakerInv, Breaker!TypeOK
  <2>2. states' # states
    OBVIOUS
  <2>3. ~Breaker!RecordFailure(userId)
    BY <2>1, <2>2 DEF Breaker!RecordFailure, Breaker!OpenBreaker
  <2>4. ~Breaker!RecordSuccess(userId)
    BY <2>2 DEF Breaker!RecordSuccess
  <2>5. ASSUME NEW o \in Order
        PROVE  /\ ~ValidationThrows(o) /\ ~PlacementFails(o) /\ ~AnswerLost(o)
               /\ ~SaveFails(o) /\ ~AnswerArrives(o)
    BY <2>3, <2>4 DEF ValidationThrows, PlacementFails, AnswerLost, SaveFails, AnswerArrives, Fail
  <2>6. ASSUME NEW o \in Order
        PROVE  /\ ~Submit(o) /\ ~CheckBreaker(o) /\ ~RiskRejects(o)
               /\ ~CountTrades(o) /\ ~BrokerAccepts(o) /\ ~SaveTrade(o)
    BY <2>2 DEF Submit, CheckBreaker, RiskRejects, CountTrades, BrokerAccepts, SaveTrade, breakerVars
  <2>7. ~EmergencyTrip
    BY <2>1 DEF EmergencyTrip, Breaker!Trip, Breaker!OpenBreaker
  <2>8. ~BreakerTimer
    BY <2>1, <2>2 DEF BreakerTimer, Breaker!AttemptRecovery, Breaker!Tick
  <2> QED BY <2>5, <2>6, <2>7, <2>8 DEF Next
<1> QED BY <1>1, BreakerKeepsItsInvariant, PTL DEF Spec, OpenClosesOnlyByHand
=============================================================================

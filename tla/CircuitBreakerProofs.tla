------------------------ MODULE CircuitBreakerProofs ------------------------
(***************************************************************************)
(* BreakerInv is inductive, for every set of users and all thresholds, and *)
(* from it the breaker implements TradingGate.                             *)
(***************************************************************************)
EXTENDS CircuitBreaker, TLAPS

LEMMA InitBreakerInv == Init => BreakerInv
  BY ThresholdsAssumption
  DEF Init, BreakerInv, TypeOK, ClosedBelowThreshold, TripTimeKnownUnlessClosed,
      ProbationEarned, State, NoTrip

LEMMA NextBreakerInv == BreakerInv /\ [Next]_breakerVars => BreakerInv'
<1> SUFFICES ASSUME BreakerInv, [Next]_breakerVars PROVE BreakerInv'
  OBVIOUS
<1> USE ThresholdsAssumption
    DEF BreakerInv, TypeOK, ClosedBelowThreshold, TripTimeKnownUnlessClosed,
        ProbationEarned, State, NoTrip
<1>1. ASSUME NEW u \in User, Trip(u) PROVE BreakerInv'
  BY <1>1 DEF Trip, OpenBreaker
<1>2. ASSUME NEW u \in User, RecordFailure(u) PROVE BreakerInv'
  <2>1. CASE NextFailureCount(u) >= FAILURE_THRESHOLD
    BY <1>2, <2>1 DEF RecordFailure, OpenBreaker, NextFailureCount
  <2>2. CASE ~(NextFailureCount(u) >= FAILURE_THRESHOLD)
    BY <1>2, <2>2 DEF RecordFailure, NextFailureCount
  <2> QED BY <2>1, <2>2
<1>3. ASSUME NEW u \in User, Reset(u) PROVE BreakerInv'
  BY <1>3 DEF Reset
<1>4. ASSUME NEW u \in User, RecordSuccess(u) PROVE BreakerInv'
  BY <1>3, <1>4 DEF RecordSuccess
<1>5. ASSUME NEW u \in User, AttemptRecovery(u) PROVE BreakerInv'
  BY <1>5 DEF AttemptRecovery
<1>6. CASE Tick
  BY <1>6 DEF Tick
<1>7. CASE Restart
  BY <1>7 DEF Restart
<1>8. CASE UNCHANGED breakerVars
  BY <1>8 DEF breakerVars
<1> QED
  BY <1>1, <1>2, <1>3, <1>4, <1>5, <1>6, <1>7, <1>8 DEF Next

\* For all users and thresholds: types, a CLOSED breaker below the failure
\* threshold, a known trip time whenever not CLOSED, and HALF_OPEN only after
\* the full recovery time since the latest trip.
THEOREM BreakerInvariant == Spec => []BreakerInv
  BY InitBreakerInv, NextBreakerInv, PTL DEF Spec

\* The parts of it that the runs check by themselves.
THEOREM ClosedStaysBelowThreshold == Spec => []ClosedBelowThreshold
  BY BreakerInvariant, PTL DEF BreakerInv

THEOREM NeverStuckOpen == Spec => []TripTimeKnownUnlessClosed
  BY BreakerInvariant, PTL DEF BreakerInv

THEOREM ProbationIsEarned == Spec => []ProbationEarned
  BY BreakerInvariant, PTL DEF BreakerInv

-----------------------------------------------------------------------------
LEMMA InitMapsToGate == Init => Gate!GateInit
  BY DEF Init, Gate!GateInit, GateOf

LEMMA OpeningBlocks ==
  ASSUME BreakerInv, NEW u \in User, OpenBreaker(u),
         halfOpenSuccessCount' = halfOpenSuccessCount
  PROVE  Gate!Block(u)
  BY DEF BreakerInv, TypeOK, State, OpenBreaker, Gate!Block, Gate!MoveTo, GateOf

LEMMA ResettingLifts ==
  ASSUME BreakerInv, NEW u \in User, Reset(u)
  PROVE  Gate!Lift(u)
  BY DEF BreakerInv, TypeOK, State, Reset, Gate!Lift, Gate!MoveTo, GateOf

LEMMA StepMapsToGate ==
  BreakerInv /\ [Next]_breakerVars => [Gate!GateNext]_(Gate!gateVars)
<1> SUFFICES ASSUME BreakerInv, [Next]_breakerVars
             PROVE  Gate!GateNext \/ UNCHANGED Gate!gateVars
  OBVIOUS
<1>1. ASSUME NEW u \in User, Trip(u) PROVE Gate!GateNext
  BY <1>1, OpeningBlocks DEF Trip, Gate!GateNext
<1>2. ASSUME NEW u \in User, RecordFailure(u)
      PROVE  Gate!GateNext \/ UNCHANGED Gate!gateVars
  <2>1. CASE OpenBreaker(u)
    BY <1>2, <2>1, OpeningBlocks DEF RecordFailure, Gate!GateNext
  <2>2. CASE UNCHANGED <<states, sinceTrip>>
    BY <1>2, <2>2 DEF RecordFailure, Gate!gateVars
  <2> QED BY <1>2, <2>1, <2>2 DEF RecordFailure
<1>3. ASSUME NEW u \in User, Reset(u) PROVE Gate!GateNext
  BY <1>3, ResettingLifts DEF Gate!GateNext
<1>4. ASSUME NEW u \in User, RecordSuccess(u)
      PROVE  Gate!GateNext \/ UNCHANGED Gate!gateVars
  <2>1. CASE Reset(u)
    BY <1>3, <2>1
  <2>2. CASE /\ states[u] = "HALF_OPEN"
             /\ halfOpenSuccessCount[u] + 1 < HALF_OPEN_SUCCESS_THRESHOLD
             /\ halfOpenSuccessCount' = [halfOpenSuccessCount EXCEPT ![u] = @ + 1]
             /\ UNCHANGED <<states, sinceTrip>>
    <3>1. Gate!EarnCredit(u)
      BY <2>2 DEF BreakerInv, TypeOK, State, Gate!EarnCredit, Gate!MoveTo, GateOf
    <3> QED BY <3>1 DEF Gate!GateNext
  <2>3. CASE UNCHANGED <<states, sinceTrip, halfOpenSuccessCount>>
    BY <2>3 DEF Gate!gateVars
  <2> QED BY <1>4, <2>1, <2>2, <2>3 DEF RecordSuccess
<1>5. ASSUME NEW u \in User, AttemptRecovery(u) PROVE Gate!GateNext
  <2>1. sinceTrip[u] = RECOVERY_TIMEOUT
    BY <1>5, ThresholdsAssumption DEF BreakerInv, TypeOK, NoTrip, AttemptRecovery
  <2>2. Gate!MoveTo(u, "trial", 0, 0)
    BY <1>5 DEF BreakerInv, TypeOK, State, AttemptRecovery, Gate!MoveTo, GateOf
  <2>3. Gate!StartTrial(u)
    BY <1>5, <2>1, <2>2 DEF AttemptRecovery, Gate!StartTrial, GateOf
  <2> QED BY <2>3 DEF Gate!GateNext
<1>6. CASE Tick
  <2>1. Gate!PassTime
    BY <1>6, ThresholdsAssumption
    DEF BreakerInv, TypeOK, TripTimeKnownUnlessClosed, State, NoTrip, Tick,
        Gate!PassTime, GateOf
  <2> QED BY <2>1 DEF Gate!GateNext
<1>7. CASE Restart
  BY <1>7 DEF Restart, Gate!GateNext, Gate!Forget, GateOf
<1>8. CASE UNCHANGED breakerVars
  BY <1>8 DEF breakerVars, Gate!gateVars
<1> QED
  BY <1>1, <1>2, <1>3, <1>4, <1>5, <1>6, <1>7, <1>8 DEF Next

\* Whatever the callers do, for all users and thresholds the breaker does
\* only what TradingGate allows: its stale counters never show.
THEOREM BreakerImplementsGate == Spec => ImplementsGate
  BY InitMapsToGate, StepMapsToGate, BreakerInvariant, PTL
  DEF Spec, ImplementsGate, Gate!GateSpec
=============================================================================

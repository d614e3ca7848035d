--------------------------- MODULE CircuitBreaker ---------------------------
(***************************************************************************)
(* CircuitBreakerService, the per-user breaker every order of the trading  *)
(* engine consults.  Its Maps live in the memory of the API process; its   *)
(* methods run to their first await without interruption, and nothing they *)
(* do after it (audit entry, event) changes this state, so each method is  *)
(* one action.  Callers are any: results of orders arrive whenever they    *)
(* arrive, also for orders placed before the breaker tripped.              *)
(*                                                                         *)
(* Time is counted in periods of the recovery timer (60 s).  A trip time   *)
(* is kept as the time elapsed since, which is all the code computes from  *)
(* it, and stops counting at RECOVERY_TIMEOUT; failure counts stop at      *)
(* FAILURE_THRESHOLD: the code only compares them with these bounds.       *)
(***************************************************************************)
EXTENDS Integers

CONSTANTS
  User,
  FAILURE_THRESHOLD,            \* failures in a row that trip the breaker
  RECOVERY_TIMEOUT,             \* periods before a recovery is attempted
  HALF_OPEN_SUCCESS_THRESHOLD   \* successes that end HALF_OPEN

ASSUME ThresholdsAssumption ==
  /\ FAILURE_THRESHOLD \in Nat \ {0}
  /\ RECOVERY_TIMEOUT \in Nat \ {0}
  /\ HALF_OPEN_SUCCESS_THRESHOLD \in Nat \ {0}

VARIABLES
  states,                \* user -> state of the breaker
  sinceTrip,             \* user -> time since tripTimestamps, or NoTrip
  failureCounts,         \* user -> failures since the last success
  halfOpenSuccessCount   \* user -> successes counted in HALF_OPEN

breakerVars == <<states, sinceTrip, failureCounts, halfOpenSuccessCount>>

State == {"CLOSED", "OPEN", "HALF_OPEN"}

\* No entry in tripTimestamps (nor in tripReasons, which goes with it).
NoTrip == -1

TypeOK ==
  /\ states \in [User -> State]
  /\ sinceTrip \in [User -> {NoTrip} \cup 0..RECOVERY_TIMEOUT]
  /\ failureCounts \in [User -> 0..FAILURE_THRESHOLD]
  /\ halfOpenSuccessCount \in [User -> 0..HALF_OPEN_SUCCESS_THRESHOLD]

\* The process starts with empty Maps, which read as CLOSED and zero.
Init ==
  /\ states               = [u \in User |-> "CLOSED"]
  /\ sinceTrip            = [u \in User |-> NoTrip]
  /\ failureCounts        = [u \in User |-> 0]
  /\ halfOpenSuccessCount = [u \in User |-> 0]

CanPlaceOrder(u) == states[u] # "OPEN"

-----------------------------------------------------------------------------
\* Mutated form: the trip time is not recorded.
OpenBreakerUntimed(u) ==
  /\ states' = [states EXCEPT ![u] = "OPEN"]
  /\ UNCHANGED sinceTrip

\* trip leaves both counters as they are.
OpenBreaker(u) ==
  /\ states'    = [states    EXCEPT ![u] = "OPEN"]
  /\ sinceTrip' = [sinceTrip EXCEPT ![u] = 0]

Trip(u) ==
  /\ OpenBreaker(u)
  /\ UNCHANGED <<failureCounts, halfOpenSuccessCount>>

NextFailureCount(u) ==
  IF failureCounts[u] < FAILURE_THRESHOLD THEN failureCounts[u] + 1
                                          ELSE FAILURE_THRESHOLD

RecordFailure(u) ==
  /\ failureCounts' = [failureCounts EXCEPT ![u] = NextFailureCount(u)]
  /\ IF NextFailureCount(u) >= FAILURE_THRESHOLD
     THEN OpenBreaker(u)
     ELSE UNCHANGED <<states, sinceTrip>>
  /\ UNCHANGED halfOpenSuccessCount

\* Mutated form: the failure count survives the reset.
ResetKeepingFailures(u) ==
  /\ states'               = [states               EXCEPT ![u] = "CLOSED"]
  /\ sinceTrip'            = [sinceTrip            EXCEPT ![u] = NoTrip]
  /\ halfOpenSuccessCount' = [halfOpenSuccessCount EXCEPT ![u] = 0]
  /\ UNCHANGED failureCounts

Reset(u) ==
  /\ states'               = [states               EXCEPT ![u] = "CLOSED"]
  /\ sinceTrip'            = [sinceTrip            EXCEPT ![u] = NoTrip]
  /\ failureCounts'        = [failureCounts        EXCEPT ![u] = 0]
  /\ halfOpenSuccessCount' = [halfOpenSuccessCount EXCEPT ![u] = 0]

\* Mutated form: a late success counts while OPEN as well.
RecordSuccessAnyState(u) ==
  IF halfOpenSuccessCount[u] + 1 >= HALF_OPEN_SUCCESS_THRESHOLD
  THEN Reset(u)
  ELSE /\ halfOpenSuccessCount' = [halfOpenSuccessCount EXCEPT ![u] = @ + 1]
       /\ failureCounts' = [failureCounts EXCEPT ![u] = 0]
       /\ UNCHANGED <<states, sinceTrip>>

\* A success counts towards recovery only in HALF_OPEN, and clears the
\* failure count in every state.
RecordSuccess(u) ==
  \/ /\ states[u] = "HALF_OPEN"
     /\ halfOpenSuccessCount[u] + 1 >= HALF_OPEN_SUCCESS_THRESHOLD
     /\ Reset(u)
  \/ /\ states[u] = "HALF_OPEN"
     /\ halfOpenSuccessCount[u] + 1 < HALF_OPEN_SUCCESS_THRESHOLD
     /\ halfOpenSuccessCount' = [halfOpenSuccessCount EXCEPT ![u] = @ + 1]
     /\ failureCounts' = [failureCounts EXCEPT ![u] = 0]
     /\ UNCHANGED <<states, sinceTrip>>
  \/ /\ states[u] # "HALF_OPEN"
     /\ failureCounts' = [failureCounts EXCEPT ![u] = 0]
     /\ UNCHANGED <<states, sinceTrip, halfOpenSuccessCount>>

\* Mutated form: the elapsed time is not looked at.
AttemptRecoveryEarly(u) ==
  /\ states[u] = "OPEN"
  /\ states' = [states EXCEPT ![u] = "HALF_OPEN"]
  /\ halfOpenSuccessCount' = [halfOpenSuccessCount EXCEPT ![u] = 0]
  /\ UNCHANGED <<sinceTrip, failureCounts>>

\* Mutated form: the successes of an earlier recovery still count.
AttemptRecoveryKeepingCount(u) ==
  /\ states[u] = "OPEN"
  /\ sinceTrip[u] # NoTrip
  /\ sinceTrip[u] >= RECOVERY_TIMEOUT
  /\ states' = [states EXCEPT ![u] = "HALF_OPEN"]
  /\ UNCHANGED <<sinceTrip, failureCounts, halfOpenSuccessCount>>

\* attemptRecovery changes nothing unless all three guards hold.
AttemptRecovery(u) ==
  /\ states[u] = "OPEN"
  /\ sinceTrip[u] # NoTrip
  /\ sinceTrip[u] >= RECOVERY_TIMEOUT
  /\ states' = [states EXCEPT ![u] = "HALF_OPEN"]
  /\ halfOpenSuccessCount' = [halfOpenSuccessCount EXCEPT ![u] = 0]
  /\ UNCHANGED <<sinceTrip, failureCounts>>

-----------------------------------------------------------------------------
\* Mutated form: an attempt that comes too early starts the time anew.
TickRenewing ==
  /\ sinceTrip' = [u \in User |-> IF states[u] = "OPEN" THEN 0 ELSE sinceTrip[u]]
  /\ UNCHANGED <<states, failureCounts, halfOpenSuccessCount>>

\* One period of the timer goes by.
Tick ==
  /\ sinceTrip' = [u \in User |->
                     IF sinceTrip[u] \in 0..(RECOVERY_TIMEOUT - 1)
                     THEN sinceTrip[u] + 1 ELSE sinceTrip[u]]
  /\ UNCHANGED <<states, failureCounts, halfOpenSuccessCount>>

\* The API process restarts: the Maps are not stored anywhere.
Restart ==
  /\ states'               = [u \in User |-> "CLOSED"]
  /\ sinceTrip'            = [u \in User |-> NoTrip]
  /\ failureCounts'        = [u \in User |-> 0]
  /\ halfOpenSuccessCount' = [u \in User |-> 0]

Next ==
  \/ \E u \in User : \/ Trip(u) \/ RecordFailure(u) \/ RecordSuccess(u)
                     \/ Reset(u) \/ AttemptRecovery(u)
  \/ Tick
  \/ Restart

Spec == Init /\ [][Next]_breakerVars

\* setInterval runs the recovery attempt for every OPEN user each period,
\* and time passes.  Nothing is assumed of the callers.
Fairness == WF_breakerVars(Tick) /\ \A u \in User : WF_breakerVars(AttemptRecovery(u))

FairSpec == Spec /\ Fairness

-----------------------------------------------------------------------------
\* A CLOSED breaker has always at least one failure to go: no order of
\* results, late ones included, leaves it CLOSED with the threshold reached
\* (recordFailure trips in the same step; reset and recordSuccess clear).
ClosedBelowThreshold ==
  \A u \in User : states[u] = "CLOSED" => failureCounts[u] < FAILURE_THRESHOLD

\* A breaker that is not CLOSED knows when it tripped, so attemptRecovery
\* never takes its "no trip time" exit (line 179), which would leave the
\* user blocked for ever; a CLOSED one has forgotten the trip.
TripTimeKnownUnlessClosed ==
  \A u \in User : states[u] = "CLOSED" <=> sinceTrip[u] = NoTrip

\* HALF_OPEN means that the full recovery time went by since the LATEST
\* trip (a late failure of an order in flight trips again and starts the
\* time anew), and that successes are still missing.
ProbationEarned ==
  \A u \in User : states[u] = "HALF_OPEN" =>
     /\ sinceTrip[u] = RECOVERY_TIMEOUT
     /\ halfOpenSuccessCount[u] < HALF_OPEN_SUCCESS_THRESHOLD

\* The strengthening that the proofs use: the three together are inductive.
BreakerInv ==
  TypeOK /\ ClosedBelowThreshold /\ TripTimeKnownUnlessClosed /\ ProbationEarned

\* A user does not stay blocked for ever: an OPEN breaker recovers unless it
\* is tripped again and again.
OpenRecoversUnlessRetripped ==
  \A u \in User : \/ []<>(states[u] # "OPEN")
                  \/ []<><<OpenBreaker(u)>>_breakerVars

-----------------------------------------------------------------------------
\* The breaker implements TradingGate: the counter that trip leaves stale is
\* no credit, and the trip time matters only while OPEN.
GateOf(s) == CASE s = "CLOSED" -> "allowed" [] s = "OPEN" -> "blocked" [] OTHER -> "trial"

Gate == INSTANCE TradingGate WITH
  RecoveryTime    <- RECOVERY_TIMEOUT,
  SuccessesNeeded <- HALF_OPEN_SUCCESS_THRESHOLD,
  gate   <- [u \in User |-> GateOf(states[u])],
  quiet  <- [u \in User |-> IF states[u] = "OPEN" THEN sinceTrip[u] ELSE 0],
  credit <- [u \in User |-> IF states[u] = "HALF_OPEN" THEN halfOpenSuccessCount[u] ELSE 0]

\* Every behaviour of the breaker is one the gate allows: trading resumes
\* only after the full time and the full number of successes of one trial.
ImplementsGate == Gate!GateSpec
=============================================================================

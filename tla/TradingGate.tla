---------------------------- MODULE TradingGate ----------------------------
(***************************************************************************)
(* What the circuit breaker promises to the code that asks canPlaceOrder,  *)
(* told without its counters: trading of a user is allowed, blocked or on  *)
(* trial; it comes back from a block only by a trial that starts after the *)
(* full recovery time since the LATEST block and that the required number  *)
(* of successes completes, by a person, or because the process restarted.  *)
(* CircuitBreaker is shown to implement this module.                       *)
(***************************************************************************)
EXTENDS Naturals

CONSTANTS
  User,              \* users, each with a gate of his own
  RecoveryTime,      \* time a block lasts at least, in timer periods
  SuccessesNeeded    \* successes that complete a trial

VARIABLES
  gate,    \* user -> "allowed", "blocked" or "trial"
  quiet,   \* user -> time since the latest block, up to RecoveryTime
  credit   \* user -> successes earned in the running trial

gateVars == <<gate, quiet, credit>>

GateInit ==
  /\ gate   = [u \in User |-> "allowed"]
  /\ quiet  = [u \in User |-> 0]
  /\ credit = [u \in User |-> 0]

\* The user u moves to the given gate, with q time since the block and c successes.
MoveTo(u, g, q, c) ==
  /\ gate'   = [gate   EXCEPT ![u] = g]
  /\ quiet'  = [quiet  EXCEPT ![u] = q]
  /\ credit' = [credit EXCEPT ![u] = c]

\* A block may fall at any time, and one that falls on a blocked user starts
\* the recovery time again.
Block(u) == MoveTo(u, "blocked", 0, 0)

StartTrial(u) ==
  /\ gate[u] = "blocked"
  /\ quiet[u] = RecoveryTime
  /\ MoveTo(u, "trial", 0, 0)

EarnCredit(u) ==
  /\ gate[u] = "trial"
  /\ credit[u] + 1 < SuccessesNeeded
  /\ MoveTo(u, "trial", 0, credit[u] + 1)

CompleteTrial(u) ==
  /\ gate[u] = "trial"
  /\ credit[u] + 1 = SuccessesNeeded
  /\ MoveTo(u, "allowed", 0, 0)

\* A person lifts the block or ends the trial.
Lift(u) == MoveTo(u, "allowed", 0, 0)

PassTime ==
  /\ quiet' = [u \in User |-> IF gate[u] = "blocked" /\ quiet[u] < RecoveryTime
                              THEN quiet[u] + 1 ELSE quiet[u]]
  /\ UNCHANGED <<gate, credit>>

\* The process that keeps the gates starts again and knows of no block.
Forget ==
  /\ gate'   = [u \in User |-> "allowed"]
  /\ quiet'  = [u \in User |-> 0]
  /\ credit' = [u \in User |-> 0]

GateNext ==
  \/ \E u \in User : \/ Block(u) \/ StartTrial(u) \/ EarnCredit(u)
                     \/ CompleteTrial(u) \/ Lift(u)
  \/ PassTime
  \/ Forget

GateSpec == GateInit /\ [][GateNext]_gateVars
=============================================================================

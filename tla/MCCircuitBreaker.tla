------------------------- MODULE MCCircuitBreaker -------------------------
(* The breaker on its own.  Two users, to see that a trip of one leaves the *)
(* other alone, and thresholds small enough that every counter meets its    *)
(* bound.                                                                   *)
EXTENDS CircuitBreaker
=============================================================================

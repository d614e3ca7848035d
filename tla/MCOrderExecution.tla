------------------------- MODULE MCOrderExecution -------------------------
(* Five orders of which three run at a time, and a limit of two trades a    *)
(* day: the overshoot and the orders that overtake a trip both occur.       *)
EXTENDS OrderExecution, TLC

Interchangeable == Permutations(Order)
=============================================================================

------------------------- MODULE MCExecutionLedger -------------------------
(* A buy of two shares and a sale of one, so that what a handler read may    *)
(* be gone, sold out or created anew by the time it writes.                  *)
EXTENDS ExecutionLedger

CONSTANTS b1, s1

OrderSize == [o \in Order |-> IF o = b1 THEN 2 ELSE 1]
=============================================================================

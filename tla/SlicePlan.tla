----------------------------- MODULE SlicePlan -----------------------------
(***************************************************************************)
(* How an order is cut into slices: the loops of executeTWAP, executeVWAP, *)
(* executeIceberg (SmartOrderService) and executeSplitOrder                *)
(* (TradingEngineService), one step for each turn of the loop.  A slice is *)
(* its quantity; the place in the plan is its time, one interval after the *)
(* slice before it.                                                        *)
(***************************************************************************)
EXTENDS Integers, Sequences, SequencesExt

CONSTANTS
  Totals,     \* quantities that are asked for
  Parts,      \* numbers of slices; for an iceberg, display quantities
  Rates       \* weight times participation rate of a minute, in percent

\* No request is for nothing or for no slices, and a minute without volume counts
\* as one of average volume ("|| 1").
Limits == \A n \in Totals \cup Parts \cup Rates : n \in Nat \ {0}

Method == {"TWAP", "VWAP", "ICEBERG", "SPLIT"}

VARIABLES
  method, total, parts,   \* the request
  turn,                   \* turns of the loop so far
  left,                   \* remainingQty
  plan,                   \* the slices so far
  done

vars == <<method, total, parts, turn, left, plan, done>>

TypeOK ==
  /\ method \in Method /\ total \in Totals /\ parts \in Parts
  /\ turn \in Nat
  /\ left \in 0..total
  /\ plan \in Seq(1..total)
  /\ done \in BOOLEAN

Init ==
  /\ method \in Method /\ total \in Totals /\ parts \in Parts
  /\ turn = 0
  /\ left = total
  /\ plan = <<>>
  /\ done = FALSE

-----------------------------------------------------------------------------
\* Math.ceil(a / b)
CeilDiv(a, b)  == (a + b - 1) \div b
Smaller(a, b)  == IF a < b THEN a ELSE b

Slice(q) ==
  /\ plan' = Append(plan, q)
  /\ left' = left - q
  /\ turn' = turn + 1

\* The loop "for (i < totalSlices && remainingQty > 0)".
Turn(m) == ~done /\ method = m /\ left > 0 /\ turn < parts

Rest == UNCHANGED <<method, total, parts, done>>

TwapSlice == Turn("TWAP") /\ Slice(Smaller(CeilDiv(total, parts), left)) /\ Rest

VwapSlice ==
  /\ Turn("VWAP")
  /\ \E rate \in Rates : Slice(Smaller(CeilDiv(CeilDiv(total, parts) * rate, 100), left))
  /\ Rest

\* An iceberg goes on until nothing is left; parts is its displayQuantity.
IcebergSlice ==
  /\ ~done /\ method = "ICEBERG" /\ left > 0
  /\ Slice(Smaller(parts, left))
  /\ Rest

\* executeSplitOrder: the last order takes the remainder, and an order of
\* nothing is left out.
SplitQuantity == (total \div parts) + (IF turn = parts - 1 THEN total % parts ELSE 0)

SplitSlice ==
  /\ ~done /\ method = "SPLIT" /\ turn < parts
  /\ IF SplitQuantity > 0 THEN Slice(SplitQuantity) ELSE turn' = turn + 1 /\ UNCHANGED <<plan, left>>
  /\ Rest

\* Mutated form: what the loop left over is dropped.
LeftoverDropped(m) == UNCHANGED plan

\* executeVWAP adds what the loop left over to the last slice.
Leftover(m) ==
  IF m = "VWAP" /\ left > 0 /\ plan # <<>>
  THEN plan' = [plan EXCEPT ![Len(plan)] = @ + left]
  ELSE UNCHANGED plan

End ==
  /\ ~done
  /\ CASE method = "ICEBERG" -> left = 0
       [] method = "SPLIT"   -> turn = parts
       [] OTHER              -> left = 0 \/ turn = parts
  /\ done' = TRUE
  /\ Leftover(method)
  /\ UNCHANGED <<method, total, parts, turn, left>>

Next == TwapSlice \/ VwapSlice \/ IcebergSlice \/ SplitSlice \/ End

Spec == Init /\ [][Next]_vars

-----------------------------------------------------------------------------
Sum(s) == FoldLeft(LAMBDA a, q : a + q, 0, s)

\* Whatever the total, the number of slices and the volume profile, the slices
\* of a plan add up to what was asked for: nothing is lost or bought twice.
PlanIsWhole == done => Sum(plan) = total

\* "Equal parts over time" (smart-order.service.ts:204): the slices of a TWAP
\* differ by one share at most, the last one included.
TwapEven ==
  done /\ method = "TWAP" => \A j, k \in DOMAIN plan : plan[j] - plan[k] <= 1

\* "The quantity is shared out by the volume profile" (smart-order.service.ts:173):
\* with at least twice as many shares as slices, none gets more than half of them.
VwapSpread ==
  done /\ method = "VWAP" /\ Len(plan) > 2 /\ total >= 2 * parts =>
    \A k \in DOMAIN plan : 2 * plan[k] <= total
=============================================================================

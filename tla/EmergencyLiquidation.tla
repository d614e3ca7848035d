------------------------- MODULE EmergencyLiquidation -------------------------
(***************************************************************************)
(* RiskManagerService.emergencyLiquidation against the broker's account:   *)
(* it cancels the open orders it finds in the Trade rows, asks for the     *)
(* holdings, and sells all of each.  Meanwhile orders are placed, fill and *)
(* are noticed, and a second call may do the same.  The trip of the        *)
(* breaker and the audit row, which swallow their errors or end the call   *)
(* before anything is done, are left out (see CircuitBreaker), and so are  *)
(* orders the broker refuses.                                              *)
(*                                                                         *)
(* Of the broker it is assumed that a sale is accepted only up to the      *)
(* shares not yet in a sale, and that a cancellation accepted is done.     *)
(***************************************************************************)
EXTENDS Integers, FiniteSets, FiniteSetsExt

CONSTANTS
  Run,        \* calls of emergencyLiquidation
  Order, Stock,
  MaxShares   \* bound: size of an order, and shares held at the start

NoOrder == "none"

Limits == MaxShares \in Nat /\ IsFiniteSet(Order) /\ NoOrder \notin Order

VARIABLES
  order,      \* order -> its side and stock
  status,     \* order -> status of its Trade row
  placing,    \* order -> "new", "sending", "sent" (answer not recorded), "placed"
  rest,       \* order -> what is open of it at the broker
  holding,    \* stock -> shares in the account
  selling,    \* stock -> shares in market sales that are open
  stage, todo, numbers, current, toSell, failed,   \* of each call
  missed,     \* history: open orders the call could not see, or whose refused cancellation it did not read
  blind       \* history: calls whose request for the holdings was refused

broker == <<order, rest, holding, selling>>
calls  == <<stage, todo, numbers, current, toSell, failed>>
vars   == <<broker, status, placing, calls, missed, blind>>

Status == {"ABSENT", "PENDING", "SUBMITTED", "PARTIALLY_FILLED", "FILLED", "CANCELLED"}
Stage  == {"idle", "cancelling", "selling", "done"}

TypeOK ==
  /\ order \in [Order -> [side : {"BUY", "SELL"}, stock : Stock]]
  /\ status \in [Order -> Status]
  /\ placing \in [Order -> {"new", "sending", "sent", "placed"}]
  /\ rest \in [Order -> 0..MaxShares]
  /\ holding \in [Stock -> Nat] /\ selling \in [Stock -> Nat]
  /\ stage \in [Run -> Stage]
  /\ todo \in [Run -> SUBSET Order] /\ numbers \in [Run -> SUBSET Order]
  /\ current \in [Run -> Order \cup {NoOrder}]
  /\ toSell \in [Run -> [Stock -> Nat]]
  /\ failed \in [Run -> BOOLEAN]
  /\ missed \in [Run -> SUBSET Order]
  /\ blind \subseteq Run

\* Shares that orders of a side still want to move, and what the broker lets be sold.
Open(side, s, orders) ==
  MapThenSumSet(LAMBDA o : rest[o], {o \in orders : order[o].side = side /\ order[o].stock = s})
Available(s) == holding[s] - selling[s] - Open("SELL", s, Order)

Init ==
  /\ order \in [Order -> [side : {"BUY", "SELL"}, stock : Stock]]
  /\ status \in [Order -> {"ABSENT", "PENDING", "SUBMITTED"}]
  /\ placing = [o \in Order |-> CASE status[o] = "ABSENT" -> "sending" [] status[o] = "PENDING" -> "new" [] OTHER -> "placed"]
  /\ rest = [o \in Order |-> IF status[o] = "SUBMITTED" THEN MaxShares ELSE 0]
  /\ holding \in [Stock -> 0..MaxShares]
  /\ selling = [s \in Stock |-> 0]
  /\ \A s \in Stock : Available(s) >= 0
  /\ stage = [r \in Run |-> "idle"]
  /\ todo = [r \in Run |-> {}] /\ numbers = [r \in Run |-> {}]
  /\ current = [r \in Run |-> NoOrder]
  /\ toSell = [r \in Run |-> [s \in Stock |-> 0]]
  /\ failed = [r \in Run |-> FALSE]
  /\ missed = [r \in Run |-> {}]
  /\ blind = {}

-----------------------------------------------------------------------------
\* TradesService.executeTrade on a PENDING row.  executeOrder places first and
\* creates the row afterwards: such an order is ABSENT and being sent.
Execute(o) ==
  /\ placing[o] = "new" /\ status[o] = "PENDING"
  /\ placing' = [placing EXCEPT ![o] = "sending"]
  /\ status' = [status EXCEPT ![o] = "SUBMITTED"]
  /\ UNCHANGED <<broker, calls, missed, blind>>

Accept(o) ==
  /\ placing[o] = "sending"
  /\ order[o].side = "SELL" => Available(order[o].stock) >= MaxShares
  /\ placing' = [placing EXCEPT ![o] = "sent"]
  /\ rest' = [rest EXCEPT ![o] = MaxShares]
  /\ missed' = [r \in Run |-> IF stage[r] = "idle" THEN missed[r] ELSE missed[r] \cup {o}]
  /\ UNCHANGED <<order, status, holding, selling, calls, blind>>

\* The order number gets into the row: executeTrade takes acceptance for a fill.
Record(o) ==
  /\ placing[o] = "sent"
  /\ placing' = [placing EXCEPT ![o] = "placed"]
  /\ status' = [status EXCEPT ![o] = IF @ = "ABSENT" THEN "SUBMITTED" ELSE "FILLED"]
  /\ UNCHANGED <<broker, calls, missed, blind>>

Fill(o) ==
  /\ rest[o] > 0
  /\ rest' = [rest EXCEPT ![o] = @ - 1]
  /\ holding' = [holding EXCEPT ![order[o].stock] = IF order[o].side = "BUY" THEN @ + 1 ELSE @ - 1]
  /\ UNCHANGED <<order, selling, status, placing, calls, missed, blind>>

SaleFills(s) ==
  /\ selling[s] > 0
  /\ selling' = [selling EXCEPT ![s] = @ - 1]
  /\ holding' = [holding EXCEPT ![s] = @ - 1]
  /\ UNCHANGED <<order, rest, status, placing, calls, missed, blind>>

\* updateTradeStatus writes what was filled at some time, whatever the row says.
Notice(o) ==
  /\ placing[o] = "placed"
  /\ \E k \in 0..(MaxShares - rest[o]) :
       status' = [status EXCEPT ![o] = IF k = MaxShares THEN "FILLED"
                                       ELSE IF k > 0 THEN "PARTIALLY_FILLED" ELSE "SUBMITTED"]
  /\ UNCHANGED <<broker, placing, calls, missed, blind>>

-----------------------------------------------------------------------------
Move(r, s) == stage' = [stage EXCEPT ![r] = s]

\* Mutated form: submitted orders are not looked for.
FindPendingOnly(r) ==
  /\ stage[r] = "idle"
  /\ Move(r, "cancelling")
  /\ todo' = [todo EXCEPT ![r] = {o \in Order : status[o] = "PENDING"}]
  /\ numbers' = [numbers EXCEPT ![r] = {o \in todo'[r] : placing[o] = "placed"}]
  /\ missed' = [missed EXCEPT ![r] = {o \in Order : rest[o] > 0 /\ (status[o] # "SUBMITTED" \/ placing[o] # "placed")}]
  /\ UNCHANGED <<broker, status, placing, current, toSell, failed, blind>>

\* The rows to cancel, with the order numbers they have.
FindPending(r) ==
  /\ stage[r] = "idle"
  /\ Move(r, "cancelling")
  /\ todo' = [todo EXCEPT ![r] = {o \in Order : status[o] \in {"PENDING", "SUBMITTED"}}]
  /\ numbers' = [numbers EXCEPT ![r] = {o \in todo'[r] : placing[o] = "placed"}]
  /\ missed' = [missed EXCEPT ![r] = {o \in Order : rest[o] > 0 /\ (status[o] # "SUBMITTED" \/ placing[o] # "placed")}]
  /\ UNCHANGED <<broker, status, placing, current, toSell, failed, blind>>

\* cancelOrder: done, refused in an answer nobody reads, or it throws and the next is taken.
Cancel(r, o) ==
  /\ stage[r] = "cancelling" /\ current[r] = NoOrder /\ o \in todo[r]
  /\ todo' = [todo EXCEPT ![r] = @ \ {o}]
  /\ \E gone \in BOOLEAN, throws \in BOOLEAN :
       /\ o \notin numbers[r] => ~gone /\ ~throws
       /\ rest' = [rest EXCEPT ![o] = IF gone THEN 0 ELSE @]
       /\ missed' = [missed EXCEPT ![r] = IF rest[o] > 0 /\ ~gone THEN @ \cup {o} ELSE @]
       /\ failed' = [failed EXCEPT ![r] = @ \/ throws]
       /\ current' = [current EXCEPT ![r] = IF throws THEN NoOrder ELSE o]
  /\ UNCHANGED <<order, holding, selling, status, placing, stage, numbers, toSell, blind>>

\* The row is updated by its id, whatever it has become.
RowCancelled(r) ==
  /\ current[r] # NoOrder
  /\ current' = [current EXCEPT ![r] = NoOrder]
  /\ \/ status' = [status EXCEPT ![current[r]] = "CANCELLED"] /\ UNCHANGED failed
     \/ failed' = [failed EXCEPT ![r] = TRUE] /\ UNCHANGED status
  /\ UNCHANGED <<broker, placing, stage, todo, numbers, toSell, missed, blind>>

\* Mutated form: it takes availableQuantity for quantity.
GetAvailable(r) ==
  /\ stage[r] = "cancelling" /\ current[r] = NoOrder /\ todo[r] = {}
  /\ toSell' = [toSell EXCEPT ![r] = [s \in Stock |-> Available(s)]]
  /\ Move(r, "selling")
  /\ UNCHANGED <<broker, status, placing, todo, numbers, current, failed, missed, blind>>

\* getHoldings: the account, an empty list when the broker refuses, or it throws.
GetHoldings(r) ==
  /\ stage[r] = "cancelling" /\ current[r] = NoOrder /\ todo[r] = {}
  /\ \/ toSell' = [toSell EXCEPT ![r] = holding] /\ Move(r, "selling") /\ UNCHANGED <<failed, blind>>
     \/ blind' = blind \cup {r} /\ Move(r, "selling") /\ UNCHANGED <<toSell, failed>>
     \/ failed' = [failed EXCEPT ![r] = TRUE] /\ Move(r, "done") /\ UNCHANGED <<toSell, blind>>
  /\ UNCHANGED <<broker, status, placing, todo, numbers, current, missed>>

\* placeOrder of all shares listed: accepted, refused, or it throws with or without an order.
Sell(r, s) ==
  /\ stage[r] = "selling" /\ toSell[r][s] > 0
  /\ toSell' = [toSell EXCEPT ![r][s] = 0]
  /\ \E accepted \in BOOLEAN, throws \in BOOLEAN :
       /\ accepted => toSell[r][s] <= Available(s)
       /\ selling' = [selling EXCEPT ![s] = IF accepted THEN @ + toSell[r][s] ELSE @]
       /\ failed' = [failed EXCEPT ![r] = @ \/ throws \/ ~accepted]
  /\ UNCHANGED <<order, rest, holding, status, placing, stage, todo, numbers, current, missed, blind>>

Finish(r) ==
  /\ stage[r] = "selling" /\ \A s \in Stock : toSell[r][s] = 0
  /\ Move(r, "done")
  /\ UNCHANGED <<broker, status, placing, todo, numbers, current, toSell, failed, missed, blind>>

Liquidate(r) ==
  \/ FindPending(r) \/ RowCancelled(r) \/ GetHoldings(r) \/ Finish(r)
  \/ \E o \in Order : Cancel(r, o)
  \/ \E s \in Stock : Sell(r, s)

Next ==
  \/ \E o \in Order : Execute(o) \/ Accept(o) \/ Record(o) \/ Fill(o) \/ Notice(o)
  \/ \E s \in Stock : SaleFills(s)
  \/ \E r \in Run : Liquidate(r)

Spec == Init /\ [][Next]_vars

-----------------------------------------------------------------------------
\* result.success of a call that could see the account.
Succeeded(r) == stage[r] = "done" /\ ~failed[r] /\ r \notin blind

\* A liquidation that reports success has left no order open but those it could
\* not see, of a row without a number or not SUBMITTED when it looked or placed since,
\* and those whose refused cancellation it did not read.
NothingLeftOpen ==
  \A r \in Run : Succeeded(r) => \A o \in Order : rest[o] > 0 => o \in missed[r]

\* The shares that the orders it missed have bought: <<o, n>> is the n-th share
\* of o that was still open, which it is no more.
Bought(r, s) ==
  {p \in missed[r] \X (1..MaxShares) :
     order[p[1]] = [side |-> "BUY", stock |-> s] /\ p[2] > rest[p[1]]}

\* Every share left in the account is in a sale, or was bought by one of those
\* orders: between the cancellations, the look at the account and the sales
\* there is no gap for a fill.
NothingLeftUnsold ==
  \A r \in Run, s \in Stock :
    Succeeded(r) => holding[s] <= selling[s] + Cardinality(Bought(r, s))
=============================================================================

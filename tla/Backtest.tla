------------------------------ MODULE Backtest ------------------------------
(***************************************************************************)
(* BacktestingService.runBacktest: one step for each stock of each day,    *)
(* and the close of what is left.  There is one position at a time, in any *)
(* of the stocks.  Prices are given in hundredths, money in                *)
(* ten-thousandths, so that slippage and commission are exact; the code's  *)
(* numbers are floating-point.                                             *)
(***************************************************************************)
EXTENDS Integers, Sequences, SequencesExt

CONSTANTS
  Stocks,                \* config.stockIds, in order
  Price,                 \* closes
  InitialCapital, FixedAmount, PercentPerTrade,
  Commission, Slippage,  \* percent
  StopLoss, TakeProfit,  \* percent, 0: not set
  Days                   \* bound

Limits ==
  /\ Stocks \in Seq(STRING) /\ \A p \in Price : p \in Nat \ {0}
  /\ InitialCapital \in Nat /\ FixedAmount \in Nat /\ PercentPerTrade \in Nat
  /\ Commission \in 0..100 /\ Slippage \in 0..100

\* The service checks neither: a percentage above 100 spends more than there is,
\* and so may an exit at a price that does not bring in the commissions.
Prudent ==
  /\ PercentPerTrade <= 100
  /\ \A bought, sold \in Price :
       bought * (100 + Slippage) * Commission <= sold * (100 - Slippage) * (100 - Commission)

NoPrice == 0
None    == [stock |-> 0, quantity |-> 0, entryPrice |-> 0]
Traded  == DOMAIN Stocks
Sizing  == {"FIXED", "PERCENT", "KELLY", "OTHER"}

VARIABLES
  sizing,
  enters,    \* the stocks whose indicators ask for an entry
  leaves,    \* the stocks whose RSI asks for an exit
  day, turn, \* the day, and the place of the stock in the list
  capital, position, trades,
  last,      \* stock -> its newest close
  done

vars == <<sizing, enters, leaves, day, turn, capital, position, trades, last, done>>

\* An indicator is read once for the whole period, so entries do not depend on the day.
Init ==
  /\ sizing \in Sizing /\ enters \in SUBSET Traded /\ leaves \in SUBSET Traded
  /\ day = 1 /\ turn = 1
  /\ capital = InitialCapital * 10000
  /\ position = None /\ trades = <<>>
  /\ last = [s \in Traded |-> NoPrice]
  /\ done = FALSE

-----------------------------------------------------------------------------
\* checkExitConditions: the loss and the gain are those without slippage.
ShouldExit(s, close, p) ==
  LET gain == 100 * (100 * close - p.entryPrice) IN
  \/ StopLoss > 0   /\ gain <= -StopLoss * p.entryPrice
  \/ TakeProfit > 0 /\ gain >= TakeProfit * p.entryPrice
  \/ s \in leaves

\* calculatePositionSize, Math.floor; price in hundredths.
PositionSize(money, price) ==
  CASE sizing = "FIXED"   -> (FixedAmount * 100) \div price
    [] sizing = "PERCENT" -> (money * PercentPerTrade) \div (100 * 100 * price)
    [] sizing = "KELLY"   -> money \div (4 * 100 * price)
    [] OTHER              -> money \div (10 * 100 * price)

Cost(p) == 100 * p.entryPrice * p.quantity

NetPnl(p, exitPrice) ==
  100 * (exitPrice - p.entryPrice) * p.quantity
    - (p.entryPrice + exitPrice) * p.quantity * Commission

ExitPrice(close)  == close * (100 - Slippage)

\* Mutated form: the quantity is found for the close without slippage.
EntryUnslipped(s, close, money) ==
  [stock |-> s, entryPrice |-> close * (100 + Slippage), quantity |-> PositionSize(money, close * 100)]

\* A position bought with the money there is; nothing is bought for less than one share.
Entry(s, close, money) ==
  LET price == close * (100 + Slippage) IN
  [stock |-> s, entryPrice |-> price, quantity |-> PositionSize(money, price)]

\* The position and the money after the exit and after the entry on one close.
AfterExit(s, close) ==
  IF position.stock = s /\ ShouldExit(s, close, position)
  THEN [position |-> None,
        money  |-> capital + Cost(position) + NetPnl(position, ExitPrice(close)),
        trades |-> Append(trades, [stock |-> s, pnl |-> NetPnl(position, ExitPrice(close)), signal |-> "EXIT"])]
  ELSE [position |-> position, money |-> capital, trades |-> trades]

AfterEntry(s, close, k) ==
  LET bought == Entry(s, close, k.money) IN
  IF k.position = None /\ s \in enters /\ bought.quantity > 0
  THEN [k EXCEPT !.position = bought, !.money = @ - Cost(bought)]
  ELSE k

NextTurn ==
  IF turn < Len(Stocks) THEN turn' = turn + 1 /\ day' = day ELSE turn' = 1 /\ day' = day + 1

\* No candle of this stock on this day.
NoCandle ==
  /\ day <= Days /\ NextTurn
  /\ UNCHANGED <<sizing, enters, leaves, capital, position, trades, last, done>>

Candle(close) ==
  LET k == AfterEntry(turn, close, AfterExit(turn, close)) IN
  /\ day <= Days /\ NextTurn
  /\ capital' = k.money /\ position' = k.position /\ trades' = k.trades
  /\ last' = [last EXCEPT ![turn] = close]
  /\ UNCHANGED <<sizing, enters, leaves, done>>

\* The last candle that was loaded: of the last stock that has one.
LastPrice ==
  LET quoted == {s \in Traded : last[s] # NoPrice}
  IN  last[CHOOSE s \in quoted : \A t \in quoted : t <= s]

\* What is left is closed at that price, without slippage or commission; the
\* capital stays.
CloseOpen ==
  /\ day > Days /\ ~done /\ done' = TRUE
  /\ trades' = IF position = None THEN trades
               ELSE Append(trades, [stock |-> position.stock, signal |-> "OPEN",
                                    pnl |-> 100 * (100 * LastPrice - position.entryPrice) * position.quantity])
  /\ UNCHANGED <<sizing, enters, leaves, day, turn, capital, position, last>>

Next == NoCandle \/ (\E close \in Price : Candle(close)) \/ CloseOpen

Spec == Init /\ [][Next]_vars

-----------------------------------------------------------------------------
\* What the trades have brought in; the close at the end of the run is only valued.
Results  == [n \in DOMAIN trades |-> IF trades[n].signal = "EXIT" THEN trades[n].pnl ELSE 0]
Realized == FoldLeft(LAMBDA a, q : a + q, 0, Results)

CashConserved  == capital + Cost(position) = InitialCapital * 10000 + Realized
NeverOverdrawn == sizing # "FIXED" /\ Prudent => capital >= 0

\* Over any sequence of exits and entries the money and the list of trades, from
\* which every figure of the result is made, tell the same: the capital and the
\* cost of what is held are the initial capital and the results of the closed
\* trades.  And a prudent run that sizes its positions by its capital never spends
\* more than it has, losses, slippage and commissions included; FIXED does not
\* look at the capital (backtesting.service.ts:431).
MoneyAddsUp == CashConserved /\ NeverOverdrawn

\* A position that is left open is valued at a price of its own stock.
OpenAtItsPrice ==
  done /\ position # None =>
    trades[Len(trades)].pnl = 100 * (100 * last[position.stock] - position.entryPrice) * position.quantity
=============================================================================

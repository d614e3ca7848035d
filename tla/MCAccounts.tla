----------------------------- MODULE MCAccounts -----------------------------
(***************************************************************************)
(* The two components that act on the broker's account as a whole, checked *)
(* in one run.  A behaviour is one of EmergencyLiquidation, either with    *)
(* every order and one call or with every call and one order that is ever  *)
(* placed, or one of PositionBook.  Variables that TradeLifecycle has too  *)
(* have names of their own, so that TradeProofs can speak of both.         *)
(***************************************************************************)
CONSTANTS
  Run, Order, Stock, MaxShares,
  FirstRun, FirstOrder,   \* the call and the order of the two cases
  Writer, Cron, BookStock, BookShares, MaxTrades, MaxCalls, MaxFaults

VARIABLES
  part,
  order, status, placing, rest, holding, selling,
  phase, todo, numbers, current, toSell, failed, missed, blind,
  account, position, step, kind, listed, known, read, rows, trades, started, faults, disturbed

liquidation == <<order, status, placing, rest, holding, selling,
                 phase, todo, numbers, current, toSell, failed, missed, blind>>
book        == <<account, position, step, kind, listed, known, read, rows, trades, started, faults, disturbed>>

Liquidation == INSTANCE EmergencyLiquidation WITH stage <- phase

Book == INSTANCE PositionBook WITH
          Stock <- BookStock, MaxShares <- BookShares,
          holding <- account, stage <- step, seen <- known, todo <- rows

ASSUME LiquidationAssumption == Liquidation!Limits
ASSUME BookAssumption        == Book!Limits

\* The part that does not run rests in one of its initial states.
LiquidationRests ==
  /\ \A o \in Order : status[o] = "PENDING" /\ order[o].side = "BUY"
  /\ \A s \in Stock : holding[s] = 0
BookRests == \A s \in BookStock : account[s] = 0

MCInit ==
  /\ part \in {"orders", "calls", "book"}
  /\ Liquidation!Init /\ Book!Init
  /\ IF part = "book" THEN LiquidationRests ELSE BookRests

MCNext ==
  /\ UNCHANGED part
  /\ \/ /\ part = "orders" /\ Liquidation!Next /\ UNCHANGED book
        /\ \A r \in Run : r # FirstRun => phase'[r] = "idle"
     \/ /\ part = "calls" /\ Liquidation!Next /\ UNCHANGED book
        /\ \A o \in Order : o # FirstOrder => placing'[o] = "new"
     \/ part = "book" /\ Book!Next /\ UNCHANGED liquidation

allVars == <<part, liquidation, book>>
Apart   == part = "book" /\ UNCHANGED <<part, liquidation>>

MCSpec ==
  /\ MCInit /\ [][MCNext]_allVars
  /\ \A w \in Writer : WF_book(Apart /\ Book!GoesOn(w))
  /\ WF_book(Apart /\ Book!Start(Cron, "kis"))

-----------------------------------------------------------------------------
\* The properties of the parts.
NothingLeftOpen   == Liquidation!NothingLeftOpen
NothingLeftUnsold == Liquidation!NothingLeftUnsold
SyncIsExact       == Book!SyncIsExact
Converges         == part = "book" => Book!Converges
=============================================================================

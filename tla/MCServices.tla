----------------------------- MODULE MCServices -----------------------------
(***************************************************************************)
(* The services around the trading core, checked in one run.  They share   *)
(* no state, so a behaviour is one of a single part while the others rest  *)
(* in an initial state: a plan of slices, the rows of a collection of      *)
(* company data, the collection itself, the live prices of a symbol, the   *)
(* broker's token, the market calendar, or a backtest.                     *)
(***************************************************************************)
EXTENDS MarketCalendar, TLC

CONSTANTS
  Totals, Parts, Rates,
  Name, Date, NoDate, Year, Code,
  Caller, Stock, OneStock, Periodic, AskedOnce, Uncounted, Reports, Window, LIMIT, DAY,
  MaxNow, MaxPublished, DataFaults,
  TickPrice, SPIKE_THRESHOLD, MINUTE, HISTORY, MaxTicks, MaxTickTime,
  Owner, LIFE, MARGIN, MAX_RETRIES, MaxLatency, MaxUse, MaxTokenTime, TokenFaults,
  Stocks, Close, InitialCapital, FixedAmount, PercentPerTrade, Commission, Slippage,
  StopLoss, TakeProfit, Days

VARIABLES
  part,
  method, total, parts, planTurn, left, plan, planned,
  table, list, report, amended, amendedReport,
  published, stored, collectedAt, now, call, attempts, dataFaults,
  ticks, cachedPrice, current, handler, previous, announced, history, compared, dropped, tickClock,
  accessToken, expiresAt, tokenClock, request, owner, retry, since, held, tokenFaults,
  sizing, enters, leaves, testDay, testTurn, capital, position, trades, last, tested

slices  == <<method, total, parts, planTurn, left, plan, planned>>
rows    == <<table, list, report, amended, amendedReport>>
company == <<published, stored, collectedAt, now, call, attempts, dataFaults>>
prices  == <<ticks, cachedPrice, current, handler, previous, announced, history, compared, dropped, tickClock>>
token   == <<accessToken, expiresAt, tokenClock, request, owner, retry, since, held, tokenFaults>>
test    == <<sizing, enters, leaves, testDay, testTurn, capital, position, trades, last, tested>>

Plan     == INSTANCE SlicePlan WITH turn <- planTurn, done <- planned
Rows     == INSTANCE CompanyRows
Company  == INSTANCE CompanyData WITH MaxTime <- MaxNow, MaxFaults <- DataFaults, faults <- dataFaults
Single   == INSTANCE CompanyData WITH   \* one stock, of which more is published
              Stock <- OneStock, MaxPublished <- Reports,
              MaxTime <- MaxNow, MaxFaults <- DataFaults, faults <- dataFaults
Prices   == INSTANCE PriceTicks WITH
              Price <- TickPrice, WINDOW <- HISTORY, MaxTime <- MaxTickTime,
              cached <- cachedPrice, stage <- handler, clock <- tickClock
Tokens   == INSTANCE KisToken WITH
              MaxTime <- MaxTokenTime, MaxFaults <- TokenFaults,
              clock <- tokenClock, stage <- request, faults <- tokenFaults
Test     == INSTANCE Backtest WITH
              Price <- Close, day <- testDay, turn <- testTurn, done <- tested

ASSUME PlanAssumption  == Plan!Limits
ASSUME TokenAssumption == Tokens!Limits
ASSUME DataAssumption  == Company!Limits
ASSUME TestAssumption  == Test!Limits

\* A part that does not run rests in one of its initial states.
PlanRests == /\ method = "SPLIT" /\ total = 1 /\ parts = 1 /\ left = 1
             /\ planTurn = 0 /\ plan = <<>> /\ planned = FALSE
RowsRest  == /\ table = "employees" /\ list = <<>> /\ amended = <<>>
             /\ report = (CHOOSE r \in Rows!Report : TRUE) /\ amendedReport = report
TokenRests    == owner = [c \in Caller |-> CHOOSE o \in Owner : TRUE]
CalendarRests == day = 2 /\ minute = At(14, 50) /\ active = TRUE   \* every market is open
TestRests     == sizing = "OTHER" /\ enters = {} /\ leaves = {}

Runs(p, init, rests) == (IF part = p THEN TRUE ELSE rests) /\ init

MCInit ==
  /\ part \in {"plan", "rows", "company", "single", "prices", "token", "calendar", "test"}
  /\ IF part = "plan" THEN Plan!Init ELSE PlanRests
  /\ IF part = "single" THEN Single!Init ELSE Company!Init
  /\ Prices!Init
  /\ Runs("token", Tokens!Init, TokenRests)
  /\ Runs("calendar", Init, CalendarRests)
  /\ Runs("test", Test!Init, TestRests)
  /\ IF part = "rows" THEN Rows!Init ELSE RowsRest

MCNext ==
  /\ UNCHANGED <<part, rows>>
  /\ \/ part = "plan"     /\ Plan!Next     /\ UNCHANGED <<vars, company, prices, token, test>>
     \/ part = "company"  /\ Company!Next  /\ UNCHANGED <<vars, slices, prices, token, test>>
     \/ part = "single"   /\ Single!Next   /\ UNCHANGED <<vars, slices, prices, token, test>>
     \/ part = "prices"   /\ Prices!Next   /\ UNCHANGED <<vars, slices, company, token, test>>
     \/ part = "token"    /\ Tokens!Next   /\ UNCHANGED <<vars, slices, company, prices, test>>
     \/ part = "calendar" /\ Next          /\ UNCHANGED <<slices, company, prices, token, test>>
     \/ part = "test"     /\ Test!Next     /\ UNCHANGED <<vars, slices, company, prices, token>>

MCSpec == MCInit /\ [][MCNext]_<<part, vars, slices, rows, company, prices, token, test>>

SmallTotals == 1..12
SmallParts  == 1..6
TwoStocks   == <<"A", "B">>
Symmetry    == Permutations(Caller) \cup Permutations(Stock)

-----------------------------------------------------------------------------
\* The properties of the parts.
PlanIsWhole            == part = "plan" => Plan!PlanIsWhole
RecollectionAddsNoRow  == part = "rows" => Rows!RecollectionAddsNoRow
FirstReportStored      == part \in {"company", "single"} => Company!FirstReportStored
OncePerDay             == part = "company" => Company!OncePerDay
EveryJumpIsAnnounced   == part = "prices" => Prices!EveryJumpIsAnnounced
UsedTokenIsLive        == part = "token" => Tokens!UsedTokenIsLive
MoneyAddsUp            == part = "test" => Test!MoneyAddsUp
=============================================================================

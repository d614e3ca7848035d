SPECIFICATION MCSpec
CONSTANTS
  Totals <- SmallTotals
  Parts <- SmallParts
  Rates = {5, 80, 250}
  Name = {n, m}
  Date = {d1}
  NoDate = NoDate
  Year = {2023, 2024}
  Code = {"11011", "11014"}
  Caller = {c, d}
  Stock = {x, y}
  OneStock = {z}
  Periodic = {executives}
  AskedOnce = {}
  Uncounted = {}
  Reports = 2
  Window = 2
  LIMIT = 2
  DAY = 0
  MaxNow = 1
  MaxPublished = 1
  DataFaults = 1
  TickPrice = {100, 103}
  SPIKE_THRESHOLD = 3
  MINUTE = 1
  HISTORY = 2
  MaxTicks = 3
  MaxTickTime = 2
  Owner = {env, u}
  LIFE = 5
  MARGIN = 2
  MAX_RETRIES = 3
  MaxLatency = 1
  MaxUse = 1
  MaxTokenTime = 9
  TokenFaults = 3
  FirstDay = 1
  LastDay = 365
  MaxOutages = 1
  Stocks <- TwoStocks
  Close = {8, 10, 12}
  InitialCapital = 100
  FixedAmount = 60
  PercentPerTrade = 100
  Commission = 1
  Slippage = 2
  StopLoss = 10
  TakeProfit = 15
  Days = 3
SYMMETRY Symmetry
INVARIANTS
  PlanIsWhole
  RecollectionAddsNoRow
  FirstReportStored
  OncePerDay
  
  UsedTokenIsLive
  SessionsFollowCalendar
  NextOpenIsNext
  MoneyAddsUp
CHECK_DEADLOCK FALSE

SPECIFICATION MCSpec
CONSTANTS
  Run = {r1, r2}
  FirstRun = r1
  Order = {o1, o2}
  FirstOrder = o1
  Stock = {x}
  MaxShares = 2
  Writer = {cron, u}
  Cron = cron
  BookStock = {x, y}
  BookShares = 1
  MaxTrades = 1
  MaxCalls = 1
  MaxFaults = 2
INVARIANTS
  NothingLeftOpen
  NothingLeftUnsold
PROPERTIES
  SyncIsExact
  Converges
CHECK_DEADLOCK FALSE

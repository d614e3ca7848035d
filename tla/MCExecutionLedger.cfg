SPECIFICATION FairSpec
CONSTANTS
  b1 = b1
  s1 = s1
  Buys = {b1}
  Sells = {s1}
  Size <- OrderSize
  SaidComplete = {s1}
  MaxRowId = 3
  MaxTroubles = 1
INVARIANTS
  TradeFollowsBroker
  PositionExact
PROPERTIES
  SyncRepairs
CHECK_DEADLOCK FALSE

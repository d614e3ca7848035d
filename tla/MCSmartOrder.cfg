SPECIFICATION FairSpec
CONSTANTS
  Sliced = {t1}
  Icebergs = {i1}
  BestLimits = {b1}
  Aggressives = {a1}
  Slices = 4
  MayCoincide = FALSE
  SameNumbers = TRUE
  MaxRequests = 1
  MaxTroubles = 2
INVARIANTS
  NeverOverOrders
  CompletedIsPlaced
PROPERTIES
  SmartOrdersEnd
CHECK_DEADLOCK FALSE

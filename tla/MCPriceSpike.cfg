SPECIFICATION Spec
CONSTANTS
  Price = {100, 102, 106}
  SPIKE_THRESHOLD = 3
  MINUTE = 1
  WINDOW = 3
  MaxTicks = 3
  MaxTime = 3
INVARIANTS
  ComparedWithAMinuteAgo
CHECK_DEADLOCK FALSE

SPECIFICATION Spec
CONSTANTS
  userId = u
  Order = {o1, o2, o3, o4, o5}
  MaxConcurrent = 3
  MaxDailyTrades = 2
  FAILURE_THRESHOLD = 2
  RECOVERY_TIMEOUT = 1
  HALF_OPEN_SUCCESS_THRESHOLD = 2
SYMMETRY Interchangeable
INVARIANTS
  DailyOvershootBounded
PROPERTIES
  OpenLeaksOnlyOvertaken
  OpenClosesOnlyByHand
CHECK_DEADLOCK FALSE

SPECIFICATION Spec
CONSTANTS
  Call = {c1, c2}
  MAX_RETRIES = 3
  MaxOrders = 1
  MaxJobs = 1
PROPERTIES
  FilledIsNotCancelled
CHECK_DEADLOCK FALSE

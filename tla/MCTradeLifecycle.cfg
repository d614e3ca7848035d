SPECIFICATION Spec
CONSTANTS
  Call = {c1, c2}
  MAX_RETRIES = 2
  MaxOrders = 2
  MaxJobs = 1
SYMMETRY Interchangeable
VIEW WhatCounts
INVARIANTS
  RetryBudget
  SubmittedIsUnderWay
  SerialUseIsSafe
CHECK_DEADLOCK FALSE

SPECIFICATION LockSpec
CONSTANTS
  Request = {r1, r2}
  Token = {t1, t2}
  LOCK_TTL = 3
  MAX_LOCK_RETRIES = 2
  DUPLICATE_WINDOW = 2
INVARIANTS
  MutualExclusion
  NoDuplicateTrade
PROPERTIES
  LockIsFreed

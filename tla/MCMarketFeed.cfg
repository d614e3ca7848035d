SPECIFICATION FairSpec
CONSTANTS
  Sock = {s1, s2, s3}
  NoSocket = NoSocket
  Key = {k}
  Client = {a, b}
  Trader = {t}
  MAX_RECONNECT_ATTEMPTS = 2
  Commands = 2
INVARIANTS
  SingleFeed
  SubscriptionsRestored
  GivesUpOnlyAtLimit
  ListenersAreSubscribed
PROPERTY
  ComesBack
CHECK_DEADLOCK FALSE

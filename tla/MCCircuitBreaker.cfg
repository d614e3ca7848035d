SPECIFICATION FairSpec
CONSTANTS
  User = {alice, bob}
  FAILURE_THRESHOLD = 3
  RECOVERY_TIMEOUT = 2
  HALF_OPEN_SUCCESS_THRESHOLD = 2
INVARIANTS
  ClosedBelowThreshold
  TripTimeKnownUnlessClosed
  ProbationEarned
PROPERTIES
  ImplementsGate
  OpenRecoversUnlessRetripped

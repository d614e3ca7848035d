SPECIFICATION Spec
CONSTANTS
  Call = {c1, c2}
  Strategy = {s1, s2}
  NoConfig = NoConfig
  MaxRows = 3
SYMMETRY Interchangeable
INVARIANTS
  TimersBelongToSession
  MemoryMatchesRows

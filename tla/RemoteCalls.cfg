SPECIFICATION FairSpec
CONSTANTS
  Call = {c1, c2}
  Limit = 1
  MaxAttempts = 3
  Timeout = 3
  Delay = {0, 2}
  MaxGeneration = 2
  None = None
  Absent = Absent
INVARIANTS
  LeaseIsOwned
  OneQueue
  NoLostWakeup
  DelayIsKept
  WithinLimit
PROPERTIES
  EveryCallReturns

SPECIFICATION FairSpec
CONSTANTS
  NumSeeds = 2
  Request = {r1}
  Later = {}
  Asks = {}
  Operation = {"elsewhere"}
  MaxOutside = 1
  MaxCrash = 0
  MaxRevision = 2
  MaxLineage = 1
  MaxArc = 2
CHECK_DEADLOCK FALSE
PROPERTY RetryLocks

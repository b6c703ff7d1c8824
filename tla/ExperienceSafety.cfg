SPECIFICATION FairSpec
CONSTANTS
  NumSeeds = 2
  Request = {r1, r2}
  Later = {r2}
  Asks = {r1}
  Operation = {"elsewhere", "review", "propose", "lock", "supersede", "retire_contract", "advance", "retire_seed", "retire_arc"}
  MaxOutside = 1
  MaxCrash = 1
  MaxRevision = 2
  MaxLineage = 2
  MaxArc = 4
CHECK_DEADLOCK FALSE
INVARIANTS
  SeedHoldsItsContract
  OneRevisionPerSource
  BindingRevisionSuffices
  TokenIsWhole
PROPERTIES
  ResumesAlone

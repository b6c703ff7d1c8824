SPECIFICATION Spec
CONSTANTS
  Worker = {w1}
  NumFiles = 2
  Creates = {2}
  Replaces = {1}
  None = None
  Dead = Dead
CHECK_DEADLOCK FALSE
INVARIANT FailedIsRolledBack

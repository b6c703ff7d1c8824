SPECIFICATION Spec
CONSTANTS
  Worker = {w1, w2}
  NumFiles = 2
  Creates = {2}
  Replaces = {1}
  None = None
  Dead = Dead
SYMMETRY WorkerSymmetry
CHECK_DEADLOCK FALSE
INVARIANTS
  OneActivator
  OldBytesKept
  CompletedTogether
PROPERTIES
  NothingForeignLost
  ReportIsTrue

SPECIFICATION Spec
CONSTANTS
  Artifact = {a1}
  Grant = {g1, g2, g3, g4}
  Stage = {"final", "draft"}
  Named = {0}
  MaxRevision = 3
  MaxHead = 4
  MaxOpen = 2
  ExplicitLinks = TRUE
  FreeRevision = TRUE
  None = None
CHECK_DEADLOCK FALSE
SYMMETRY CanonSymmetry
INVARIANTS
  NoLostDecision
  ReplayNeverRefuses
  ReplayDeactivatesExactly
  RetractUndoesAccept
PROPERTIES
  AcceptReplacesCounted
  CanonRefinement

SPECIFICATION Spec
CONSTANTS
  Artifact = {a1}
  Grant = {g1, g2, g3}
  Stage = {"final"}
  Named = {}
  MaxRevision = 3
  MaxHead = 3
  MaxOpen = 1
  ExplicitLinks = TRUE
  FreeRevision = FALSE
  None = None
CHECK_DEADLOCK FALSE
SYMMETRY CanonSymmetry
PROPERTIES
  AcceptSupersedesOlder

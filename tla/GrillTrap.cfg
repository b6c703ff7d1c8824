SPECIFICATION Spec
CHECK_DEADLOCK FALSE
CONSTANTS
  Hook = {h1, h2}
  Turn = {t1, t2, t3}
  Session = {s1, s2}
  MaxQuestions = 2
  None = None
SYMMETRY GrillSymmetry
INVARIANT WaitsForAnswer

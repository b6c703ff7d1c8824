SPECIFICATION FairSpec
CONSTANTS
  Turn = {t1}
  Text = {x1}
  Worker = {w1, w2}
  Proposal = {p1, p2}
  Content = {c1, c2}
  Quarantined = {c2}
  AuthorityTurn = {t1}
  LifecycleBound = TRUE
  MaxEpoch = 3
  MaxCanon = 2
  None = None
CHECK_DEADLOCK FALSE
INVARIANTS
  OneProposalPerJob
  CanonOnlyFromFinalized
  TextSurvives
PROPERTIES
  FencedCompletion
  OutcomeRefinement
  EveryJobSettles

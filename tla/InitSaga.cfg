SPECIFICATION FairSpec
CONSTANTS
  Session = {s1}
  Caller = {c1, c2}
  Choice <- GenreOpen
  Asked <- TwoAsked
  Power = {s1}
  MaxRevision = 4
  MaxCanon = 3
  None = None
CHECK_DEADLOCK FALSE
INVARIANTS
  NoStaleAnswer
  OneInForce
  ReadyIsComplete
PROPERTY ApplyRecovers

SPECIFICATION FairSpec
CONSTANTS
  Caller = {c1, c2}
  r1 = r1
  r2 = r2
  q1 = q1
  q2 = q2
  Request = {r1, r2}
  Query = {q1, q2}
  QueryOf <- MCQueryOf
  Batch = {{r1, r2}}
  MaxVersion = 1
  Unembedded = {0}
  None = None
INVARIANTS
  EveryFlightIsLed
  EmbeddedOnce
  CandidatesMatchTheirKey
PROPERTIES
  NeverOlder
  EverySearchEnds

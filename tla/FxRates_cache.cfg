SPECIFICATION FairSpec
CONSTANTS
  there = there
  back = back
  c1 = c1
  c2 = c2
  None = None
  Pairs = {there, back}
  Opposite <- BothWays
  Callers = {c1, c2}
  Slots = 1
  TTL = 2
INVARIANTS
  TypeOK
  FetchesSpaced
  StaleIsFlagged
PROPERTIES
  NeverSuppressed
  RateRecovers

SPECIFICATION PollFairSpec
CONSTANTS
  a1 = a1
  a2 = a2
  c1 = c1
  c2 = c2
  NoListing = NoListing
  NoConid = NoConid
  Registry <- TwoUsers
  Answering <- Second
  Contracts = {c1, c2}
  MaxTrades = 3
  MaxLogins = 2
INVARIANTS
  PollTypeOK
  BurstIsTimed
PROPERTIES
  PositionsShown
CHECK_DEADLOCK FALSE

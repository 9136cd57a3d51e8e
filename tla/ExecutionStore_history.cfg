SPECIFICATION FairSpec
CONSTANTS
  p1 = p1
  b1 = b1
  b2 = b2
  MaxFill = 3
  Options = {1, 2}
  KeyOf <- DistinctKeys
  Pollers = {p1}
  Rebuilders = {b1, b2}
  Feeds = {"flex", "csv"}
INVARIANTS
  TypeOK
PROPERTIES
  HistoryOnlyGrows
  DuplicatesGone

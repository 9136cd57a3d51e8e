SPECIFICATION FairSpec
CONSTANTS
  Job = job
  h1 = h1
  MaxFill = 2
  Options = {1, 2}
  KeyOf <- DistinctKeys
  PositionOf <- OwnPositions
  PollFills = {1}
  Editors = {h1}
  MaxEdits = 2
INVARIANTS
  RebuildSound
PROPERTIES
  Converges

SPECIFICATION FeedFairSpec
CONSTANTS
  t1 = t1
  t2 = t2
  Tabs = {t1, t2}
  Loading = {t1}
  MaxChanges = 2
  MaxSockets <- SocketsOfTabs
INVARIANTS
  FeedTypeOK
  QuietMeansCurrent
PROPERTIES
  ViewConverges
CHECK_DEADLOCK FALSE

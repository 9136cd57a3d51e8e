SPECIFICATION FairSpec
CONSTANTS
  c1 = c1
  Monitor = monitor
  Clients = {c1}
  StaleViews = FALSE
  Faults = FALSE
INVARIANTS
  BusyMeansWorking
PROPERTIES
  StrayReleased
  LateApprovalAdopted

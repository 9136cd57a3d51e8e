SPECIFICATION Spec
CONSTANTS
  c1 = c1
  Monitor = monitor
  Clients = {c1}
  StaleViews = FALSE
  Faults = TRUE
INVARIANTS
  BusyMeansWorking

SPECIFICATION Spec
CONSTANTS
  c1 = c1
  c2 = c2
  Monitor = monitor
  Clients = {c1, c2}
  StaleViews = TRUE
  Faults = TRUE
SYMMETRY Symmetry
INVARIANTS
  TypeOK
  AuthenticatedIsConsistent
  ApprovedLoginNotReleased
  LogoutNotReadopted

SPECIFICATION Spec
CONSTANTS
  Sessions = {s1, s2, s3}
  Cgroups = {c1, c2}
  Tenants = {t1, t2}
  Windows = {0, 1}
  MaxSessions = 2
  MaxPending = 2
  MaxTime = 1
SYMMETRY NamesSymmetry
INVARIANTS
  AttributionJustified
  PendingCountExact
PROPERTIES
  NoOwnershipTransfer
  ForgottenInOrder

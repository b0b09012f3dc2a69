SPECIFICATION Spec
CONSTANTS
  a1 = a1
  a2 = a2
  k1 = k1
  k2 = k2
  Adapters <- TwoAdapters
  Clients <- TwoClients
  MaxConnections = 2
  ScopeCapacity = 2
  Serve = serve
  Observer = observer
  Writer = writer
  NoTask = nobody
SYMMETRY MCSymmetry
INVARIANTS NoLockLeaked OneReplyOwed
CHECK_DEADLOCK FALSE

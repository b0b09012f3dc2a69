SPECIFICATION FairSpec
CONSTANTS
  a1 = a1
  a2 = a2
  k1 = k1
  k2 = k2
  Adapters <- OneAdapter
  Clients <- OneClient
  MaxConnections = 2
  ScopeCapacity = 2
  Serve = serve
  Observer = observer
  Writer = writer
  NoTask = nobody
PROPERTIES RequestsEnd ShutdownCompletes
CHECK_DEADLOCK FALSE

SPECIFICATION FairSpec
CONSTANTS
  p1 = p1
  p2 = p2
  p3 = p3
  Pids <- MCPids
  Root = p1
  Init1 = init
  Modes <- MCModes
  MapCapacity = 2
  RingCapacity = 1
  MaxActivity = 3
INVARIANTS AgentTreeObserved EntriesAreTheAgents GateHolds LossAnnounced
PROPERTIES ObservationEnds
CHECK_DEADLOCK FALSE

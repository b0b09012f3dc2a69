SPECIFICATION FairSpec
CONSTANTS
  Producers = {p1, p2}
  Capacity = 2
  UsedPriorities = {1, 4}
  MaxRecords = 2
  NoRecord = NoRecord
  NoProducer = NoProducer
CHECK_DEADLOCK FALSE
INVARIANTS
  CleanStopIsFinal
  AcceptedConserved
  NoLostWakeup
PROPERTIES
  ShutdownEnds
  QueuedIsServed

SPECIFICATION TimelineSpec
CONSTANTS
  Policies <- MCPolicies
  Events <- MCEvents
  MaxFileBytes = 3
  MaxArchivedFiles = 2
  SizeOf <- MCSizeOf
  MaxEvents = 3
  MaxSessions = 2
\* The last observer has ended or was stopped.
CHECK_DEADLOCK FALSE
INVARIANT TimelineHasNoGap
INVARIANT FeedbackIsLatest
INVARIANT ViolationsAreKept

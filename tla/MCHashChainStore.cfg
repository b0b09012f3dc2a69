SPECIFICATION Spec
CONSTANTS
  small = small
  large = large
  Payloads <- MCPayloads
  LargePayloads <- MCLargePayloads
  Finding = finding
  NoPayload = none
  MaxRecords = 4
  MaxCrashes = 2
  MaxCorruptions = 1
INVARIANTS ChainContinues AckedIsRecoverable CutTailsAreKept
PROPERTIES ImplementsLog MiddleCorruptionFailsClosed
CHECK_DEADLOCK FALSE

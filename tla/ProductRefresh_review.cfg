SPECIFICATION FairSpec
CONSTANTS
  None = None
  Blank = Blank
  Recurring = TRUE
  MaxAttempts = 2
  MaxRevisions = 2
  MaxFaults = 2
  MaxReadFaults = 1
  ManualRefresh = TRUE
INVARIANTS
  TypeOK
  OnePublication
  NeverIdle

PROPERTIES
  CheckedViewPublished
  PendingResolves
CHECK_DEADLOCK FALSE

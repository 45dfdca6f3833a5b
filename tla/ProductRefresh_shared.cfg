SPECIFICATION Spec
CONSTANTS
  None = None
  Blank = Blank
  Recurring = FALSE
  MaxAttempts = 1
  MaxRevisions = 1
  MaxFaults = 0
  MaxReadFaults = 0
  ManualRefresh = TRUE
PROPERTY CommittedIsShown
CHECK_DEADLOCK FALSE

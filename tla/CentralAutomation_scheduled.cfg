SPECIFICATION FairSpec
CONSTANTS
  None = None
  Free = Free
  Dead = Dead
  Owner = Owner
  Scheduler = {s1}
  Manual = {m1}
  MaxConsecutiveFailures = 3
  MaxRuns = 2
  MaxManuals = 1
  MaxCrashes = 1
  MaxFaults = 1
  MaxRollbacks = 1
INVARIANTS
  TypeOK
  NoRunWhileSuspended
  FailuresTrip
  ShownRunIsReal
PROPERTIES
  SuspensionSticks
  PointersForward
  DueRuns

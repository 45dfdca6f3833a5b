SPECIFICATION Spec
CONSTANTS
  None = None
  Free = Free
  Dead = Dead
  Owner = Owner
  Scheduler = {s1}
  Manual = {m1}
  MaxConsecutiveFailures = 3
  MaxRuns = 2
  MaxManuals = 1
  MaxCrashes = 0
  MaxFaults = 0
  MaxRollbacks = 0
PROPERTY
  OnlyOwnerResumes

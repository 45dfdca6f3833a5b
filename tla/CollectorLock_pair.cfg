SPECIFICATION FairSpec
CONSTANTS
  None = None
  Run = {r0, r1, r2}
  Leftover = {r0}
  Attempts = 8
  MaxCrashes = 1
  MaxStalls = 1
  MaxFaults = 1
CHECK_DEADLOCK FALSE
INVARIANTS
  TypeOK
  ExclusionKept
  LateHeartbeats
PROPERTIES
  RunsEnd
  RecoveryLeadsToHolder
  ImplementsLock

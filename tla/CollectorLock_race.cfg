SPECIFICATION Spec
CONSTANTS
  None = None
  Run = {r0, r1, r2, r3}
  Leftover = {r0}
  Attempts = 8
  MaxCrashes = 0
  MaxStalls = 0
  MaxFaults = 0
CHECK_DEADLOCK FALSE
INVARIANT
  SingleHolder

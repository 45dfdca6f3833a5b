SPECIFICATION FairSpec
CONSTANTS
  Checkpoints = 2
  Absent = Absent
  Token = {1}
  Disabled = {}
  MaxOps = 2
  MaxOwnerActs = 3
  MaxFaults = 0
PROPERTY
  MaturingEnds

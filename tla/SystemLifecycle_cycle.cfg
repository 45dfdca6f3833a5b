SPECIFICATION CycleSpec
CONSTANTS
  Checkpoints = 1
  Absent = Absent
  Token = {1, 2}
  Disabled = {2}
  MaxOps = 2
  MaxOwnerActs = 1
  MaxFaults = 2
INVARIANTS
  TypeOK
  InboxFollows
  AuditMatches
PROPERTY
  AdditionsGetTold

SPECIFICATION Spec
CONSTANTS
  Owner = {o1, o2, o3}
  Groups = 3
  Sqlite = {2}
  Kept = Kept
  None = None
  Same = {o1}
  Left = Left
  MaxEdits = 1
  MaxFaults = 1
SYMMETRY Calls
INVARIANTS
  TypeOK
  OneOperation
  FailClosed
PROPERTIES
  SucceedsWhole
CHECK_DEADLOCK FALSE

CONSTANTS
  Call = {c1, c2}
  Leaver = {}
  ID = {a}
  Cap = 1
  NONE = NONE
SPECIFICATION ServerSpec
SYMMETRY CallSymmetry
INVARIANTS ServerTypeOK CreatedFirst CreateNeverPanics
PROPERTIES MapStableInRange
CHECK_DEADLOCK FALSE

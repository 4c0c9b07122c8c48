CONSTANTS
  Thread = {t1, t2}
  ID = {a}
  Stream = {s1, s2}
  MaxConn = 1
  NONE = NONE
SPECIFICATION Spec
SYMMETRY StreamSymmetry
INVARIANTS OneLiveStreamPerID LiveIsMapped CloseStreamNeverPanics
PROPERTY EntryLeavesWithItsStream
CHECK_DEADLOCK FALSE

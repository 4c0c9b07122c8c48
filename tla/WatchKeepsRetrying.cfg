CONSTANTS
  Thread = {t1}
  ID = {a}
  Stream = {s1}
  MaxConn = 2
  NONE = NONE
SPECIFICATION Spec
INVARIANT WatchKeepsRetrying
CHECK_DEADLOCK FALSE

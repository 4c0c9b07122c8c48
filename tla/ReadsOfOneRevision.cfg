CONSTANTS
  Txn = {c1}
  Key = {a, b}
  Old = {a}
  MaxRev = 2
  NONE = NONE
SPECIFICATION Spec
INVARIANT ReadsOfOneRevision
CHECK_DEADLOCK FALSE

CONSTANTS
  Txn = {c1}
  Key = {a, b}
  Old = {a}
  MaxRev = 3
  NONE = NONE
SPECIFICATION FairSpec
INVARIANTS STMTypeOK RepeatableRead OneSnapshot
PROPERTIES CommitReadsCurrent NewerIsKept RetriesEnd
CHECK_DEADLOCK FALSE

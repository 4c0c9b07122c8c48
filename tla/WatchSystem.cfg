CONSTANTS
  Thread = {t1}
  ID = {a}
  Stream = {s1}
  MaxConn = 2
  Cap = 1
  MaxLost = 1
  NONE = NONE
SPECIFICATION FairSystemSpec
PROPERTIES FeedSpec CanceledIsLast FirstResponse
CHECK_DEADLOCK FALSE

CONSTANTS
  Thread = {t1, t2}
  ID = {a}
  Stream = {s1}
  MaxConn = 3
  NONE = NONE
SPECIFICATION FairSpec
INVARIANTS TypeOK OnlyCurrentConnServes SubscribedWhileReading
PROPERTIES Reconnects ServeGoroutinesEnd CloseStreamReturns
CHECK_DEADLOCK FALSE

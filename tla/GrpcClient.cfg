CONSTANTS
  Addr = {a1, a2}
  SubConn = {c1, c2, c3}
  Modulus = 4
  MaxReport = 1
  MaxPick = 2
  NONE = NONE
SPECIFICATION FairSpec
INVARIANTS ClientTypeOK CountersExact PickerIsCurrent ReadyMeansPickable NoStraySubConn RoundRobin OnlyListed
PROPERTIES IdleConnects UnlistedLeaves
CHECK_DEADLOCK FALSE

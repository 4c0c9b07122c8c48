CONSTANTS
  Client = {c1, c2}
  MaxLease = 3
  MaxRev = 4
  NONE = NONE

SPECIFICATION MCSpec

INVARIANTS
  ContentionTypeOK
  OwnerIsOldest
PROPERTIES
  OnlyTheLeaderProclaims
  ObservedInOrder
  WaitsEnd
  ObserverCatchesUp

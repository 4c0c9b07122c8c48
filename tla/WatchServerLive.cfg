CONSTANTS
  Call = {c1, c2}
  Leaver = {c1}
  ID = {a}
  Cap = 1
  NONE = NONE
SPECIFICATION MCServerSpec
PROPERTIES  HandlerEnds
CHECK_DEADLOCK FALSE

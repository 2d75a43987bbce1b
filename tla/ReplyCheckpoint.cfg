SPECIFICATION Spec
CONSTANTS
  LastTurn = 2
  Words <- TwoThenOne
  Cap = 1
  LongPrefix = 2
  Alike = TRUE
  MaxIncidents = 2
  None = None
INVARIANTS AckedIsKept TwiceOnlyIfReplayed
PROPERTY RecoverableStays
CHECK_DEADLOCK FALSE

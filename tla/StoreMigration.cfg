SPECIFICATION Spec
CONSTANTS
  MaxTrees = 6
  MaxIncidents = 3
  MaxRestores = 1
INVARIANTS CopyKept SafeBeside
PROPERTIES NoDeadEnd
CHECK_DEADLOCK FALSE

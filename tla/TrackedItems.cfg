SPECIFICATION ItemsSpec
CONSTANTS
  i1 = i1
  t1 = t1
  t2 = t2
  Tracked <- OneItem
  Jobs <- TwoJobs
  Retention = 2
  MaxForks = 2
  MaxFailed = 1
INVARIANTS NotImmortal AnchorKept
PROPERTIES GraceKept
SYMMETRY Interchangeable
CHECK_DEADLOCK FALSE

SPECIFICATION Spec
CONSTANTS
  own = own
  i1 = i1
  t1 = t1
  t2 = t2
  Pulls <- OnePull
  Number <- ItsNumber
  Checkouts <- OwnCheckout
  Items <- OneItem
  Tasks <- TwoTasks
  MaxRows = 2
  MaxMoves = 2
  MaxFailures = 1
INVARIANTS OneVisible WavedStays MergeFinishes ChipIsHonest
SYMMETRY Symmetry
CHECK_DEADLOCK FALSE

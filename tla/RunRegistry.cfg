SPECIFICATION Spec
CONSTANTS
  p1 = p1
  r1 = r1
  r2 = r2
  s1 = s1
  w1 = w1
  w2 = w2
  idle = idle
  None = None
  Idle = idle
  Projects <- OneProject
  Reservations <- TwoReservations
  Stops <- OneSide
  Syncs <- OneSide
  Waits <- NoOne
  Target <- NoTarget
  MaxRestarts = 1
INVARIANTS SlotHeldByItsDriver NothingLeftBehind
PROPERTIES FreesOnlyItsOwn
SYMMETRY Symmetry
CHECK_DEADLOCK FALSE

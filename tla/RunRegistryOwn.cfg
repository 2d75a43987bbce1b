SPECIFICATION Spec
CONSTANTS
  p1 = p1
  r1 = r1
  r2 = r2
  s1 = s1
  w1 = w1
  w2 = w2
  idle = idle
  None = None
  Idle = idle
  Projects <- OneProject
  Reservations <- TwoReservations
  Stops <- NoOne
  Syncs <- NoOne
  Waits <- DeleteAndIdle
  Target <- DeleteAndIdleTarget
  MaxRestarts = 0
INVARIANTS AliveOwnsSlot NoWaitAsleep
PROPERTIES StoppedTurnFreesSlot
CHECK_DEADLOCK FALSE

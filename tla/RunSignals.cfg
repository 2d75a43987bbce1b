SPECIFICATION SignalSpec
CONSTANTS
  t1 = t1
  t2 = t2
  main = main
  approval = approval
  compaction = compaction
  Setters <- MCSetters
  Waiters <- MCWaiters
  Kind <- MCKind
INVARIANTS NoLostWake OnlyForItsFact
PROPERTIES KeepsPromise
CHECK_DEADLOCK FALSE

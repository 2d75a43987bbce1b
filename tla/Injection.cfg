SPECIFICATION Spec
CONSTANTS
  m1 = m1
  m2 = m2
  m3 = m3
  None = None
  Messages <- ThreeMessages
INVARIANTS ReadInOrder AcceptedIsAccounted
PROPERTIES FailureFreesSlot
CHECK_DEADLOCK FALSE

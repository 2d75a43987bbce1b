SPECIFICATION Spec
CONSTANTS
  Callers = {c1, c2}
  MaxDaemons = 2
  MaxCalls = 3
  MaxIncidents = 1
  None = None
INVARIANTS OneDaemon OrderlyStopIsNoCrash
PROPERTIES StoppedStaysStopped CallsReturn
CHECK_DEADLOCK FALSE

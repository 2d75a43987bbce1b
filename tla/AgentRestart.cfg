SPECIFICATION Spec
CONSTANTS
  p1 = p1
  p2 = p2
  Projects <- TwoProjects
  MaxRuns = 2
  MaxRestarts = 2
  MaxLeaves = 2
  MaxFailures = 1
INVARIANTS LeavesClosed FrontendFirst QuietIsConfirmed ResumedOnce
SYMMETRY Interchangeable
CHECK_DEADLOCK FALSE

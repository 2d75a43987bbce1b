SPECIFICATION Spec
CONSTANTS
  q1 = q1
  q2 = q2
  bash = bash
  None = None
  Questions <- TwoQuestions
  Similar <- SameSignature
  Lines <- QuietLines
  StartLimit = 1
  IdleLimit = 1
  PingLimit = 1
  Granted = 2
  AskLimit = 1
  MaxPings = 2
  MaxIncidents = 2
  Clicks <- TwoClicks
  Codex = TRUE
INVARIANTS AnswerIsTheOwners GiveUpOnlyWedged
PROPERTIES SilenceEndsRun
CHECK_DEADLOCK FALSE

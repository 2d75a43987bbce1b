SPECIFICATION QueueSpec
CONSTANTS
  Prompts <- MCPrompts
  Runs <- MCRuns
  MaxAttempts = 1
  MaxIncidents = 1
INVARIANTS NoPromptTwice
PROPERTIES HeldIsNeverLost HeldPromptIsSent
CHECK_DEADLOCK FALSE

CONSTANTS
  Size <- MCSize
  MaxRuns = 1
  MaxTries = 1
SPECIFICATION Spec
PROPERTIES PromptIsKept
CHECK_DEADLOCK FALSE

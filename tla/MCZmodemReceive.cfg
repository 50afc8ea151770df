CONSTANTS
  Size <- MCSize
  MaxRuns = 2
  MaxTries = 1
SPECIFICATION Spec
INVARIANTS FilesAreWhole
PROPERTIES CloseIsHeard SenderLeaves
CHECK_DEADLOCK FALSE

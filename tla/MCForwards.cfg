CONSTANTS
  Forward <- MCForward
  Conn = {c1, c2}
  NoTarget = "none"
SPECIFICATION FwdSpec
INVARIANTS RightTarget
PROPERTIES TunnelsEnd
CHECK_DEADLOCK FALSE

SPECIFICATION Spec
CONSTANTS
  j1 = j1
  j2 = j2
  Jobs <- TwoJobs
  KindsOf <- AnyBesideOne
  Parts = 2
  CmdCap = 1
  UiCap = 1
INVARIANT DoneIsWhole
INVARIANT EndsAreClean
INVARIANT RowsSettle
INVARIANT CancelIsHeard
PROPERTY FinalStays
CHECK_DEADLOCK FALSE

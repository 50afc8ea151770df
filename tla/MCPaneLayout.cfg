SPECIFICATION Spec
CONSTANTS
  s1 = s1
  s2 = s2
  Sessions <- TwoSessions
  Welcome = Welcome
  NoTab = NoTab
  MaxId = 5
  Sizes <- TwoSizes
  Positions <- SomePositions
INVARIANT LayoutIsSound
PROPERTY RefinesPaneGroups
PROPERTY StripsKeepOrder
\* a panicked program stops
CHECK_DEADLOCK FALSE
SYMMETRY SessionSymmetry

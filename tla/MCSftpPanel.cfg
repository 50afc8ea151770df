SPECIFICATION Spec
CONSTANTS
  root = root
  home = home
  q1 = q1
  Dirs <- TwoDirs
  Root = root
  Home = home
  EmptyDirs <- NoneEmpty
  NoDir = NoDir
  Searches <- OneSearch
  NoSearch = NoSearch
  MaxGen = 2
  QueueCap = 1
  CmdCap = 1
INVARIANT SearchIsLeft
INVARIANT ListIsSound
INVARIANT LastRequestWins
INVARIANT SpinnerStops

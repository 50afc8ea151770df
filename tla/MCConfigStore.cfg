CONSTANTS
  HistoryCap = 2
  DirCap = 2
  Name = {"n"}
  Host = {"h"}
  User = {2}
  Text = {"q"}
  GroupName = {1, 3}
  Command = {1, 3}
  SshHost <- MCSshHost
  Pasted <- MCPasted
  Path = {2, 3}
  Starter <- MCStarter
  Legacy <- MCLegacy
  Export <- MCExport
  MaxEdits = 2
  MaxStarts = 2
  Unknown = Unknown
  Closed = Closed
SPECIFICATION Spec
INVARIANTS StoreIsSound
PROPERTIES RestartRestoresTheSaved
CHECK_DEADLOCK FALSE

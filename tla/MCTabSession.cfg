SPECIFICATION FairSpec
CONSTANTS
  t1 = t1
  Tabs <- OneTab
  Kinds <- AllKinds
  MaxGen = 2
  QueueCap = 2
INVARIANT TypeOK
INVARIANT NoOrphanSftp
INVARIANT HandlesAreCurrent
INVARIANT RemoteConnectedMeansAlive
PROPERTY FileSideClosesFirst
PROPERTY WorkersEnd
PROPERTY EndIsShown
\* a closed tab whose workers ended does nothing more, and starts are bounded
CHECK_DEADLOCK FALSE

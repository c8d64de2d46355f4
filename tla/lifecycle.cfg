SPECIFICATION FairLifeSpec
CONSTANTS
  o1 = o1
  o2 = o2
  o3 = o3
  Outputs = {o1, o2, o3}
  Tables <- BasicOnly
  DrainOrder <- JustBasic
  ItemsOf <- NoAddresses
  Ledgers <- OneLedger
  Workers = {1}
  BatchSize = 1
  InputCap = 1
  OutputCap = 1
  MaxSlot = 2
  Endings = {"crash", "stream", "write", "signal", "fault", "node"}
  MaxEndings = 1
  Requests = {1}
  IsNodeAlmostSyncedThreshold = 1
INVARIANTS
  LifeInv
  ServedIndexHasStatus
  ClosedLast
  NoRouteToClosedServer
PROPERTIES
  HealthIsSound
  ShutdownEnds
  Serves

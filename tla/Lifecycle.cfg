SPECIFICATION FairSpec
CHECK_DEADLOCK FALSE
CONSTANTS
  c1 = c1
  c2 = c2
  p1 = p1
  p2 = p2
  NoOne = NoOne
  Unset = Unset
  Container = {c1}
  Command = {p1, p2}
  DevPath <- MCDevPath
  HostDev <- DevTwo
  Parent <- ParentTwo
  Kind <- KindTwo
  Value = {1, 2}
  BaseName <- MCBaseName
  PartPath <- PartPathTwo
  InitialNumber <- NumberTwo
  ImageNode <- ImageNodeAtX
  InitialState = {"running", "stopped"}
  Requests <- LifeRequests
  BlockingInspect = TRUE
  Numbers = {1, 2}
  MaxStarts = 2
  MaxCrashes = 0
  MaxFaults = 1
  MaxPlugs = 0
INVARIANT
  StartInstallsAll
PROPERTIES
  StoreRefined
  RulesWithdrawn
  StartsAndStopsFinish

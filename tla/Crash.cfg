SPECIFICATION FairSpec
CHECK_DEADLOCK FALSE
CONSTANTS
  c1 = c1
  c2 = c2
  p1 = p1
  p2 = p2
  NoOne = NoOne
  Unset = Unset
  Container = {c1}
  Command = {p1, p2}
  DevPath <- MCDevPath
  HostDev <- DevSda
  Parent <- ParentSda
  Kind <- KindSda
  Value = {1, 2}
  BaseName <- MCBaseName
  PartPath <- PartPathSda
  InitialNumber <- NumberSda
  ImageNode <- NoImageNode
  InitialState = {"running"}
  Requests <- CrashRequests
  BlockingInspect = FALSE
  Numbers = {1, 2}
  MaxStarts = 2
  MaxCrashes = 1
  MaxFaults = 0
  MaxPlugs = 0
INVARIANT
  LocksHeld
PROPERTIES
  StoreRefined
  CommandsFinish

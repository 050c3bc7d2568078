SPECIFICATION FairSpec
CHECK_DEADLOCK FALSE
CONSTANTS
  c1 = c1
  c2 = c2
  p1 = p1
  p2 = p2
  NoOne = NoOne
  Unset = Unset
  Container = {c1}
  Command = {p1, p2}
  DevPath <- MCDevPath
  HostDev <- DevThree
  Parent <- ParentThree
  Kind <- KindThree
  Value = {1, 2}
  BaseName <- MCBaseName
  PartPath <- PartPathThree
  InitialNumber <- NumberThree
  ImageNode <- NoImageNode
  InitialState = {"running"}
  Requests <- RivalRequests
  BlockingInspect = TRUE
  Numbers = {1, 2, 3}
  MaxStarts = 1
  MaxCrashes = 0
  MaxFaults = 2
  MaxPlugs = 0
INVARIANTS
  TypeOK
  WellFormed
  Agreement
PROPERTIES
  StoreRefined
  CommandsFinish

SPECIFICATION Spec
CHECK_DEADLOCK FALSE
CONSTANTS
  c1 = c1
  c2 = c2
  p1 = p1
  p2 = p2
  NoOne = NoOne
  Unset = Unset
  Container = {c1}
  Command = {p1, p2}
  DevPath <- MCDevPath
  HostDev <- DevTwo
  Parent <- ParentTwo
  Kind <- KindTwo
  Value = {1}
  BaseName <- MCBaseName
  PartPath <- PartPathTwo
  InitialNumber <- NumberTwo
  ImageNode <- NoImageNode
  InitialState = {"stopped"}
  Requests <- AddRequests
  BlockingInspect = TRUE
  Numbers = {7}
  MaxStarts = 1
  MaxCrashes = 0
  MaxFaults = 0
  MaxPlugs = 1
PROPERTY
  AddedStays

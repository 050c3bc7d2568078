SPECIFICATION Spec
CHECK_DEADLOCK FALSE
CONSTANTS
  c1 = c1
  c2 = c2
  p1 = p1
  p2 = p2
  NoOne = NoOne
  Unset = Unset
  Container = {c1}
  Command = {p1}
  DevPath <- MCDevPath
  HostDev <- DevAlias
  Parent <- ParentAlias
  Kind <- KindAlias
  Value = {1}
  BaseName <- MCBaseName
  PartPath <- PartPathAlias
  InitialNumber <- NumberAlias
  ImageNode <- NoImageNode
  InitialState = {"running"}
  Requests <- AliasRequests
  BlockingInspect = TRUE
  Numbers = {1, 2}
  MaxStarts = 2
  MaxCrashes = 0
  MaxFaults = 0
  MaxPlugs = 0
PROPERTY
  RulesWithdrawn

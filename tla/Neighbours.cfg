SPECIFICATION Spec
CHECK_DEADLOCK FALSE
CONSTANTS
  c1 = c1
  c2 = c2
  p1 = p1
  p2 = p2
  NoOne = NoOne
  Unset = Unset
  Container = {c1, c2}
  Command = {p1, p2}
  DevPath <- MCDevPath
  HostDev <- DevSda
  Parent <- ParentSda
  Kind <- KindSda
  Value = {1}
  BaseName <- MCBaseName
  PartPath <- PartPathSda
  InitialNumber <- NumberSda
  ImageNode <- ImageNodeAtX
  InitialState = {"stopped"}
  Requests <- NeighbourRequests
  BlockingInspect = TRUE
  Numbers = {1, 2}
  MaxStarts = 1
  MaxCrashes = 0
  MaxFaults = 0
  MaxPlugs = 1
INVARIANTS
  TornOnlyWhileWritten
  WellFormed
  StartInstallsAll
PROPERTY
  RulesIsolated
SYMMETRY
  NeighbourSymmetry

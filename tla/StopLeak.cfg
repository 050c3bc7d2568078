SPECIFICATION Spec
CHECK_DEADLOCK FALSE
CONSTANTS
  c1 = c1
  p1 = p1
  p2 = p2
  NoOne = NoOne
  NoPerm = NoPerm
  HostPath = {"g", "h"}
  CtrPath = {"x", "y"}
  Perm = {"rw", "ro"}
  DefaultPerm = "rw"
  Writable = {"rw"}
  Container = {c1}
  Command = {p1}
  Requests <- AgainRequests
  InitialFile <- FirstFiles
  InitialState = {"running"}
  MaxPathNum = 1
  MaxStarts = 1
  MaxCrashes = 0
  MaxFaults = 0
INVARIANTS
  SharedPathsGone

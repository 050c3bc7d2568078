SPECIFICATION FairSpec
CHECK_DEADLOCK FALSE
CONSTANTS
  c1 = c1
  p1 = p1
  p2 = p2
  NoOne = NoOne
  NoPerm = NoPerm
  HostPath = {"g", "h"}
  CtrPath = {"x", "y"}
  Perm = {"rw", "ro"}
  DefaultPerm = "rw"
  Writable = {"rw"}
  Container = {c1}
  Command = {p1, p2}
  Requests <- KillRequests
  InitialFile <- OneFile
  InitialState = {"running"}
  MaxPathNum = 1
  MaxStarts = 2
  MaxCrashes = 1
  MaxFaults = 0
INVARIANTS
  FilesLoad
PROPERTIES
  PathCommandsFinish

SPECIFICATION FairSpec
CHECK_DEADLOCK FALSE
CONSTANTS
  c1 = c1
  c2 = c2
  p1 = p1
  p2 = p2
  NoOne = NoOne
  HostNs = HostNs
  Nowhere = Nowhere
  HostName = {"e0", "v0"}
  CtrName = {"eth0", "eth1"}
  IP = {"a", "b"}
  Mac = {}
  Qlen = {1}
  Dest = {"", "default", "net"}
  MaxNicNum = 2
  Eth = {"e0"}
  Pair = {"k1", "k2"}
  Container = {c1, c2}
  Command = {p1}
  Requests <- KillRequests
  InitialFile <- EachOne
  MaxStarts = 1
  MaxCrashes = 1
  MaxFaults = 0
INVARIANT
  NicsAgree
PROPERTIES
  OthersKept
  NetCommandsFinish
  NicsComeHome

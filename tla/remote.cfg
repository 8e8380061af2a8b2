SPECIFICATION Spec
CONSTANTS
  b1 = b1
  b2 = b2
  b3 = b3
  f1 = f1
  f2 = f2
  e1 = e1
  e2 = e2
  n1 = n1
  n2 = n2
  c1 = c1
  c2 = c2
  s1 = s1
  s2 = s2
  None = None
  Bundles = {b1, b2}
  Header <- RemoteHeader
  Endpoints = {e1}
  Nodes = {n1, n2}
  Clients = {}
  Sessions = {s1, s2}
  ListensTo <- MCListensTo
  PeerOf <- MCPeerOf
  Submitted = {}
  Incoming = {b1, b2}
  MaxCopies = 1
  EarlyTraffic = FALSE
  PeerMru <- RemoteMru
  StaticRoutes <- ViaN1
  Removable <- ViaN1
  Leaving = {}
  Flaky = {s1}
  ClientCapacity = 1
  SessionCapacity = 1
  Observed = {}
  HopBudgets = {}
  MaxCrashes = 0
  DiskFaults = FALSE
INVARIANTS
  NoneForgotten
  WaitingHaveData
  NoDanglingReference
CHECK_DEADLOCK FALSE

SPECIFICATION Spec
CONSTANTS
  b1 = b1
  b2 = b2
  b3 = b3
  f1 = f1
  f2 = f2
  e1 = e1
  e2 = e2
  n1 = n1
  n2 = n2
  c1 = c1
  c2 = c2
  s1 = s1
  s2 = s2
  None = None
  Bundles = {b1, b2, f1, f2}
  Header <- CrashHeader
  Endpoints = {e1}
  Nodes = {n1}
  Clients = {c1}
  Sessions = {s1}
  ListensTo <- MCListensTo
  PeerOf <- MCPeerOf
  Submitted = {b2}
  Incoming = {b1}
  MaxCopies = 1
  EarlyTraffic = FALSE
  PeerMru <- SplitMru
  StaticRoutes = {}
  Removable = {}
  Leaving = {}
  Flaky = {}
  ClientCapacity = 1
  SessionCapacity = 1
  Observed = {b1, b2, f1, f2}
  HopBudgets = {0, 1, 2}
  MaxCrashes = 1
  DiskFaults = FALSE
INVARIANTS
  TypeOK
  NoneForgotten
  NoLeftovers
PROPERTIES
  ImplementsStorage
CHECK_DEADLOCK FALSE

SPECIFICATION Spec
CONSTANTS
  b1 = b1
  b2 = b2
  b3 = b3
  f1 = f1
  f2 = f2
  e1 = e1
  e2 = e2
  n1 = n1
  n2 = n2
  c1 = c1
  c2 = c2
  s1 = s1
  s2 = s2
  None = None
  Bundles = {b1, b2, f1, f2}
  Header <- LocalHeader
  Endpoints = {e1, e2}
  Nodes = {}
  Clients = {c1, c2}
  Sessions = {}
  ListensTo <- MCListensTo
  PeerOf <- NoPeers
  Submitted = {b2}
  Incoming = {f1, f2}
  MaxCopies = 1
  EarlyTraffic = FALSE
  PeerMru <- LargeMru
  StaticRoutes = {}
  Removable = {}
  Leaving = {c1}
  Flaky = {}
  ClientCapacity = 1
  SessionCapacity = 1
  Observed = {}
  HopBudgets = {}
  MaxCrashes = 0
  DiskFaults = FALSE
INVARIANTS
  NoneForgotten
  OncePerCopy
  NoLeftovers
CHECK_DEADLOCK FALSE

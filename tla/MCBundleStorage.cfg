SPECIFICATION BoundedSpec
CONSTANTS
  b = b
  f1 = f1
  f2 = f2
  e = e
  n = n
  Bundles = {b, f1, f2}
  Header <- SplitHeader
  Endpoints = {e}
  Nodes = {n}
  Arrivals = {b, f1, f2}
  HopCounts = {0}
  Targets = {1, 2, 3}
  MaxStored = 2
  MaxAnnounced = 0
  MaxData = 3
  MaxCrashes = 1
  DiskFaults = TRUE
INVARIANTS
  TypeOK
  Durable
  

SPECIFICATION FairSpec
CONSTANTS
  u1 = u1  u2 = u2  w1 = w1  i1 = i1  n1 = n1  n2 = n2
  Configured = {u1, u2, w1}
  Incoming = {i1}
  Tcpcl = {u1, u2, i1}
  Endpoints = {n1, n2}
  Worlds <- MCWorlds
  MaxSessions = 4
INVARIANTS TypeOK RoutesFollowNodes SessionsAreKnown OneSessionPerUrl
PROPERTIES  LostNodesReconnect 
CHECK_DEADLOCK FALSE

----------------------------- MODULE PeersProofs -----------------------------
(***************************************************************************)
(* What the peers run checks on six small worlds, proved for every set of  *)
(* urls, every world and any number of sessions: the types, that the       *)
(* routes of type Connected follow the list of nodes, that a configured    *)
(* url has at most one session at a time, and that one that was registered *)
(* stays known to all until it is closed.                                  *)
(***************************************************************************)
EXTENDS Peers, TLAPS, FiniteSetTheorems, SequenceTheorems

-------------------------------------------------------------------------------
(* The inductive invariant.  Routes follow the nodes because every message that   *)
(* can add a route carries the endpoint of its url, so that the endpoint of a     *)
(* listed node can only be that of its url; and because every url that is around  *)
(* is one of the world, as Sole(u) is about those only.                           *)

Peer == world.urls \cap Tcpcl

Notices ==
  {m \in [type : {"Connected", "Disconnected"}, url : Peer,
          endpoint : Endpoints \cup {None}] :
     m.type = "Connected" => m.endpoint = endpoint(m.url)}

Reports ==
  {m \in [type : {"CLRegisterNode", "CLUnregisterNode"}, url : Peer,
          node : Endpoints \cup {None}, sender : Ids \cup {0}] :
     /\ m.node \in {None, endpoint(m.url)}
     /\ m.type = "CLRegisterNode" => m.node = endpoint(m.url) /\ m.sender \in Ids}

Requests == [type : {"ConnectRemote", "DisconnectRemote"}, url : world.urls]

Sessions ==
  {z \in [url : Peer, phase : {"handshake", "established", "closed"},
          closing : BOOLEAN, info : {"none", "pending", "told", "late", "dropped"}] :
     z.phase = "handshake" => z.info = "none"}

NodeOf(u) == [connection_status : Statuses, remote_endpoint : {None, endpoint(u)},
              temporary : BOOLEAN]

WorldInv == world \in Worlds /\ reachable \subseteq Configured /\ hasty \subseteq Configured

NodesInv ==
  /\ IsFiniteSet(DOMAIN nodes) /\ DOMAIN nodes \subseteq world.urls
  /\ \A u \in DOMAIN nodes : nodes[u] \in NodeOf(u)

ConnectedInv ==
  /\ DOMAIN connected_nodes \subseteq Endpoints
  /\ \A n \in DOMAIN connected_nodes : connected_nodes[n] \in Ids

MailInv ==
  notices \in Seq(Notices) /\ reports \in Seq(Reports) /\ requests \in Seq(Requests)

ServerInv ==
  /\ server = [connecting |-> server.connecting, sessions |-> server.sessions]
  /\ server.connecting \in Peer \cup {None}
  /\ DOMAIN server.sessions \subseteq Tcpcl
  /\ \A u \in DOMAIN server.sessions : server.sessions[u] \in 1..Len(sessions)

SessionsInv ==
  /\ sessions \in Seq(Sessions) /\ Len(sessions) <= MaxSessions
  /\ listener \subseteq 1..Len(sessions)

RoutesInv == routes \subseteq Endpoints /\ RoutesFollowNodes

Inv ==
  /\ WorldInv /\ NodesInv /\ ConnectedInv /\ MailInv
  /\ ServerInv /\ SessionsInv /\ RoutesInv

-------------------------------------------------------------------------------
(* Lemmas about the data *)

\* The node id behind a url is an endpoint.
LEMMA EndpointType ==
  ASSUME WorldInv, NEW u \in Urls
  PROVE  endpoint(u) \in Endpoints /\ endpoint(u) # None
<1>1. world \in World
  BY PeersAssumption DEF WorldInv
<1> QED
  BY <1>1, PeersAssumption DEF World, endpoint

\* The urls of a world are urls.
LEMMA UrlsType ==
  ASSUME WorldInv
  PROVE  world.urls \subseteq Urls /\ Peer \subseteq Urls /\ None \notin Urls
<1>1. world \in World
  BY PeersAssumption DEF WorldInv
<1> QED
  BY <1>1, PeersAssumption DEF World, Peer

\* A sequence that has its elements replaced is a sequence of the same length.
LEMMA MapType ==
  ASSUME NEW S, NEW T, NEW s \in Seq(S), NEW f,
         f = [i \in DOMAIN s |-> f[i]],
         \A i \in DOMAIN s : f[i] \in T
  PROVE  f \in Seq(T) /\ Len(f) = Len(s)
<1>1. Len(s) \in Nat /\ DOMAIN s = 1..Len(s)
  BY LenProperties
<1>2. f \in [1..Len(s) -> T]
  BY <1>1
<1>3. f \in Seq(T)
  BY <1>1, <1>2, SeqDef
<1>4. Len(f) \in Nat /\ DOMAIN f = 1..Len(f) /\ DOMAIN f = 1..Len(s)
  BY <1>2, <1>3, LenProperties
<1> QED
  BY <1>1, <1>3, <1>4

-------------------------------------------------------------------------------
(* Parts that a step leaves alone *)

\* The urls around do not change.
LEMMA SameWorld ==
  ASSUME WorldInv, UNCHANGED <<world, reachable, hasty>>
  PROVE  WorldInv'
BY DEF WorldInv

\* The list of nodes is left alone.
LEMMA SameNodes ==
  ASSUME NodesInv, UNCHANGED <<world, nodes>>
  PROVE  NodesInv'
BY DEF NodesInv, NodeOf, endpoint

\* The connections of the convergence agent are left alone.
LEMMA SameConnected ==
  ASSUME ConnectedInv, UNCHANGED connected_nodes
  PROVE  ConnectedInv'
BY DEF ConnectedInv

\* The messages that can be sent depend on the world only.
LEMMA SameMessages ==
  ASSUME UNCHANGED world
  PROVE  Notices' = Notices /\ Reports' = Reports /\ Requests' = Requests
         /\ Sessions' = Sessions /\ Peer' = Peer
BY DEF Notices, Reports, Requests, Sessions, Peer, endpoint

\* No mailbox is read or written.
LEMMA SameMail ==
  ASSUME MailInv, UNCHANGED <<world, notices, reports, requests>>
  PROVE  MailInv'
BY SameMessages DEF MailInv

\* The server is left alone and no session is opened.
LEMMA SameServer ==
  ASSUME ServerInv, UNCHANGED <<world, server>>, Len(sessions') = Len(sessions)
  PROVE  ServerInv'
BY SameMessages DEF ServerInv

\* No session changes.
LEMMA SameSessions ==
  ASSUME SessionsInv, UNCHANGED <<world, sessions, listener>>
  PROVE  SessionsInv'
BY SameMessages DEF SessionsInv

\* Neither the nodes nor the routes change.
LEMMA SameRoutes ==
  ASSUME RoutesInv, UNCHANGED <<world, nodes, routes>>
  PROVE  RoutesInv'
BY DEF RoutesInv, RoutesFollowNodes, Sole, endpoint

-------------------------------------------------------------------------------
(* The initial states *)

\* The node starts with nothing.
LEMMA InitInv == Init => Inv
<1> SUFFICES ASSUME Init PROVE Inv
  OBVIOUS
<1> USE DEF Init
<1>1. WorldInv
  BY DEF WorldInv
<1>2. NodesInv
  BY FS_EmptySet DEF NodesInv
<1>3. ConnectedInv
  BY DEF ConnectedInv
<1>4. MailInv
  BY EmptySeq DEF MailInv
<1>5. SessionsInv
  BY EmptySeq, PeersAssumption DEF SessionsInv
<1>6. ServerInv
  BY DEF ServerInv
<1>7. RoutesInv
  BY DEF RoutesInv, RoutesFollowNodes
<1> QED
  BY <1>1, <1>2, <1>3, <1>4, <1>5, <1>6, <1>7 DEF Inv

-------------------------------------------------------------------------------
(* The node agent *)

\* AddNode: the new node has no endpoint, so no route is missing.
LEMMA AddNodeStep ==
  ASSUME Inv, NEW u \in world.urls \cap Configured, AddNode(u)
  PROVE  Inv'
<1> USE DEF Inv
<1>0. UNCHANGED <<world, notices, routes, connected_nodes, reports, server, listener,
                  sessions, reachable>>
  BY DEF AddNode
<1>1. ConnectedInv' /\ ServerInv' /\ SessionsInv'
  BY <1>0, SameConnected, SameServer, SameSessions
<1>2. CASE u \in DOMAIN nodes
  <2>1. UNCHANGED <<nodes, requests, hasty>>
    BY <1>2 DEF AddNode
  <2> QED
    BY <1>0, <1>1, <2>1, SameWorld, SameNodes, SameMail, SameRoutes
<1>3. CASE u \notin DOMAIN nodes
  <2>1. /\ nodes' = With(nodes, u, Node("Connecting", None, FALSE))
        /\ requests' = Append(requests, ConnectRemote(u))
        /\ hasty' \in {hasty, hasty \cup {u}}
    BY <1>3 DEF AddNode
  <2>2. /\ DOMAIN nodes' = DOMAIN nodes \cup {u}
        /\ nodes'[u] = Node("Connecting", None, FALSE)
        /\ \A v \in DOMAIN nodes : nodes'[v] = nodes[v]
    BY <1>3, <2>1 DEF With
  <2>3. WorldInv'
    BY <1>0, <2>1 DEF WorldInv
  <2>4. NodesInv'
    <3>1. IsFiniteSet(DOMAIN nodes')
      BY <2>2, FS_AddElement DEF NodesInv
    <3>2. Node("Connecting", None, FALSE) \in NodeOf(u)
      BY DEF Node, NodeOf, Statuses
    <3>3. \A v \in DOMAIN nodes' : nodes'[v] \in NodeOf(v)
      BY <2>2, <3>2 DEF NodesInv
    <3> QED
      BY <1>0, <2>2, <3>1, <3>3 DEF NodesInv, NodeOf, endpoint
  <2>5. MailInv'
    <3>1. ConnectRemote(u) \in Requests
      BY DEF ConnectRemote, Requests
    <3> QED
      BY <1>0, <2>1, <3>1, SameMessages, AppendProperties DEF MailInv
  <2>6. RoutesInv'
    <3>1. nodes'[u].remote_endpoint = None
      BY <2>2 DEF Node
    <3>2. \A n \in routes : \E v \in DOMAIN nodes' : nodes'[v].remote_endpoint = n
      BY <2>2 DEF RoutesInv, RoutesFollowNodes
    <3>3. \A v \in DOMAIN nodes' :
            Sole(v) /\ nodes'[v].remote_endpoint # None => endpoint(v) \in routes
      BY <2>2, <3>1 DEF RoutesInv, RoutesFollowNodes
    <3> QED
      BY <1>0, <3>2, <3>3 DEF RoutesInv, RoutesFollowNodes, Sole, endpoint
  <2> QED
    BY <1>1, <2>3, <2>4, <2>5, <2>6
<1> QED
  BY <1>2, <1>3

\* RemoveNode changes the status of the node and keeps its endpoint and route.
LEMMA RemoveNodeStep ==
  ASSUME Inv, NEW u \in world.urls, RemoveNode(u)
  PROVE  Inv'
<1> USE DEF Inv
<1>0. /\ UNCHANGED <<world, notices, routes, connected_nodes, reports, server, listener,
                     sessions, reachable, hasty>>
      /\ u \in DOMAIN nodes
      /\ nodes' = [nodes EXCEPT ![u].temporary = TRUE,
                                ![u].connection_status = "Disconnecting"]
      /\ requests' = Append(requests, DisconnectRemote(u))
  BY DEF RemoveNode
<1>1. WorldInv' /\ ConnectedInv' /\ ServerInv' /\ SessionsInv'
  BY <1>0, SameWorld, SameConnected, SameServer, SameSessions
<1>2. /\ DOMAIN nodes' = DOMAIN nodes
      /\ \A v \in DOMAIN nodes : /\ nodes'[v] \in NodeOf(v)
                                 /\ nodes'[v].remote_endpoint = nodes[v].remote_endpoint
  BY <1>0 DEF NodesInv, NodeOf, Statuses
<1>3. NodesInv'
  BY <1>0, <1>2 DEF NodesInv, NodeOf, endpoint
<1>4. MailInv'
  <2>1. DisconnectRemote(u) \in Requests
    BY DEF DisconnectRemote, Requests
  <2> QED
    BY <1>0, <2>1, SameMessages, AppendProperties DEF MailInv
<1>5. RoutesInv'
  BY <1>0, <1>2 DEF RoutesInv, RoutesFollowNodes, Sole, endpoint
<1> QED
  BY <1>1, <1>3, <1>4, <1>5

\* The message at the head of the node agent's mailbox.
LEMMA NoticeType ==
  ASSUME Inv, notices # <<>>
  PROVE  Head(notices) \in Notices /\ Tail(notices) \in Seq(Notices)
BY HeadTailProperties DEF Inv, MailInv

\* NotifyNodeConnected: the endpoint it sets is that of the url, so a route that the
\* node had before stays that of the node.
LEMMA NotifyNodeConnectedStep ==
  ASSUME Inv, NotifyNodeConnected
  PROVE  Inv'
<1> USE DEF Inv
<1> DEFINE u == Head(notices).url
           n == Head(notices).endpoint
<1>0. /\ UNCHANGED <<world, connected_nodes, reports, requests, server, listener,
                     sessions, reachable, count, hasty>>
      /\ notices # <<>> /\ Head(notices).type = "Connected"
      /\ nodes' = IF u \in DOMAIN nodes
                  THEN [nodes EXCEPT ![u].connection_status = "Connected",
                                     ![u].remote_endpoint = n]
                  ELSE With(nodes, u, Node("Connected", n, TRUE))
      /\ routes' = routes \cup {n}
      /\ notices' = Tail(notices)
  BY DEF NotifyNodeConnected
<1>1. WorldInv' /\ ConnectedInv' /\ ServerInv' /\ SessionsInv'
  BY <1>0, SameWorld, SameConnected, SameServer, SameSessions
<1>2. u \in Peer /\ n = endpoint(u) /\ Tail(notices) \in Seq(Notices)
  BY <1>0, NoticeType DEF Notices
<1>3. u \in world.urls /\ n \in Endpoints /\ n # None
  BY <1>2, EndpointType, UrlsType DEF Peer
<1> HIDE DEF u, n
<1>4. /\ DOMAIN nodes' = DOMAIN nodes \cup {u}
      /\ nodes'[u] \in NodeOf(u) /\ nodes'[u].remote_endpoint = n
      /\ \A v \in DOMAIN nodes \ {u} : nodes'[v] = nodes[v]
  <2>1. CASE u \in DOMAIN nodes
    <3>1. nodes' = [nodes EXCEPT ![u].connection_status = "Connected",
                                 ![u].remote_endpoint = n]
      BY <1>0, <2>1
    <3>2. nodes[u] \in NodeOf(u)
      BY <2>1 DEF NodesInv
    <3> QED
      BY <1>2, <2>1, <3>1, <3>2 DEF NodeOf, Statuses
  <2>2. CASE u \notin DOMAIN nodes
    <3>1. nodes' = With(nodes, u, Node("Connected", n, TRUE))
      BY <1>0, <2>2
    <3>2. Node("Connected", n, TRUE) \in NodeOf(u)
          /\ Node("Connected", n, TRUE).remote_endpoint = n
      BY <1>2 DEF Node, NodeOf, Statuses
    <3> QED
      BY <2>2, <3>1, <3>2 DEF With
  <2> QED
    BY <2>1, <2>2
<1>5. NodesInv'
  <2>1. IsFiniteSet(DOMAIN nodes')
    BY <1>4, FS_AddElement DEF NodesInv
  <2>2. \A v \in DOMAIN nodes' : nodes'[v] \in NodeOf(v)
    BY <1>4 DEF NodesInv
  <2>3. world' = world
    BY <1>0
  <2>4. \A v \in DOMAIN nodes' : nodes'[v] \in NodeOf(v)'
    BY <2>2, <2>3 DEF NodeOf, endpoint
  <2>5. DOMAIN nodes' \subseteq world'.urls
    BY <1>3, <1>4, <2>3 DEF NodesInv
  <2> QED
    BY <2>1, <2>4, <2>5 DEF NodesInv
<1>6. MailInv'
  BY <1>0, <1>2, SameMessages DEF MailInv
<1>7. RoutesInv'
  <2>1. \A m \in routes' : \E v \in DOMAIN nodes' : nodes'[v].remote_endpoint = m
    <3> SUFFICES ASSUME NEW m \in routes
                 PROVE  \E v \in DOMAIN nodes' : nodes'[v].remote_endpoint = m
      BY <1>0, <1>4
    <3>1. PICK v \in DOMAIN nodes : nodes[v].remote_endpoint = m
      BY DEF RoutesInv, RoutesFollowNodes
    <3>2. m \in Endpoints /\ m # None
      BY PeersAssumption DEF RoutesInv
    <3>3. nodes[v].remote_endpoint \in {None, endpoint(v)}
      BY <3>1 DEF NodesInv, NodeOf
    <3> QED
      BY <1>2, <1>4, <3>1, <3>2, <3>3
  <2>2. \A v \in DOMAIN nodes' :
          Sole(v) /\ nodes'[v].remote_endpoint # None => endpoint(v) \in routes'
    BY <1>0, <1>2, <1>4 DEF RoutesInv, RoutesFollowNodes
  <2> QED
    BY <1>0, <1>3, <2>1, <2>2 DEF RoutesInv, RoutesFollowNodes, Sole, endpoint
<1> QED
  BY <1>1, <1>5, <1>6, <1>7

\* NotifyNodeDisconnected: the route that goes is that of the node, and of no other
\* node with an endpoint of its own.
LEMMA NotifyNodeDisconnectedStep ==
  ASSUME Inv, NotifyNodeDisconnected
  PROVE  Inv'
<1> USE DEF Inv
<1> DEFINE u == Head(notices).url
<1>0. /\ UNCHANGED <<world, connected_nodes, reports, requests, server, listener,
                     sessions, reachable, count, hasty>>
      /\ notices # <<>> /\ notices' = Tail(notices)
      /\ IF u \notin DOMAIN nodes THEN UNCHANGED <<nodes, routes>>
         ELSE /\ routes' = routes \ {nodes[u].remote_endpoint}
              /\ nodes' = IF nodes[u].temporary THEN Without(nodes, u)
                          ELSE [nodes EXCEPT ![u].connection_status = "Disconnected",
                                             ![u].remote_endpoint = None]
  BY DEF NotifyNodeDisconnected, RemoveRoute
<1>1. WorldInv' /\ ConnectedInv' /\ ServerInv' /\ SessionsInv'
  BY <1>0, SameWorld, SameConnected, SameServer, SameSessions
<1>2. MailInv'
  BY <1>0, NoticeType, SameMessages DEF MailInv
<1> HIDE DEF u
<1>3. CASE u \notin DOMAIN nodes
  <2>1. UNCHANGED <<nodes, routes>>
    BY <1>0, <1>3
  <2> QED
    BY <1>0, <1>1, <1>2, <2>1, SameNodes, SameRoutes
<1>4. CASE u \in DOMAIN nodes
  <2>0. nodes[u] \in NodeOf(u)
    BY <1>4 DEF NodesInv
  <2>1. /\ DOMAIN nodes' \subseteq DOMAIN nodes
        /\ DOMAIN nodes \ {u} \subseteq DOMAIN nodes'
        /\ \A v \in DOMAIN nodes \ {u} : nodes'[v] = nodes[v]
        /\ u \in DOMAIN nodes' => nodes'[u] \in NodeOf(u)
                                  /\ nodes'[u].remote_endpoint = None
    <3>1. CASE nodes[u].temporary
      <4>1. nodes' = Without(nodes, u)
        BY <1>0, <1>4, <3>1
      <4> QED
        BY <4>1 DEF Without
    <3>2. CASE ~nodes[u].temporary
      <4>1. nodes' = [nodes EXCEPT ![u].connection_status = "Disconnected",
                                   ![u].remote_endpoint = None]
        BY <1>0, <1>4, <3>2
      <4> QED
        BY <1>4, <2>0, <4>1 DEF NodeOf, Statuses
    <3> QED
      BY <3>1, <3>2
  <2>2. NodesInv'
    <3>1. IsFiniteSet(DOMAIN nodes')
      BY <2>1, FS_Subset DEF NodesInv
    <3>2. \A v \in DOMAIN nodes' : nodes'[v] \in NodeOf(v)
      BY <2>1 DEF NodesInv
    <3> QED
      BY <1>0, <2>1, <3>1, <3>2 DEF NodesInv, NodeOf, endpoint
  <2>3. routes' = routes \ {nodes[u].remote_endpoint}
    BY <1>0, <1>4
  <2>4. \A m \in routes' : \E v \in DOMAIN nodes' : nodes'[v].remote_endpoint = m
    BY <2>1, <2>3 DEF RoutesInv, RoutesFollowNodes
  <2>5. \A v \in DOMAIN nodes' :
          Sole(v) /\ nodes'[v].remote_endpoint # None => endpoint(v) \in routes'
    <3> SUFFICES ASSUME NEW v \in DOMAIN nodes', Sole(v),
                        nodes'[v].remote_endpoint # None
                 PROVE  endpoint(v) \in routes'
      OBVIOUS
    <3>1. v # u /\ v \in DOMAIN nodes /\ nodes[v].remote_endpoint # None
      BY <2>1
    <3>2. endpoint(v) \in routes
      BY <3>1 DEF RoutesInv, RoutesFollowNodes
    <3>3. v \in world.urls /\ u \in world.urls
      BY <1>4, <3>1 DEF NodesInv
    <3>4. endpoint(u) # endpoint(v) /\ endpoint(v) # None
      BY <3>1, <3>3, EndpointType, UrlsType DEF Sole
    <3>5. nodes[u].remote_endpoint \in {None, endpoint(u)}
      BY <2>0 DEF NodeOf
    <3> QED
      BY <2>3, <3>2, <3>4, <3>5
  <2>6. RoutesInv'
    BY <1>0, <2>3, <2>4, <2>5 DEF RoutesInv, RoutesFollowNodes, Sole, endpoint
  <2> QED
    BY <1>1, <1>2, <2>2, <2>6
<1> QED
  BY <1>3, <1>4

\* TryConnect: endpoints stay, one request per node that is due.
LEMMA TryConnectStep ==
  ASSUME Inv, TryConnect
  PROVE  Inv'
<1> USE DEF Inv
<1>0. /\ UNCHANGED <<world, notices, routes, connected_nodes, reports, server, listener,
                     sessions, reachable, count, hasty>>
      /\ nodes' = [u \in DOMAIN nodes |->
                     IF u \in Due THEN [nodes[u] EXCEPT !.connection_status = "Connecting"]
                                  ELSE nodes[u]]
  BY DEF TryConnect
<1>1. WorldInv' /\ ConnectedInv' /\ ServerInv' /\ SessionsInv'
  BY <1>0, SameWorld, SameConnected, SameServer, SameSessions
<1>2. /\ DOMAIN nodes' = DOMAIN nodes
      /\ \A v \in DOMAIN nodes : /\ nodes'[v] \in NodeOf(v)
                                 /\ nodes'[v].remote_endpoint = nodes[v].remote_endpoint
  BY <1>0 DEF NodesInv, NodeOf, Statuses
<1>3. NodesInv'
  BY <1>0, <1>2 DEF NodesInv, NodeOf, endpoint
<1>4. MailInv'
  <2>1. PICK order \in SetToSeqs(Due) :
          requests' = requests \o [i \in DOMAIN order |-> ConnectRemote(order[i])]
    BY DEF TryConnect
  <2>2. Due \subseteq DOMAIN nodes
    BY DEF Due
  <2>3. IsFiniteSet(Due) /\ Cardinality(Due) \in Nat
    BY <2>2, FS_Subset, FS_CardinalityType DEF NodesInv
  <2>4. order \in [1..Cardinality(Due) -> Due]
    BY DEF SetToSeqs
  <2> DEFINE mail == [i \in DOMAIN order |-> ConnectRemote(order[i])]
  <2>5. mail \in [1..Cardinality(Due) -> Requests]
    BY <2>2, <2>4 DEF ConnectRemote, Requests, NodesInv
  <2>6. mail \in Seq(Requests)
    BY <2>3, <2>5, SeqDef
  <2> HIDE DEF mail
  <2>7. requests \o mail \in Seq(Requests)
    BY <2>6, ConcatProperties DEF MailInv
  <2> QED
    BY <1>0, <2>1, <2>7, SameMessages DEF MailInv, mail
<1>5. RoutesInv'
  BY <1>0, <1>2 DEF RoutesInv, RoutesFollowNodes, Sole, endpoint
<1> QED
  BY <1>1, <1>3, <1>4, <1>5

-------------------------------------------------------------------------------
(* The convergence agent *)

\* The message at the head of the requests for the server.
LEMMA RequestType ==
  ASSUME Inv, requests # <<>>
  PROVE  Head(requests) \in Requests /\ Tail(requests) \in Seq(Requests)
BY HeadTailProperties DEF Inv, MailInv

\* The message at the head of the mailbox of the convergence agent.
LEMMA ReportType ==
  ASSUME Inv, reports # <<>>
  PROVE  Head(reports) \in Reports /\ Tail(reports) \in Seq(Reports)
BY HeadTailProperties DEF Inv, MailInv

\* A request that is only logged.
LEMMA UnknownSchemeStep ==
  ASSUME Inv, UnknownScheme
  PROVE  Inv'
<1> USE DEF Inv
<1>0. /\ UNCHANGED <<world, nodes, notices, routes, connected_nodes, reports, server,
                     listener, sessions, reachable, count, hasty>>
      /\ requests # <<>> /\ requests' = Tail(requests)
  BY DEF UnknownScheme
<1>1. WorldInv' /\ NodesInv' /\ ConnectedInv' /\ ServerInv' /\ SessionsInv' /\ RoutesInv'
  BY <1>0, SameWorld, SameNodes, SameConnected, SameServer, SameSessions, SameRoutes
<1>2. MailInv'
  BY <1>0, RequestType, SameMessages DEF MailInv
<1> QED
  BY <1>1, <1>2

\* CLRegisterNode: the notice carries the endpoint of the report.
LEMMA RegisterNodeStep ==
  ASSUME Inv, RegisterNode
  PROVE  Inv'
<1> USE DEF Inv
<1> DEFINE m == Head(reports)
<1>0. /\ UNCHANGED <<world, nodes, routes, requests, server, listener, sessions,
                     reachable, count, hasty>>
      /\ reports # <<>> /\ m.type = "CLRegisterNode" /\ reports' = Tail(reports)
      /\ connected_nodes' = With(connected_nodes, m.node, m.sender)
      /\ notices' = Append(notices, Notify("Connected", m.url, m.node))
  BY DEF RegisterNode
<1>1. WorldInv' /\ NodesInv' /\ ServerInv' /\ SessionsInv' /\ RoutesInv'
  BY <1>0, SameWorld, SameNodes, SameServer, SameSessions, SameRoutes
<1>2. m \in Reports /\ Tail(reports) \in Seq(Reports)
  BY <1>0, ReportType
<1> HIDE DEF m
<1>3. m.url \in Peer /\ m.node = endpoint(m.url) /\ m.sender \in Ids
  BY <1>0, <1>2 DEF Reports
<1>4. m.node \in Endpoints
  BY <1>3, EndpointType, UrlsType
<1>5. ConnectedInv'
  BY <1>0, <1>3, <1>4 DEF ConnectedInv, With
<1>6. Notify("Connected", m.url, m.node) \in Notices
  BY <1>3, <1>4 DEF Notify, Notices
<1>7. MailInv'
  BY <1>0, <1>2, <1>6, SameMessages, AppendProperties DEF MailInv
<1> QED
  BY <1>1, <1>5, <1>7

\* CLUnregisterNode: the notice needs no endpoint.
LEMMA UnregisterNodeStep ==
  ASSUME Inv, UnregisterNode
  PROVE  Inv'
<1> USE DEF Inv
<1> DEFINE m == Head(reports)
<1>0. /\ UNCHANGED <<world, nodes, routes, requests, server, listener, sessions,
                     reachable, count, hasty>>
      /\ reports # <<>> /\ reports' = Tail(reports)
      /\ connected_nodes' = Without(connected_nodes, m.node)
      /\ notices' = Append(notices, Notify("Disconnected", m.url, None))
  BY DEF UnregisterNode
<1>1. WorldInv' /\ NodesInv' /\ ServerInv' /\ SessionsInv' /\ RoutesInv'
  BY <1>0, SameWorld, SameNodes, SameServer, SameSessions, SameRoutes
<1>2. m \in Reports /\ Tail(reports) \in Seq(Reports)
  BY <1>0, ReportType
<1> HIDE DEF m
<1>3. m.url \in Peer
  BY <1>2 DEF Reports
<1>4. ConnectedInv'
  BY <1>0 DEF ConnectedInv, Without
<1>5. Notify("Disconnected", m.url, None) \in Notices
  BY <1>3 DEF Notify, Notices
<1>6. MailInv'
  BY <1>0, <1>2, <1>5, SameMessages, AppendProperties DEF MailInv
<1> QED
  BY <1>1, <1>4, <1>6

-------------------------------------------------------------------------------
(* The TCPCL servers *)

\* ConnectRemote: the server is busy with the url of the request.
LEMMA StartConnectStep ==
  ASSUME Inv, StartConnect
  PROVE  Inv'
<1> USE DEF Inv
<1>0. /\ UNCHANGED <<world, nodes, notices, routes, connected_nodes, reports, listener,
                     sessions, reachable, count, hasty>>
      /\ requests # <<>> /\ Head(requests).url \in Tcpcl
      /\ server' = [server EXCEPT !.connecting = Head(requests).url]
      /\ requests' = Tail(requests)
  BY DEF StartConnect
<1>1. WorldInv' /\ NodesInv' /\ ConnectedInv' /\ SessionsInv' /\ RoutesInv'
  BY <1>0, SameWorld, SameNodes, SameConnected, SameSessions, SameRoutes
<1>2. MailInv'
  BY <1>0, RequestType, SameMessages DEF MailInv
<1>3. Head(requests).url \in Peer
  BY <1>0, RequestType DEF Requests, Peer
<1>4. ServerInv'
  <2>1. server' = [connecting |-> Head(requests).url, sessions |-> server.sessions]
    BY <1>0 DEF ServerInv
  <2> QED
    BY <1>0, <1>3, <2>1, SameMessages DEF ServerInv
<1> QED
  BY <1>1, <1>2, <1>4

\* A session that is opened is the last one, and the earlier ones stay.
LEMMA OpenedSession ==
  ASSUME Inv, NEW u \in Peer, Len(sessions) < MaxSessions,
         sessions' = Append(sessions, NewSession(u)),
         UNCHANGED world
  PROVE  /\ sessions' \in Seq(Sessions)'
         /\ Len(sessions') = Len(sessions) + 1 /\ Len(sessions) \in Nat
         /\ Len(sessions') <= MaxSessions
<1>1. NewSession(u) \in Sessions
  BY DEF NewSession, Sessions
<1>2. sessions \in Seq(Sessions) /\ Len(sessions) \in Nat
  BY LenProperties DEF Inv, SessionsInv
<1>3. sessions' \in Seq(Sessions) /\ Len(sessions') = Len(sessions) + 1
  BY <1>1, <1>2, AppendProperties
<1> QED
  BY <1>2, <1>3, SameMessages, PeersAssumption

\* A connection was made: the server holds the session that is opened.
LEMMA ConnectSucceedsStep ==
  ASSUME Inv, ConnectSucceeds
  PROVE  Inv'
<1> USE DEF Inv
<1> DEFINE u == server.connecting
<1>0. /\ UNCHANGED <<world, nodes, notices, routes, connected_nodes, reports, requests,
                     listener, reachable, count, hasty>>
      /\ u \in reachable /\ Len(sessions) < MaxSessions
      /\ sessions' = Append(sessions, NewSession(u))
      /\ server' = [connecting |-> None,
                    sessions |-> With(server.sessions, u, Len(sessions) + 1)]
  BY DEF ConnectSucceeds
<1>1. WorldInv' /\ NodesInv' /\ ConnectedInv' /\ MailInv' /\ RoutesInv'
  BY <1>0, SameWorld, SameNodes, SameConnected, SameMail, SameRoutes
<1>2. u \in Peer
  BY <1>0, UrlsType DEF ServerInv, WorldInv, Urls
<1> HIDE DEF u
<1>3. /\ sessions' \in Seq(Sessions)' /\ Len(sessions) \in Nat
      /\ Len(sessions') = Len(sessions) + 1 /\ Len(sessions') <= MaxSessions
  BY <1>0, <1>2, OpenedSession
<1>4. SessionsInv'
  BY <1>0, <1>3 DEF SessionsInv
<1>5. ServerInv'
  <2>1. /\ server'.connecting = None
        /\ server'.sessions = With(server.sessions, u, Len(sessions) + 1)
    BY <1>0
  <2>2. /\ DOMAIN server'.sessions = DOMAIN server.sessions \cup {u}
        /\ server'.sessions[u] = Len(sessions) + 1
        /\ \A v \in DOMAIN server.sessions \ {u} :
             server'.sessions[v] = server.sessions[v]
    BY <2>1 DEF With
  <2>3. \A v \in DOMAIN server'.sessions : server'.sessions[v] \in 1..Len(sessions')
    BY <1>3, <2>2 DEF ServerInv
  <2>4. server' = [connecting |-> server'.connecting, sessions |-> server'.sessions]
    BY <1>0, <2>1
  <2> QED
    BY <1>2, <2>1, <2>2, <2>3, <2>4 DEF ServerInv, Peer
<1> QED
  BY <1>1, <1>4, <1>5

\* A url is unregistered with its endpoint, or with none.
LEMMA UnregisterType ==
  ASSUME WorldInv, NEW u \in Peer, NEW n \in {None, endpoint(u)}
  PROVE  CLUnregisterNode(u, n) \in Reports
<1>1. endpoint(u) \in Endpoints
  BY EndpointType, UrlsType
<1> QED
  BY <1>1 DEF CLUnregisterNode, Reports

\* A connection failed: nothing is registered.
LEMMA ConnectFailsStep ==
  ASSUME Inv, ConnectFails
  PROVE  Inv'
<1> USE DEF Inv
<1> DEFINE u == server.connecting
<1>0. /\ UNCHANGED <<world, nodes, notices, routes, connected_nodes, requests, listener,
                     sessions, reachable, count, hasty>>
      /\ u \in Configured
      /\ reports' = Append(reports, CLUnregisterNode(u, None))
      /\ server' = [server EXCEPT !.connecting = None]
  BY DEF ConnectFails, FailureReported
<1>1. WorldInv' /\ NodesInv' /\ ConnectedInv' /\ SessionsInv' /\ RoutesInv'
  BY <1>0, SameWorld, SameNodes, SameConnected, SameSessions, SameRoutes
<1>2. u \in Peer
  BY <1>0, UrlsType DEF ServerInv, Urls
<1>3. MailInv'
  BY <1>0, <1>2, UnregisterType, SameMessages, AppendProperties DEF MailInv
<1>4. ServerInv'
  <2>1. server' = [connecting |-> None, sessions |-> server.sessions]
    BY <1>0 DEF ServerInv
  <2> QED
    BY <1>0, <2>1 DEF ServerInv
<1> QED
  BY <1>1, <1>3, <1>4

\* A session that is told to close, like any other, stays one of its kind.
LEMMA ShutdownType ==
  ASSUME Inv, NEW ids, Shutdown(ids), UNCHANGED world
  PROVE  sessions' \in Seq(Sessions)' /\ Len(sessions') = Len(sessions)
<1>1. sessions \in Seq(Sessions)
  BY DEF Inv, SessionsInv
<1>2. sessions' = [s \in DOMAIN sessions |->
                     IF s \in ids /\ sessions[s].phase # "closed"
                     THEN [sessions[s] EXCEPT !.closing = TRUE] ELSE sessions[s]]
  BY DEF Shutdown
<1>3. \A s \in DOMAIN sessions : sessions[s] \in Sessions
  BY <1>1, ElementOfSeq, LenProperties
<1>4. \A s \in DOMAIN sessions : sessions'[s] \in Sessions
  BY <1>2, <1>3 DEF Sessions
<1>5. sessions' = [s \in DOMAIN sessions |-> sessions'[s]]
  BY <1>2
<1> QED
  BY <1>1, <1>4, <1>5, MapType, SameMessages

\* DisconnectRemote: the session is told to close, or the url is unregistered.
LEMMA DisconnectStep ==
  ASSUME Inv, Disconnect
  PROVE  Inv'
<1> USE DEF Inv
<1> DEFINE u == Head(requests).url
<1>0. /\ UNCHANGED <<world, nodes, notices, routes, connected_nodes, listener, reachable,
                     count, hasty>>
      /\ requests # <<>> /\ u \in Tcpcl /\ requests' = Tail(requests)
      /\ IF u \in DOMAIN server.sessions
         THEN /\ Shutdown({server.sessions[u]})
              /\ server' = [server EXCEPT !.sessions = Without(@, u)]
              /\ UNCHANGED reports
         ELSE /\ reports' = Append(reports, CLUnregisterNode(u, None))
              /\ UNCHANGED <<server, sessions>>
  BY DEF Disconnect, UnknownRemote
<1>1. WorldInv' /\ NodesInv' /\ ConnectedInv' /\ RoutesInv'
  BY <1>0, SameWorld, SameNodes, SameConnected, SameRoutes
<1>2. u \in Peer /\ Tail(requests) \in Seq(Requests)
  BY <1>0, RequestType DEF Requests, Peer
<1> HIDE DEF u
<1>3. CASE u \in DOMAIN server.sessions
  <2>0. /\ Shutdown({server.sessions[u]}) /\ UNCHANGED reports
        /\ server' = [server EXCEPT !.sessions = Without(@, u)]
    BY <1>0, <1>3
  <2>1. sessions' \in Seq(Sessions)' /\ Len(sessions') = Len(sessions)
    BY <1>0, <2>0, ShutdownType
  <2>2. SessionsInv'
    BY <1>0, <2>1 DEF SessionsInv
  <2>3. MailInv'
    BY <1>0, <1>2, <2>0, SameMessages DEF MailInv
  <2>4. ServerInv'
    <3>1. server' = [connecting |-> server.connecting,
                     sessions |-> Without(server.sessions, u)]
      BY <2>0 DEF ServerInv
    <3>2. /\ server'.connecting = server.connecting
          /\ server'.sessions = Without(server.sessions, u)
      BY <3>1
    <3>3. /\ DOMAIN server'.sessions = DOMAIN server.sessions \ {u}
          /\ \A v \in DOMAIN server.sessions \ {u} :
               server'.sessions[v] = server.sessions[v]
      BY <3>2 DEF Without
    <3>4. server' = [connecting |-> server'.connecting, sessions |-> server'.sessions]
      BY <3>1, <3>2
    <3> QED
      BY <1>0, <2>1, <3>2, <3>3, <3>4, SameMessages DEF ServerInv
  <2> QED
    BY <1>1, <2>2, <2>3, <2>4
<1>4. CASE u \notin DOMAIN server.sessions
  <2>0. /\ reports' = Append(reports, CLUnregisterNode(u, None))
        /\ UNCHANGED <<server, sessions>>
    BY <1>0, <1>4
  <2>1. ServerInv' /\ SessionsInv'
    BY <1>0, <2>0, SameServer, SameSessions
  <2>2. MailInv'
    BY <1>0, <1>2, <2>0, UnregisterType, SameMessages, AppendProperties DEF MailInv
  <2> QED
    BY <1>1, <2>1, <2>2
<1> QED
  BY <1>3, <1>4

\* The identifier of the session that is opened.
LEMMA NextId ==
  ASSUME NEW n \in Nat, NEW ids, ids \subseteq 1..n
  PROVE  ids \cup {n + 1} \subseteq 1..(n + 1)
OBVIOUS

\* A connection comes in: the listener holds the session that is opened.
LEMMA NewClientConnectedOnSocketStep ==
  ASSUME Inv, NEW u \in world.urls \cap Incoming, NewClientConnectedOnSocket(u)
  PROVE  Inv'
<1> USE DEF Inv
<1>0. /\ UNCHANGED <<world, nodes, notices, routes, connected_nodes, reports, requests,
                     server, reachable, count, hasty>>
      /\ Len(sessions) < MaxSessions
      /\ sessions' = Append(sessions, NewSession(u))
      /\ listener' = listener \cup {Len(sessions) + 1}
  BY DEF NewClientConnectedOnSocket
<1>1. WorldInv' /\ NodesInv' /\ ConnectedInv' /\ MailInv' /\ RoutesInv'
  BY <1>0, SameWorld, SameNodes, SameConnected, SameMail, SameRoutes
<1>2. u \in Peer
  BY PeersAssumption DEF Peer
<1>3. /\ sessions' \in Seq(Sessions)' /\ Len(sessions) \in Nat
      /\ Len(sessions') = Len(sessions) + 1 /\ Len(sessions') <= MaxSessions
  BY <1>0, <1>2, OpenedSession
<1>4. SessionsInv'
  <2>1. listener \subseteq 1..Len(sessions)
    BY DEF SessionsInv
  <2>2. listener' \subseteq 1..Len(sessions')
    BY <1>0, <1>3, <2>1, NextId, Zenon
  <2> QED
    BY <1>3, <2>2 DEF SessionsInv
<1>5. ServerInv'
  BY <1>0, <1>3, SameMessages DEF ServerInv
<1> QED
  BY <1>1, <1>4, <1>5

\* The sessions of the listener are told to close.
LEMMA ShutdownListenerStep ==
  ASSUME Inv, ShutdownListener
  PROVE  Inv'
<1> USE DEF Inv
<1>0. /\ UNCHANGED <<world, nodes, notices, routes, connected_nodes, reports, requests,
                     server, reachable, count, hasty>>
      /\ Shutdown(listener) /\ listener' = {}
  BY DEF ShutdownListener
<1>1. WorldInv' /\ NodesInv' /\ ConnectedInv' /\ MailInv' /\ RoutesInv'
  BY <1>0, SameWorld, SameNodes, SameConnected, SameMail, SameRoutes
<1>2. sessions' \in Seq(Sessions)' /\ Len(sessions') = Len(sessions)
  BY <1>0, ShutdownType
<1>3. SessionsInv' /\ ServerInv'
  BY <1>0, <1>2, SameServer DEF SessionsInv
<1> QED
  BY <1>1, <1>3

-------------------------------------------------------------------------------
(* Sessions and their agents *)

\* A step of one session leaves the parts alone that are not about sessions and
\* the mailbox of the convergence agent.
LEMMA SessionChanged ==
  ASSUME Inv, NEW s \in DOMAIN sessions, NEW v \in Sessions,
         sessions' = [sessions EXCEPT ![s] = v],
         reports' \in Seq(Reports),
         UNCHANGED <<world, nodes, notices, routes, connected_nodes, requests, server,
                     listener, reachable, hasty>>
  PROVE  Inv'
<1> USE DEF Inv
<1>1. WorldInv' /\ NodesInv' /\ ConnectedInv' /\ RoutesInv'
  BY SameWorld, SameNodes, SameConnected, SameRoutes
<1>2. sessions \in Seq(Sessions)
  BY DEF SessionsInv
<1>3. \A t \in DOMAIN sessions : sessions[t] \in Sessions
  BY <1>2, ElementOfSeq, LenProperties
<1>4. \A t \in DOMAIN sessions : sessions'[t] \in Sessions
  BY <1>3
<1>5. sessions' = [t \in DOMAIN sessions |-> sessions'[t]]
  OBVIOUS
<1>6. sessions' \in Seq(Sessions) /\ Len(sessions') = Len(sessions)
  BY <1>2, <1>4, <1>5, MapType
<1>7. SessionsInv' /\ ServerInv'
  BY <1>6, SameServer, SameMessages DEF SessionsInv
<1>8. MailInv'
  BY SameMessages DEF MailInv
<1> QED
  BY <1>1, <1>7, <1>8

\* The session of an identifier.
LEMMA SessionType ==
  ASSUME Inv, NEW s \in DOMAIN sessions
  PROVE  /\ sessions[s] \in Sessions /\ sessions[s].url \in Peer /\ s \in Ids
         /\ endpoint(sessions[s].url) \in Endpoints
<1>1. sessions \in Seq(Sessions) /\ Len(sessions) <= MaxSessions /\ WorldInv
  BY DEF Inv, SessionsInv
<1>2. sessions[s] \in Sessions
  BY <1>1, ElementOfSeq, LenProperties
<1>3. s \in Ids
  BY <1>1, LenProperties, PeersAssumption DEF Ids
<1>4. sessions[s].url \in Peer
  BY <1>2 DEF Sessions
<1> QED
  BY <1>1, <1>2, <1>3, <1>4, EndpointType, UrlsType

\* The handshake is over; nobody knows of it yet.
LEMMA EstablishStep ==
  ASSUME Inv, NEW s \in DOMAIN sessions, Establish(s)
  PROVE  Inv'
<1> DEFINE v == [sessions[s] EXCEPT !.phase = "established", !.info = "pending"]
<1>1. v \in Sessions
  BY SessionType DEF Sessions
<1>2. sessions' = [sessions EXCEPT ![s] = v]
  BY DEF Establish
<1>3. UNCHANGED <<world, nodes, notices, routes, connected_nodes, reports, requests,
                  server, listener, reachable, hasty>>
  BY DEF Establish
<1>4. reports' \in Seq(Reports)
  BY <1>3 DEF Inv, MailInv
<1> QED
  BY <1>1, <1>2, <1>3, <1>4, SessionChanged

\* The agent registers the session, even one that has ended, with the endpoint of
\* its url.
LEMMA TellAgentStep ==
  ASSUME Inv, NEW s \in DOMAIN sessions, TellAgent(s)
  PROVE  Inv'
<1> DEFINE u == sessions[s].url
           told == IF sessions[s].phase = "closed" THEN "late" ELSE "told"
           v == [sessions[s] EXCEPT !.info = told]
<1>1. v \in Sessions
  BY SessionType DEF Sessions, TellAgent
<1>2. sessions' = [sessions EXCEPT ![s] = v]
  BY DEF TellAgent
<1>3. /\ UNCHANGED <<world, nodes, notices, routes, connected_nodes, requests, server,
                     listener, reachable, hasty>>
      /\ reports' = Append(reports, CLRegisterNode(u, endpoint(u), s))
  BY DEF TellAgent
<1>4. CLRegisterNode(u, endpoint(u), s) \in Reports
  <2>1. u \in Peer /\ endpoint(u) \in Endpoints /\ s \in Ids
    BY SessionType
  <2> QED
    BY <2>1 DEF CLRegisterNode, Reports
<1>5. reports' \in Seq(Reports)
  BY <1>3, <1>4, AppendProperties DEF Inv, MailInv
<1> QED
  BY <1>1, <1>2, <1>3, <1>5, SessionChanged

\* The agent stops before it was told.
LEMMA ForceShutdownStep ==
  ASSUME Inv, NEW s \in DOMAIN sessions, ForceShutdown(s)
  PROVE  Inv'
<1> DEFINE v == [sessions[s] EXCEPT !.info = "dropped"]
<1>1. v \in Sessions
  BY SessionType DEF Sessions, ForceShutdown
<1>2. sessions' = [sessions EXCEPT ![s] = v]
  BY DEF ForceShutdown
<1>3. UNCHANGED <<world, nodes, notices, routes, connected_nodes, reports, requests,
                  server, listener, reachable, hasty>>
  BY DEF ForceShutdown
<1>4. reports' \in Seq(Reports)
  BY <1>3 DEF Inv, MailInv
<1> QED
  BY <1>1, <1>2, <1>3, <1>4, SessionChanged

\* However a session comes to end.
LEMMA EndStep ==
  ASSUME Inv, NEW s \in DOMAIN sessions, End(s)
  PROVE  Inv'
<1> DEFINE u == sessions[s].url
           v == [sessions[s] EXCEPT !.phase = "closed"]
<1>1. v \in Sessions
  BY SessionType DEF Sessions
<1>2. sessions' = [sessions EXCEPT ![s] = v]
  BY DEF End
<1>3. UNCHANGED <<world, nodes, notices, routes, connected_nodes, requests, server,
                  listener, reachable, hasty>>
  BY DEF End
<1>4. PICK n \in {None, endpoint(u)} : reports' = Append(reports, CLUnregisterNode(u, n))
  BY DEF End
<1>5. CLUnregisterNode(u, n) \in Reports
  BY SessionType, UnregisterType DEF Inv
<1>6. reports' \in Seq(Reports)
  BY <1>4, <1>5, AppendProperties DEF Inv, MailInv
<1> QED
  BY <1>1, <1>2, <1>3, <1>6, SessionChanged

\* Peers come and go.
LEMMA ChangeStep ==
  ASSUME Inv, NEW u \in world.urls \cap Configured, Change(u)
  PROVE  Inv'
<1> USE DEF Inv
<1>0. /\ UNCHANGED <<world, nodes, notices, routes, connected_nodes, reports, requests,
                     server, listener, sessions, hasty>>
      /\ reachable' \subseteq reachable \cup {u}
  BY DEF Change
<1>1. /\ NodesInv' /\ ConnectedInv' /\ MailInv' /\ ServerInv' /\ SessionsInv'
      /\ RoutesInv'
  BY <1>0, SameNodes, SameConnected, SameMail, SameServer, SameSessions, SameRoutes
<1>2. WorldInv'
  BY <1>0 DEF WorldInv
<1> QED
  BY <1>1, <1>2

-------------------------------------------------------------------------------
(* Every step *)

\* A step of something else.
LEMMA StutterStep ==
  ASSUME Inv, UNCHANGED vars
  PROVE  Inv'
BY SameWorld, SameNodes, SameConnected, SameMail, SameServer, SameSessions, SameRoutes
   DEF Inv, vars

\* Every step of the node keeps the invariant.
LEMMA NextInv == Inv /\ [Next]_vars => Inv'
<1> SUFFICES ASSUME Inv, [Next]_vars PROVE Inv'
  OBVIOUS
<1>1. ASSUME NEW u \in world.urls \cap Configured, AddNode(u) \/ Change(u) PROVE Inv'
  BY <1>1, AddNodeStep, ChangeStep
<1>2. ASSUME NEW u \in world.urls, RemoveNode(u) PROVE Inv'
  BY <1>2, RemoveNodeStep
<1>3. CASE NodeAgent \/ TryConnect
  BY <1>3, NotifyNodeConnectedStep, NotifyNodeDisconnectedStep, TryConnectStep
     DEF NodeAgent
<1>4. CASE ConvergenceAgent
  BY <1>4, RegisterNodeStep, UnregisterNodeStep DEF ConvergenceAgent
<1>5. CASE Server
  BY <1>5, UnknownSchemeStep, StartConnectStep, ConnectSucceedsStep, ConnectFailsStep,
     DisconnectStep DEF Server
<1>6. ASSUME NEW u \in world.urls \cap Incoming, NewClientConnectedOnSocket(u) PROVE Inv'
  BY <1>6, NewClientConnectedOnSocketStep
<1>7. CASE ShutdownListener
  BY <1>7, ShutdownListenerStep
<1>8. ASSUME NEW s \in DOMAIN sessions,
             Establish(s) \/ SessionAgent(s) \/ EndAsItMust(s) \/ Lose(s)
      PROVE  Inv'
  BY <1>8, EstablishStep, TellAgentStep, ForceShutdownStep, EndStep
     DEF SessionAgent, EndAsItMust, Lose
<1>9. CASE UNCHANGED vars
  BY <1>9, StutterStep
<1> QED
  BY <1>1, <1>2, <1>3, <1>4, <1>5, <1>6, <1>7, <1>8, <1>9 DEF Next

-------------------------------------------------------------------------------
(* The theorems *)

\* The invariant gives the types: a url of the world is a url, a message of the
\* kinds above is a message.
LEMMA InvTypeOK == Inv => TypeOK
<1> SUFFICES ASSUME Inv PROVE TypeOK
  OBVIOUS
<1> USE DEF Inv
<1>1. world.urls \subseteq Urls /\ Peer \subseteq Tcpcl /\ Peer \subseteq Urls
  BY UrlsType DEF Peer
<1>2. /\ DOMAIN nodes \subseteq Urls
      /\ \A u \in DOMAIN nodes :
           nodes[u] \in [connection_status : Statuses,
                         remote_endpoint : Endpoints \cup {None}, temporary : BOOLEAN]
  BY <1>1, EndpointType DEF NodesInv, NodeOf
<1>3. notices \in Seq([type : {"Connected", "Disconnected"}, url : Urls,
                       endpoint : Endpoints \cup {None}])
  <2>1. Notices \subseteq [type : {"Connected", "Disconnected"}, url : Urls,
                           endpoint : Endpoints \cup {None}]
    BY <1>1 DEF Notices
  <2> QED
    BY <2>1, SeqMonotonic DEF MailInv
<1>4. reports \in Seq([type : {"CLRegisterNode", "CLUnregisterNode"}, url : Tcpcl,
                       node : Endpoints \cup {None}, sender : Ids \cup {0}])
  <2>1. Reports \subseteq [type : {"CLRegisterNode", "CLUnregisterNode"}, url : Tcpcl,
                           node : Endpoints \cup {None}, sender : Ids \cup {0}]
    BY <1>1 DEF Reports
  <2> QED
    BY <2>1, SeqMonotonic DEF MailInv
<1>5. requests \in Seq([type : {"ConnectRemote", "DisconnectRemote"}, url : Urls])
  <2>1. Requests \subseteq [type : {"ConnectRemote", "DisconnectRemote"}, url : Urls]
    BY <1>1 DEF Requests
  <2> QED
    BY <2>1, SeqMonotonic DEF MailInv
<1>6. sessions \in Seq([url : Tcpcl, phase : {"handshake", "established", "closed"},
                        closing : BOOLEAN,
                        info : {"none", "pending", "told", "late", "dropped"}])
  <2>1. Sessions \subseteq [url : Tcpcl, phase : {"handshake", "established", "closed"},
                            closing : BOOLEAN,
                            info : {"none", "pending", "told", "late", "dropped"}]
    BY <1>1 DEF Sessions
  <2> QED
    BY <2>1, SeqMonotonic DEF SessionsInv
<1>7. DOMAIN connected_nodes \subseteq Endpoints /\ Range(connected_nodes) \subseteq Ids
  BY DEF ConnectedInv, Range
<1>8. DOMAIN sessions = 1..Len(sessions)
  BY LenProperties DEF SessionsInv
<1>9. /\ server.connecting \in Tcpcl \cup {None} /\ DOMAIN server.sessions \subseteq Tcpcl
      /\ Range(server.sessions) \subseteq DOMAIN sessions
      /\ listener \subseteq DOMAIN sessions
  BY <1>1, <1>8 DEF ServerInv, SessionsInv, Range
<1> QED
  BY <1>2, <1>3, <1>4, <1>5, <1>6, <1>7, <1>9
     DEF TypeOK, WorldInv, SessionsInv, RoutesInv

\* Type correctness of the node agent, the convergence agent, the servers and
\* the sessions, whatever is configured and however many sessions are opened.
THEOREM TypeCorrect == Spec => []TypeOK
<1>1. Inv => TypeOK
  BY InvTypeOK
<1> QED
  BY <1>1, InitInv, NextInv, PTL DEF Spec

\* The routes that the node agent has the routing agent add and remove follow
\* its list of nodes at all times: whatever order the sessions of a url end and
\* register in, no route is left behind by a node that is gone or disconnected,
\* and no node with an endpoint of its own is without its route.
THEOREM RoutesFollow == Spec => []RoutesFollowNodes
<1>1. Inv => RoutesFollowNodes
  BY DEF Inv, RoutesInv
<1> QED
  BY <1>1, InitInv, NextInv, PTL DEF Spec

-------------------------------------------------------------------------------
(* The invariant of the sessions.                                                 *)
(*                                                                                *)
(* An attempt to reach a url is a request to connect, then the connection that    *)
(* is being made, then the session.  Until the node is removed every attempt ends *)
(* in one report that it is over, which reaches the node agent as one notice; as  *)
(* long as any of these is around no other attempt is made, and the node is not   *)
(* taken to be disconnected.                                                      *)
(*                                                                                *)
(* The messages about a url stay in order through both mailboxes.  While a        *)
(* session runs, the server has it, so that a removal closes it instead of        *)
(* reporting an unknown remote: the last message about the url is the             *)
(* registration of the session.                                                   *)

Some(q, M) == \E i \in DOMAIN q : q[i] \in M
Twice(q, M) == \E i, j \in DOMAIN q : i < j /\ q[i] \in M /\ q[j] \in M

\* The last message of q that is in A is in B.
EndsIn(q, A, B) == \E i \in DOMAIN q : q[i] \in B /\ \A j \in DOMAIN q : j > i => q[j] \notin A

Live(u) == {z \in Sessions : z.url = u /\ z.phase # "closed"}
ReportsOf(u) == {m \in Reports : m.url = u}
NoticesOf(u) == {m \in Notices : m.url = u}
Unregistrations(u) == {m \in Reports : m.url = u /\ m.type = "CLUnregisterNode"}
Farewells(u) == {m \in Notices : m.url = u /\ m.type = "Disconnected"}
Registrations(u, s) ==
  {m \in Reports : /\ m.url = u /\ m.type = "CLRegisterNode"
                   /\ m.sender = s \/ Ghost(u)}
Welcomes(u) == {m \in Notices : m.url = u /\ m.type = "Connected"}

Asked(u) == Some(requests, {ConnectRemote(u)})
Connecting(u) == server.connecting = u
Alive(u) == Some(sessions, Live(u))
Over(u) == Some(reports, Unregistrations(u))
Told(u) == Some(notices, Farewells(u))

\* At most one attempt.
OneAttempt(u) ==
  /\ ~Twice(requests, {ConnectRemote(u)}) /\ ~Twice(sessions, Live(u))
  /\ Asked(u) => ~Connecting(u) /\ ~Alive(u)
  /\ Connecting(u) => ~Alive(u)

\* A node that is not being removed: at most one attempt or news of its end.
Lasting(u) == u \in DOMAIN nodes /\ ~nodes[u].temporary

OneOutcome(u) ==
  /\ ~Some(requests, {DisconnectRemote(u)})
  /\ ~Twice(reports, Unregistrations(u)) /\ ~Twice(notices, Farewells(u))
  /\ Over(u) \/ Told(u) => ~Asked(u) /\ ~Connecting(u) /\ ~Alive(u)
  /\ Over(u) => ~Told(u)
  /\ nodes[u].connection_status = "Disconnected" =>
       ~Asked(u) /\ ~Connecting(u) /\ ~Alive(u) /\ ~Over(u) /\ ~Told(u)

AttemptsInv ==
  \A u \in Configured \ hasty : OneAttempt(u) /\ (Lasting(u) => OneOutcome(u))

\* The server has every session that runs and is not being closed.
HeldInv ==
  \A s \in DOMAIN sessions :
    LET u == sessions[s].url IN
    sessions[s].phase # "closed" /\ ~sessions[s].closing /\ Regular(u)
    => u \in DOMAIN server.sessions /\ server.sessions[u] = s

Accepted(s) ==
  /\ sessions[s].phase = "established" /\ sessions[s].info = "told"
  /\ ~sessions[s].closing
  /\ Regular(sessions[s].url) /\ Sole(sessions[s].url)

Connected(u, s) ==
  /\ endpoint(u) \in DOMAIN connected_nodes
  /\ Ghost(u) \/ connected_nodes[endpoint(u)] = s

Listed(u) ==
  /\ u \in DOMAIN nodes
  /\ nodes[u].connection_status \in {"Connected", "Disconnecting"}
  /\ nodes[u].remote_endpoint = endpoint(u)

Known(u, s) ==
  \/ EndsIn(reports, ReportsOf(u), Registrations(u, s))
  \/ /\ ~Some(reports, ReportsOf(u)) /\ Connected(u, s)
     /\ \/ EndsIn(notices, NoticesOf(u), Welcomes(u))
        \/ ~Some(notices, NoticesOf(u)) /\ Listed(u)

KnownInv == \A s \in DOMAIN sessions : Accepted(s) => Known(sessions[s].url, s)

Part == AttemptsInv /\ HeldInv /\ KnownInv
SInv == Inv /\ Part

-------------------------------------------------------------------------------
(* Lemmas about queues *)

\* A message is put into a queue.
LEMMA SomeAppend ==
  ASSUME NEW S, NEW q \in Seq(S), NEW m \in S, NEW M
  PROVE  /\ Some(Append(q, m), M) <=> Some(q, M) \/ m \in M
         /\ Twice(Append(q, m), M) <=> Twice(q, M) \/ (Some(q, M) /\ m \in M)
<1>1. /\ Len(q) \in Nat /\ DOMAIN q = 1..Len(q)
      /\ DOMAIN Append(q, m) = 1..(Len(q) + 1)
      /\ \A i \in 1..Len(q) : Append(q, m)[i] = q[i]
      /\ Append(q, m)[Len(q) + 1] = m
  BY AppendProperties, LenProperties
<1>2. PICK r : r = Append(q, m)
  OBVIOUS
<1>3. PICK n : n = Len(q)
  OBVIOUS
<1>4. /\ n \in Nat /\ DOMAIN q = 1..n /\ DOMAIN r = 1..(n + 1)
      /\ \A i \in 1..n : r[i] = q[i]
      /\ r[n + 1] = m
  BY <1>1, <1>2, <1>3
<1>5. Some(r, M) <=> Some(q, M) \/ m \in M
  BY <1>4 DEF Some
<1>6. Twice(r, M) <=> Twice(q, M) \/ (Some(q, M) /\ m \in M)
  <2>1. Twice(q, M) => Twice(r, M)
    BY <1>4 DEF Twice
  <2>2. Some(q, M) /\ m \in M => Twice(r, M)
    <3> SUFFICES ASSUME NEW i \in DOMAIN q, q[i] \in M, m \in M PROVE Twice(r, M)
      BY DEF Some
    <3>1. i \in 1..(n + 1) /\ n + 1 \in 1..(n + 1) /\ i < n + 1
      BY <1>4
    <3> QED
      BY <1>4, <3>1 DEF Twice
  <2>3. Twice(r, M) => Twice(q, M) \/ (Some(q, M) /\ m \in M)
    BY <1>4 DEF Twice, Some
  <2> QED
    BY <2>1, <2>2, <2>3
<1> QED
  BY <1>2, <1>5, <1>6

\* A message is taken out of a queue.
LEMMA SomeTail ==
  ASSUME NEW S, NEW q \in Seq(S), q # <<>>, NEW M
  PROVE  /\ Some(q, M) <=> Head(q) \in M \/ Some(Tail(q), M)
         /\ Twice(q, M) <=> Twice(Tail(q), M) \/ (Head(q) \in M /\ Some(Tail(q), M))
<1>1. /\ Len(q) \in Nat /\ Len(q) # 0 /\ DOMAIN q = 1..Len(q)
      /\ DOMAIN Tail(q) = 1..(Len(q) - 1)
      /\ \A i \in 1..(Len(q) - 1) : Tail(q)[i] = q[i + 1]
      /\ Head(q) = q[1]
  BY HeadTailProperties, LenProperties, EmptySeq
<1>2. PICK r : r = Tail(q)
  OBVIOUS
<1>3. PICK n : n = Len(q)
  OBVIOUS
<1>4. /\ n \in Nat \ {0} /\ DOMAIN q = 1..n /\ DOMAIN r = 1..(n - 1)
      /\ \A i \in 1..(n - 1) : r[i] = q[i + 1]
  BY <1>1, <1>2, <1>3
<1>5. \A i \in 2..n : i - 1 \in 1..(n - 1) /\ r[i - 1] = q[i]
  BY <1>4
<1>6. Some(q, M) <=> q[1] \in M \/ Some(r, M)
  <2>1. Some(q, M) => q[1] \in M \/ Some(r, M)
    <3> SUFFICES ASSUME NEW i \in 1..n, q[i] \in M, i # 1 PROVE Some(r, M)
      BY <1>4 DEF Some
    <3> QED
      BY <1>4, <1>5 DEF Some
  <2>2. q[1] \in M => Some(q, M)
    BY <1>4 DEF Some
  <2>3. Some(r, M) => Some(q, M)
    <3> SUFFICES ASSUME NEW i \in 1..(n - 1), q[i + 1] \in M PROVE Some(q, M)
      BY <1>4 DEF Some
    <3> QED
      BY <1>4 DEF Some
  <2> QED
    BY <2>1, <2>2, <2>3
<1>7. Twice(q, M) <=> Twice(r, M) \/ (q[1] \in M /\ Some(r, M))
  <2>1. Twice(q, M) => Twice(r, M) \/ (q[1] \in M /\ Some(r, M))
    <3> SUFFICES ASSUME NEW i \in 1..n, NEW j \in 1..n, i < j, q[i] \in M, q[j] \in M
                 PROVE  Twice(r, M) \/ (q[1] \in M /\ Some(r, M))
      BY <1>4 DEF Twice
    <3>1. j - 1 \in DOMAIN r /\ r[j - 1] \in M
      BY <1>4, <1>5
    <3>2. CASE i = 1
      BY <3>1, <3>2 DEF Some
    <3>3. CASE i # 1
      <4>1. i - 1 \in DOMAIN r /\ r[i - 1] \in M /\ i - 1 < j - 1
        BY <1>4, <1>5, <3>3
      <4> QED
        BY <3>1, <4>1 DEF Twice
    <3> QED
      BY <3>2, <3>3
  <2>2. Twice(r, M) => Twice(q, M)
    <3> SUFFICES ASSUME NEW i \in 1..(n - 1), NEW j \in 1..(n - 1), i < j,
                        q[i + 1] \in M, q[j + 1] \in M
                 PROVE  Twice(q, M)
      BY <1>4 DEF Twice
    <3>1. i + 1 \in 1..n /\ j + 1 \in 1..n /\ i + 1 < j + 1
      BY <1>4
    <3> QED
      BY <1>4, <3>1 DEF Twice
  <2>3. q[1] \in M /\ Some(r, M) => Twice(q, M)
    <3> SUFFICES ASSUME NEW i \in 1..(n - 1), q[1] \in M, q[i + 1] \in M
                 PROVE  Twice(q, M)
      BY <1>4 DEF Some
    <3>1. 1 \in 1..n /\ i + 1 \in 1..n /\ 1 < i + 1
      BY <1>4
    <3> QED
      BY <1>4, <3>1 DEF Twice
  <2> QED
    BY <2>1, <2>2, <2>3
<1> QED
  BY <1>1, <1>2, <1>6, <1>7

\* Several messages are put into a queue.
LEMMA SomeConcat ==
  ASSUME NEW S, NEW q \in Seq(S), NEW r \in Seq(S), NEW M
  PROVE  /\ Some(q \o r, M) <=> Some(q, M) \/ Some(r, M)
         /\ Twice(q \o r, M) <=> Twice(q, M) \/ Twice(r, M) \/ (Some(q, M) /\ Some(r, M))
<1>1. PICK t : t = q \o r
  OBVIOUS
<1>2. PICK n : n = Len(q)
  OBVIOUS
<1>3. PICK k : k = Len(r)
  OBVIOUS
<1>4. /\ n \in Nat /\ k \in Nat /\ DOMAIN q = 1..n /\ DOMAIN r = 1..k
      /\ DOMAIN t = 1..(n + k)
      /\ \A i \in 1..(n + k) : t[i] = IF i <= n THEN q[i] ELSE r[i - n]
  BY <1>1, <1>2, <1>3, ConcatProperties, LenProperties
<1>5. /\ \A i \in 1..n : i \in DOMAIN t /\ t[i] = q[i]
      /\ \A i \in 1..k : n + i \in DOMAIN t /\ t[n + i] = r[i]
      /\ \A i \in DOMAIN t : i \in 1..n \/ (i - n \in 1..k /\ i = n + (i - n))
  <2>1. ASSUME NEW i \in 1..n
        PROVE  i \in DOMAIN t /\ t[i] = q[i]
    <3>1. i \in 1..(n + k) /\ i <= n
      BY <1>4
    <3> QED
      BY <1>4, <3>1
  <2>2. ASSUME NEW i \in 1..k
        PROVE  n + i \in DOMAIN t /\ t[n + i] = r[i]
    <3>1. n + i \in 1..(n + k) /\ ~(n + i <= n) /\ (n + i) - n = i
      BY <1>4
    <3> QED
      BY <1>4, <3>1
  <2>3. ASSUME NEW i \in DOMAIN t
        PROVE  i \in 1..n \/ (i - n \in 1..k /\ i = n + (i - n))
    BY <1>4
  <2> QED
    BY <2>1, <2>2, <2>3
<1>6. Some(t, M) <=> Some(q, M) \/ Some(r, M)
  BY <1>4, <1>5 DEF Some
<1>7. Twice(q, M) => Twice(t, M)
  BY <1>4, <1>5 DEF Twice
<1>8. Twice(r, M) => Twice(t, M)
  <2> SUFFICES ASSUME NEW i \in 1..k, NEW j \in 1..k, i < j, r[i] \in M, r[j] \in M
               PROVE  Twice(t, M)
    BY <1>4 DEF Twice
  <2>1. n + i < n + j
    BY <1>4
  <2> QED
    BY <1>5, <2>1 DEF Twice
<1>9. Some(q, M) /\ Some(r, M) => Twice(t, M)
  <2> SUFFICES ASSUME NEW i \in 1..n, NEW j \in 1..k, q[i] \in M, r[j] \in M
               PROVE  Twice(t, M)
    BY <1>4 DEF Some
  <2>1. i < n + j
    BY <1>4
  <2> QED
    BY <1>5, <2>1 DEF Twice
<1>10. Twice(t, M) => Twice(q, M) \/ Twice(r, M) \/ (Some(q, M) /\ Some(r, M))
  <2> SUFFICES ASSUME NEW i \in DOMAIN t, NEW j \in DOMAIN t, i < j,
                      t[i] \in M, t[j] \in M
               PROVE  Twice(q, M) \/ Twice(r, M) \/ (Some(q, M) /\ Some(r, M))
    BY DEF Twice
  <2>1. CASE j \in 1..n
    <3>1. i \in 1..n
      BY <1>4, <2>1
    <3> QED
      BY <1>4, <1>5, <2>1, <3>1 DEF Twice
  <2>2. CASE j \notin 1..n /\ i \in 1..n
    <3>1. q[i] \in M /\ r[j - n] \in M /\ j - n \in 1..k
      BY <1>4, <1>5, <2>2
    <3> QED
      BY <1>4, <2>2, <3>1 DEF Some
  <2>3. CASE i \notin 1..n
    <3>1. /\ i - n \in 1..k /\ j - n \in 1..k /\ i - n < j - n
          /\ t[i] = r[i - n] /\ t[j] = r[j - n]
      BY <1>4, <1>5, <2>3
    <3> QED
      BY <1>4, <3>1 DEF Twice
  <2> QED
    BY <2>1, <2>2, <2>3
<1> QED
  BY <1>1, <1>6, <1>7, <1>8, <1>9, <1>10

\* Elements of a queue change, but none becomes or ceases to be one of M.
LEMMA SomeSame ==
  ASSUME NEW q, NEW r, NEW M, NEW N, DOMAIN r = DOMAIN q,
         \A i \in DOMAIN q : r[i] \in M <=> q[i] \in N
  PROVE  (Some(r, M) <=> Some(q, N)) /\ (Twice(r, M) <=> Twice(q, N))
BY DEF Some, Twice

\* The last message about something, when another message comes.
LEMMA EndsAppend ==
  ASSUME NEW S, NEW q \in Seq(S), NEW m \in S, NEW A, NEW B
  PROVE  /\ m \notin A /\ EndsIn(q, A, B) => EndsIn(Append(q, m), A, B)
         /\ m \in B => EndsIn(Append(q, m), A, B)
<1>1. PICK r : r = Append(q, m)
  OBVIOUS
<1>2. PICK n : n = Len(q)
  OBVIOUS
<1>3. /\ n \in Nat /\ DOMAIN q = 1..n /\ DOMAIN r = 1..(n + 1)
      /\ \A i \in 1..n : r[i] = q[i]
      /\ r[n + 1] = m
  BY <1>1, <1>2, AppendProperties, LenProperties
<1>4. m \notin A /\ EndsIn(q, A, B) => EndsIn(r, A, B)
  BY <1>3 DEF EndsIn
<1>5. m \in B => EndsIn(r, A, B)
  <2>1. n + 1 \in DOMAIN r /\ \A j \in DOMAIN r : ~(j > n + 1)
    BY <1>3
  <2> QED
    BY <1>3, <2>1 DEF EndsIn
<1> QED
  BY <1>1, <1>4, <1>5

\* The last message about something, when the queue is read.
LEMMA EndsTail ==
  ASSUME NEW S, NEW q \in Seq(S), q # <<>>, NEW A, NEW B, EndsIn(q, A, B)
  PROVE  EndsIn(Tail(q), A, B) \/ (Head(q) \in B /\ ~Some(Tail(q), A))
<1>1. PICK r : r = Tail(q)
  OBVIOUS
<1>2. PICK n : n = Len(q)
  OBVIOUS
<1>3. /\ n \in Nat /\ n # 0 /\ DOMAIN q = 1..n /\ DOMAIN r = 1..(n - 1)
      /\ \A i \in 1..(n - 1) : r[i] = q[i + 1]
      /\ Head(q) = q[1]
  BY <1>1, <1>2, HeadTailProperties, LenProperties, EmptySeq
<1>4. PICK i \in 1..n : q[i] \in B /\ \A j \in 1..n : j > i => q[j] \notin A
  BY <1>3 DEF EndsIn
<1>5. CASE i = 1
  <2>1. \A j \in DOMAIN r : r[j] \notin A
    BY <1>3, <1>4, <1>5
  <2> QED
    BY <1>1, <1>3, <1>4, <1>5, <2>1 DEF Some
<1>6. CASE i # 1
  <2>1. i - 1 \in DOMAIN r /\ r[i - 1] = q[i]
    BY <1>3, <1>6
  <2>2. ASSUME NEW j \in DOMAIN r, j > i - 1 PROVE r[j] \notin A
    BY <1>3, <1>4, <2>2
  <2> QED
    BY <1>1, <1>4, <2>1, <2>2 DEF EndsIn
<1> QED
  BY <1>5, <1>6

\* The last message about something is of a wider kind as well.
LEMMA EndsWider ==
  ASSUME NEW q, NEW A, NEW B, NEW C, B \subseteq C, EndsIn(q, A, B)
  PROVE  EndsIn(q, A, C)
BY DEF EndsIn

-------------------------------------------------------------------------------
(* What depends on the world only, and the types *)

\* The kinds of messages about a url.
LEMMA SameKinds ==
  ASSUME UNCHANGED world, NEW u
  PROVE  /\ Live(u)' = Live(u) /\ Unregistrations(u)' = Unregistrations(u)
         /\ Farewells(u)' = Farewells(u) /\ Welcomes(u)' = Welcomes(u)
         /\ ReportsOf(u)' = ReportsOf(u) /\ NoticesOf(u)' = NoticesOf(u)
         /\ endpoint(u)' = endpoint(u) /\ Sole(u)' = Sole(u)
BY SameMessages DEF Live, Unregistrations, Farewells, Welcomes, ReportsOf, NoticesOf,
                    endpoint, Sole

\* The queues are sequences of messages.
LEMMA Queues ==
  ASSUME SInv
  PROVE  /\ requests \in Seq(Requests) /\ reports \in Seq(Reports)
         /\ notices \in Seq(Notices) /\ sessions \in Seq(Sessions)
BY DEF SInv, Inv, MailInv, SessionsInv

\* Every session is one of its kind.
LEMMA EachSession ==
  ASSUME SInv
  PROVE  \A s \in DOMAIN sessions : sessions[s] \in Sessions
BY SessionType DEF SInv

-------------------------------------------------------------------------------
(* Parts that a step leaves alone *)

\* No attempt changes, and nodes that are not being removed keep their status.
LEMMA SameAttempts ==
  ASSUME AttemptsInv, UNCHANGED <<world, notices, reports, requests, server, sessions>>,
         hasty \subseteq hasty',
         \A u \in DOMAIN nodes' : ~nodes'[u].temporary =>
           /\ u \in DOMAIN nodes /\ ~nodes[u].temporary
           /\ nodes'[u].connection_status = "Disconnected" =>
                nodes[u].connection_status = "Disconnected"
  PROVE  AttemptsInv'
<1> SUFFICES ASSUME NEW u \in Configured \ hasty'
             PROVE  OneAttempt(u)' /\ (Lasting(u)' => OneOutcome(u)')
  BY DEF AttemptsInv
<1>1. OneAttempt(u) /\ (Lasting(u) => OneOutcome(u))
  BY DEF AttemptsInv
<1>2. OneAttempt(u)'
  BY <1>1, SameKinds DEF OneAttempt, Asked, Connecting, Alive
<1>3. ASSUME Lasting(u)' PROVE OneOutcome(u)'
  <2>1. OneOutcome(u)
    BY <1>1, <1>3 DEF Lasting
  <2> QED
    BY <1>3, <2>1, SameKinds DEF OneOutcome, Lasting, Asked, Connecting, Alive, Over, Told
<1> QED
  BY <1>2, <1>3

\* Neither the sessions nor the server's hold on them change.
LEMMA SameHeld ==
  ASSUME HeldInv, UNCHANGED <<sessions, server>>, hasty \subseteq hasty'
  PROVE  HeldInv'
BY DEF HeldInv, Regular

\* A session stays known when no message is read or sent and nothing is forgotten.
LEMMA StillKnown ==
  ASSUME NEW u, NEW s, Known(u, s),
         UNCHANGED <<world, reports, notices, connected_nodes>>,
         Ghost(u) => Ghost(u)', Listed(u) => Listed(u)'
  PROVE  Known(u, s)'
<1>1. Registrations(u, s) \subseteq Registrations(u, s)'
  BY SameMessages DEF Registrations
<1>2. Connected(u, s) => Connected(u, s)'
  BY SameKinds DEF Connected
<1>3. EndsIn(reports, ReportsOf(u), Registrations(u, s)) =>
        EndsIn(reports, ReportsOf(u), Registrations(u, s)')
  BY <1>1, EndsWider
<1> QED
  BY <1>2, <1>3, SameKinds DEF Known

\* No session changes and every one stays known.
LEMMA SameKnown ==
  ASSUME KnownInv, UNCHANGED <<world, reports, notices, connected_nodes, sessions>>,
         hasty \subseteq hasty',
         \A u : Listed(u) => Listed(u)'
  PROVE  KnownInv'
<1> SUFFICES ASSUME NEW s \in DOMAIN sessions, Accepted(s)'
             PROVE  Known(sessions[s].url, s)'
  BY DEF KnownInv
<1>1. Accepted(s)
  BY SameKinds DEF Accepted, Regular
<1>2. Known(sessions[s].url, s)
  BY <1>1 DEF KnownInv
<1>3. \A u : Ghost(u) => Ghost(u)'
  BY DEF Ghost
<1>4. PICK u : u = sessions[s].url
  OBVIOUS
<1>5. Known(u, s)'
  BY <1>2, <1>3, <1>4, StillKnown
<1>6. UNCHANGED sessions
  OBVIOUS
<1> QED
  BY <1>4, <1>5, <1>6

-------------------------------------------------------------------------------
(* The initial states *)

\* Nothing is there yet.
LEMMA InitPart == Init => Part
<1> SUFFICES ASSUME Init PROVE Part
  OBVIOUS
<1>1. /\ notices = <<>> /\ reports = <<>> /\ requests = <<>> /\ sessions = <<>>
      /\ server.connecting = None /\ nodes = <<>>
  BY DEF Init
<1>2. \A u \in Configured : u # None
  BY PeersAssumption DEF Urls
<1>3. AttemptsInv
  BY <1>1, <1>2 DEF AttemptsInv, OneAttempt, Lasting, Asked, Connecting, Some, Twice
<1>4. HeldInv /\ KnownInv
  BY <1>1 DEF HeldInv, KnownInv
<1> QED
  BY <1>3, <1>4 DEF Part

-------------------------------------------------------------------------------
(* The node agent *)

\* AddNode: an attempt starts; nothing is under way, or the url is hasty.
LEMMA AddNodeStarts ==
  ASSUME SInv, NEW v \in world.urls \cap Configured, AddNode(v)
  PROVE  Part'
<1> USE DEF SInv, Part
<1>0. UNCHANGED <<world, notices, routes, connected_nodes, reports, server, listener,
                  sessions, reachable>>
  BY DEF AddNode
<1>1. CASE v \in DOMAIN nodes
  <2>1. UNCHANGED <<nodes, requests, hasty>>
    BY <1>1 DEF AddNode
  <2> QED
    BY <1>0, <2>1, SameAttempts, SameHeld, SameKnown, SameKinds DEF Listed
<1>2. CASE v \notin DOMAIN nodes
  <2>1. /\ nodes' = With(nodes, v, Node("Connecting", None, FALSE))
        /\ requests' = Append(requests, ConnectRemote(v))
        /\ hasty' = IF Unsettled(v) THEN hasty \cup {v} ELSE hasty
    BY <1>2 DEF AddNode
  <2>2. /\ DOMAIN nodes' = DOMAIN nodes \cup {v}
        /\ nodes'[v].connection_status = "Connecting"
        /\ \A u \in DOMAIN nodes : nodes'[u] = nodes[u]
    BY <1>2, <2>1 DEF With, Node
  <2>3. hasty \subseteq hasty'
    BY <2>1
  <2>4. HeldInv'
    BY <1>0, <2>3, SameHeld
  <2>5. KnownInv'
    <3>1. \A u : Listed(u) => Listed(u)'
      BY <1>0, <1>2, <2>2, SameKinds DEF Listed
    <3> QED
      BY <1>0, <2>3, <3>1, SameKnown
  <2>6. ConnectRemote(v) \in Requests
    BY DEF ConnectRemote, Requests
  <2>7. ASSUME NEW u \in Configured \ hasty'
        PROVE  OneAttempt(u)' /\ (Lasting(u)' => OneOutcome(u)')
    <3>0. OneAttempt(u) /\ (Lasting(u) => OneOutcome(u))
      BY <2>3, <2>7 DEF AttemptsInv
    <3>1. /\ Asked(u)' <=> Asked(u) \/ u = v
          /\ Twice(requests', {ConnectRemote(u)}) <=>
               Twice(requests, {ConnectRemote(u)}) \/ (Asked(u) /\ u = v)
          /\ Some(requests', {DisconnectRemote(u)}) <=>
               Some(requests, {DisconnectRemote(u)})
      <4>1. ConnectRemote(v) \in {ConnectRemote(u)} <=> u = v
        BY DEF ConnectRemote
      <4>2. ConnectRemote(v) \notin {DisconnectRemote(u)}
        BY DEF ConnectRemote, DisconnectRemote
      <4> QED
        BY <2>1, <2>6, <4>1, <4>2, Queues, SomeAppend DEF Asked
    <3>2. /\ Connecting(u)' = Connecting(u) /\ Alive(u)' = Alive(u)
          /\ Over(u)' = Over(u) /\ Told(u)' = Told(u)
          /\ Twice(sessions, Live(u))' = Twice(sessions, Live(u))
          /\ Twice(reports, Unregistrations(u))' = Twice(reports, Unregistrations(u))
          /\ Twice(notices, Farewells(u))' = Twice(notices, Farewells(u))
      BY <1>0, SameKinds DEF Connecting, Alive, Over, Told
    <3>3. CASE u # v
      BY <2>2, <3>0, <3>1, <3>2, <3>3 DEF OneAttempt, OneOutcome, Lasting
    <3>4. CASE u = v
      <4>1. ~Unsettled(v)
        BY <2>1, <2>7, <3>4
      <4>2. ~Asked(v) /\ ~Some(requests, {DisconnectRemote(v)})
        BY <4>1 DEF Unsettled, Asked, Some, ConnectRemote, DisconnectRemote, Range
      <4>3. /\ \A i \in DOMAIN reports : reports[i].url # v
            /\ \A i \in DOMAIN notices : notices[i].url # v
            /\ \A i \in DOMAIN sessions :
                 sessions[i].url = v => sessions[i].phase = "closed"
        BY <4>1 DEF Unsettled, Range
      <4>4. /\ ~Over(v) /\ ~Twice(reports, Unregistrations(v))
            /\ ~Told(v) /\ ~Twice(notices, Farewells(v))
            /\ ~Alive(v)
        BY <4>3 DEF Over, Told, Alive, Some, Twice, Unregistrations, Farewells, Live
      <4>5. ~Connecting(v)
        BY <4>1 DEF Unsettled, Connecting
      <4> QED
        BY <2>2, <3>0, <3>1, <3>2, <3>4, <4>2, <4>4, <4>5 DEF OneAttempt, OneOutcome
    <3> QED
      BY <3>3, <3>4
  <2>8. AttemptsInv'
    BY <2>7 DEF AttemptsInv
  <2> QED
    BY <2>4, <2>5, <2>8
<1> QED
  BY <1>1, <1>2

\* RemoveNode: the node no longer lasts.
LEMMA RemoveNodeStarts ==
  ASSUME SInv, NEW v \in world.urls, RemoveNode(v)
  PROVE  Part'
<1> USE DEF SInv, Part
<1>0. /\ UNCHANGED <<world, notices, routes, connected_nodes, reports, server, listener,
                     sessions, reachable, hasty>>
      /\ v \in DOMAIN nodes
      /\ nodes' = [nodes EXCEPT ![v].temporary = TRUE,
                                ![v].connection_status = "Disconnecting"]
      /\ requests' = Append(requests, DisconnectRemote(v))
  BY DEF RemoveNode
<1>1. /\ DOMAIN nodes' = DOMAIN nodes
      /\ \A u \in DOMAIN nodes : u # v => nodes'[u] = nodes[u]
      /\ nodes'[v].temporary = TRUE /\ nodes'[v].connection_status = "Disconnecting"
      /\ nodes'[v].remote_endpoint = nodes[v].remote_endpoint
  <2>1. nodes[v] \in NodeOf(v)
    BY <1>0 DEF Inv, NodesInv
  <2> QED
    BY <1>0, <2>1 DEF NodeOf
<1>2. HeldInv'
  BY <1>0, SameHeld
<1>3. KnownInv'
  <2>1. \A u : Listed(u) => Listed(u)'
    BY <1>0, <1>1, SameKinds DEF Listed
  <2> QED
    BY <1>0, <2>1, SameKnown
<1>4. DisconnectRemote(v) \in Requests
  BY DEF DisconnectRemote, Requests
<1>5. ASSUME NEW u \in Configured \ hasty'
      PROVE  OneAttempt(u)' /\ (Lasting(u)' => OneOutcome(u)')
  <2>0. OneAttempt(u) /\ (Lasting(u) => OneOutcome(u))
    BY <1>0, <1>5 DEF AttemptsInv
  <2>1. /\ Asked(u)' <=> Asked(u)
        /\ Twice(requests', {ConnectRemote(u)}) <=> Twice(requests, {ConnectRemote(u)})
        /\ Some(requests', {DisconnectRemote(u)}) <=>
             Some(requests, {DisconnectRemote(u)}) \/ u = v
    <3>1. DisconnectRemote(v) \in {DisconnectRemote(u)} <=> u = v
      BY DEF DisconnectRemote
    <3>2. DisconnectRemote(v) \notin {ConnectRemote(u)}
      BY DEF ConnectRemote, DisconnectRemote
    <3> QED
      BY <1>0, <1>4, <3>1, <3>2, Queues, SomeAppend DEF Asked
  <2>2. /\ Connecting(u)' = Connecting(u) /\ Alive(u)' = Alive(u)
        /\ Over(u)' = Over(u) /\ Told(u)' = Told(u)
        /\ Twice(sessions, Live(u))' = Twice(sessions, Live(u))
        /\ Twice(reports, Unregistrations(u))' = Twice(reports, Unregistrations(u))
        /\ Twice(notices, Farewells(u))' = Twice(notices, Farewells(u))
    BY <1>0, SameKinds DEF Connecting, Alive, Over, Told
  <2> QED
    BY <1>1, <2>0, <2>1, <2>2 DEF OneAttempt, OneOutcome, Lasting
<1>6. AttemptsInv'
  BY <1>5 DEF AttemptsInv
<1> QED
  BY <1>2, <1>3, <1>6

\* The message at the head of a mailbox, and the others.
LEMMA NextNotice ==
  ASSUME SInv, notices # <<>>, NEW M
  PROVE  /\ Head(notices) \in Notices
         /\ Some(notices, M) <=> Head(notices) \in M \/ Some(Tail(notices), M)
         /\ Twice(notices, M) <=>
              \/ Twice(Tail(notices), M)
              \/ Head(notices) \in M /\ Some(Tail(notices), M)
BY Queues, SomeTail, NoticeType DEF SInv

\* NotifyNodeConnected: a node that lasts did so before, and is connected now.
LEMMA ConnectedNotice ==
  ASSUME SInv, NotifyNodeConnected
  PROVE  Part'
<1> USE DEF SInv, Part
<1>0. PICK v, n :
      /\ v = Head(notices).url /\ n = Head(notices).endpoint
      /\ UNCHANGED <<world, connected_nodes, reports, requests, server, listener,
                     sessions, reachable, hasty>>
      /\ notices # <<>> /\ Head(notices).type = "Connected"
      /\ nodes' = IF v \in DOMAIN nodes
                  THEN [nodes EXCEPT ![v].connection_status = "Connected",
                                     ![v].remote_endpoint = n]
                  ELSE With(nodes, v, Node("Connected", n, TRUE))
      /\ notices' = Tail(notices)
  BY DEF NotifyNodeConnected
<1>1. Head(notices) \in Notices /\ n = endpoint(v)
  BY <1>0, NextNotice DEF Notices
<1>2. /\ DOMAIN nodes' = DOMAIN nodes \cup {v}
      /\ \A u \in DOMAIN nodes : u # v => nodes'[u] = nodes[u]
      /\ nodes'[v].connection_status = "Connected"
      /\ nodes'[v].remote_endpoint = n
      /\ ~nodes'[v].temporary => v \in DOMAIN nodes /\ ~nodes[v].temporary
  <2>1. CASE v \in DOMAIN nodes
    <3>1. nodes[v] \in NodeOf(v)
      BY <2>1 DEF Inv, NodesInv
    <3>2. nodes' = [nodes EXCEPT ![v].connection_status = "Connected",
                                 ![v].remote_endpoint = n]
      BY <1>0, <2>1
    <3> QED
      BY <2>1, <3>1, <3>2 DEF NodeOf
  <2>2. CASE v \notin DOMAIN nodes
    <3>1. nodes' = With(nodes, v, Node("Connected", n, TRUE))
      BY <1>0, <2>2
    <3> QED
      BY <2>2, <3>1 DEF With, Node
  <2> QED
    BY <2>1, <2>2
<1>3. HeldInv'
  BY <1>0, SameHeld
<1>4. ASSUME NEW u \in Configured \ hasty'
      PROVE  OneAttempt(u)' /\ (Lasting(u)' => OneOutcome(u)')
  <2>0. OneAttempt(u) /\ (Lasting(u) => OneOutcome(u))
    BY <1>0, <1>4 DEF AttemptsInv
  <2>1. Head(notices) \notin Farewells(u)
    BY <1>0 DEF Farewells
  <2>2. /\ Told(u)' <=> Told(u)
        /\ Twice(notices, Farewells(u))' <=> Twice(notices, Farewells(u))
    BY <1>0, <2>1, NextNotice, SameKinds DEF Told
  <2>3. /\ Connecting(u)' = Connecting(u) /\ Alive(u)' = Alive(u)
        /\ Over(u)' = Over(u) /\ Asked(u)' = Asked(u)
        /\ Twice(sessions, Live(u))' = Twice(sessions, Live(u))
        /\ Twice(reports, Unregistrations(u))' = Twice(reports, Unregistrations(u))
    BY <1>0, SameKinds DEF Connecting, Alive, Over, Asked
  <2>4. Lasting(u)' =>
          /\ Lasting(u)
          /\ nodes'[u].connection_status = "Disconnected" =>
               nodes[u].connection_status = "Disconnected"
    BY <1>2 DEF Lasting
  <2>5. OneAttempt(u)'
    BY <1>0, <2>0, <2>3 DEF OneAttempt
  <2>6. UNCHANGED requests
    BY <1>0
  <2>7. Lasting(u)' => OneOutcome(u)'
    BY <2>0, <2>2, <2>3, <2>4, <2>6 DEF OneOutcome
  <2> QED
    BY <2>5, <2>7
<1>5. AttemptsInv'
  BY <1>4 DEF AttemptsInv
<1>6. ASSUME NEW s \in DOMAIN sessions, NEW u, u = sessions[s].url, Accepted(s)'
      PROVE  Known(u, s)'
  <2>1. Accepted(s)
    BY <1>0, <1>6, SameKinds DEF Accepted, Regular
  <2>2. Known(u, s)
    BY <1>6, <2>1 DEF KnownInv
  <2>3. /\ Registrations(u, s)' = Registrations(u, s)
        /\ Connected(u, s)' = Connected(u, s)
    BY <1>0, SameMessages, SameKinds DEF Registrations, Connected, Ghost
  <2>4. CASE EndsIn(reports, ReportsOf(u), Registrations(u, s))
    BY <1>0, <2>3, <2>4, SameKinds DEF Known
  <2>5. CASE ~Some(reports, ReportsOf(u)) /\ Connected(u, s)
    <3>1. CASE EndsIn(notices, NoticesOf(u), Welcomes(u))
      <4>1. \/ EndsIn(notices', NoticesOf(u), Welcomes(u))
            \/ Head(notices) \in Welcomes(u) /\ ~Some(notices', NoticesOf(u))
        BY <1>0, <3>1, Queues, EndsTail
      <4>2. Head(notices) \in Welcomes(u) => u = v
        BY <1>0 DEF Welcomes
      <4>3. Listed(v)'
        <5>1. endpoint(v)' = endpoint(v)
          BY <1>0, SameKinds
        <5> QED
          BY <1>1, <1>2, <5>1 DEF Listed
      <4> QED
        BY <1>0, <2>3, <2>5, <4>1, <4>2, <4>3, SameKinds DEF Known
    <3>2. CASE ~Some(notices, NoticesOf(u)) /\ Listed(u)
      <4>1. Head(notices) \notin NoticesOf(u) /\ ~Some(notices', NoticesOf(u))
        BY <1>0, <3>2, NextNotice
      <4>2. u # v
        BY <1>0, <1>1, <4>1 DEF NoticesOf
      <4>3. Listed(u)'
        BY <1>0, <1>2, <3>2, <4>2, SameKinds DEF Listed
      <4> QED
        BY <1>0, <2>3, <2>5, <4>1, <4>3, SameKinds DEF Known
    <3> QED
      BY <2>2, <2>4, <2>5, <3>1, <3>2 DEF Known
  <2> QED
    BY <2>2, <2>4, <2>5 DEF Known
<1>7. KnownInv'
  BY <1>0, <1>6 DEF KnownInv
<1> QED
  BY <1>3, <1>5, <1>7

\* NotifyNodeDisconnected: the attempt of a node that lasts is over, and nothing of
\* it is left.
LEMMA DisconnectedNotice ==
  ASSUME SInv, NotifyNodeDisconnected
  PROVE  Part'
<1> USE DEF SInv, Part
<1>0. PICK v :
      /\ v = Head(notices).url
      /\ UNCHANGED <<world, connected_nodes, reports, requests, server, listener,
                     sessions, reachable, hasty>>
      /\ notices # <<>> /\ Head(notices).type = "Disconnected"
      /\ IF v \notin DOMAIN nodes THEN UNCHANGED nodes
         ELSE nodes' = IF nodes[v].temporary THEN Without(nodes, v)
                       ELSE [nodes EXCEPT ![v].connection_status = "Disconnected",
                                          ![v].remote_endpoint = None]
      /\ notices' = Tail(notices)
  BY DEF NotifyNodeDisconnected
<1>1. Head(notices) \in Notices
  BY <1>0, NextNotice
<1>2. /\ DOMAIN nodes' \subseteq DOMAIN nodes
      /\ \A u \in DOMAIN nodes : u # v => u \in DOMAIN nodes' /\ nodes'[u] = nodes[u]
      /\ v \in DOMAIN nodes' => ~nodes[v].temporary
  <2>1. CASE v \notin DOMAIN nodes
    BY <1>0, <2>1
  <2>2. CASE v \in DOMAIN nodes /\ nodes[v].temporary
    <3>1. nodes' = Without(nodes, v)
      BY <1>0, <2>2
    <3> QED
      BY <3>1 DEF Without
  <2>3. CASE v \in DOMAIN nodes /\ ~nodes[v].temporary
    <3>1. nodes' = [nodes EXCEPT ![v].connection_status = "Disconnected",
                                 ![v].remote_endpoint = None]
      BY <1>0, <2>3
    <3> QED
      BY <2>3, <3>1
  <2> QED
    BY <2>1, <2>2, <2>3
<1>3. HeldInv'
  BY <1>0, SameHeld
<1>4. ASSUME NEW u \in Configured \ hasty'
      PROVE  OneAttempt(u)' /\ (Lasting(u)' => OneOutcome(u)')
  <2>0. OneAttempt(u) /\ (Lasting(u) => OneOutcome(u))
    BY <1>0, <1>4 DEF AttemptsInv
  <2>1. Head(notices) \in Farewells(u) <=> u = v
    BY <1>0, <1>1 DEF Farewells
  <2>2. /\ Told(u) <=> u = v \/ Told(u)'
        /\ Twice(notices, Farewells(u)) <=>
             Twice(notices, Farewells(u))' \/ (u = v /\ Told(u)')
    BY <1>0, <2>1, NextNotice, SameKinds DEF Told
  <2>3. /\ Connecting(u)' = Connecting(u) /\ Alive(u)' = Alive(u)
        /\ Over(u)' = Over(u) /\ Asked(u)' = Asked(u)
        /\ Twice(sessions, Live(u))' = Twice(sessions, Live(u))
        /\ Twice(reports, Unregistrations(u))' = Twice(reports, Unregistrations(u))
    BY <1>0, SameKinds DEF Connecting, Alive, Over, Asked
  <2>4. Lasting(u)' => Lasting(u)
    BY <1>2 DEF Lasting
  <2>5. u # v /\ Lasting(u)' => nodes'[u] = nodes[u]
    BY <1>2 DEF Lasting
  <2>6. OneAttempt(u)'
    BY <1>0, <2>0, <2>3 DEF OneAttempt
  <2>7. ASSUME Lasting(u)' PROVE OneOutcome(u)'
    <3>1. OneOutcome(u)
      BY <2>0, <2>4, <2>7
    <3>2. CASE u = v
      BY <1>0, <2>2, <2>3, <3>1, <3>2 DEF OneOutcome
    <3>3. CASE u # v
      BY <1>0, <2>2, <2>3, <2>5, <2>7, <3>1, <3>3 DEF OneOutcome
    <3> QED
      BY <3>2, <3>3
  <2> QED
    BY <2>6, <2>7
<1>5. AttemptsInv'
  BY <1>4 DEF AttemptsInv
<1>6. ASSUME NEW s \in DOMAIN sessions, NEW u, u = sessions[s].url, Accepted(s)'
      PROVE  Known(u, s)'
  <2>1. Accepted(s)
    BY <1>0, <1>6, SameKinds DEF Accepted, Regular
  <2>2. Known(u, s)
    BY <1>6, <2>1 DEF KnownInv
  <2>3. /\ Registrations(u, s)' = Registrations(u, s)
        /\ Connected(u, s)' = Connected(u, s)
    BY <1>0, SameMessages, SameKinds DEF Registrations, Connected, Ghost
  <2>4. EndsIn(notices, NoticesOf(u), Welcomes(u)) =>
          EndsIn(notices', NoticesOf(u), Welcomes(u))
    <3>1. Head(notices) \notin Welcomes(u)
      BY <1>0 DEF Welcomes
    <3> QED
      BY <1>0, <3>1, Queues, EndsTail
  <2>5. ~Some(notices, NoticesOf(u)) /\ Listed(u) =>
          ~Some(notices', NoticesOf(u)) /\ Listed(u)'
    <3> SUFFICES ASSUME ~Some(notices, NoticesOf(u)), Listed(u)
                 PROVE  ~Some(notices', NoticesOf(u)) /\ Listed(u)'
      OBVIOUS
    <3>1. Head(notices) \notin NoticesOf(u) /\ ~Some(notices', NoticesOf(u))
      BY <1>0, NextNotice
    <3>2. u # v
      BY <1>0, <1>1, <3>1 DEF NoticesOf
    <3> QED
      BY <1>0, <1>2, <3>1, <3>2, SameKinds DEF Listed
  <2> QED
    BY <1>0, <2>2, <2>3, <2>4, <2>5, SameKinds DEF Known
<1>7. KnownInv'
  BY <1>0, <1>6 DEF KnownInv
<1> QED
  BY <1>3, <1>5, <1>7

\* TryConnect: one attempt for every node that is due, of which none was left.
LEMMA TryConnectStarts ==
  ASSUME SInv, TryConnect
  PROVE  Part'
<1> USE DEF SInv, Part
<1>0. /\ UNCHANGED <<world, notices, routes, connected_nodes, reports, server, listener,
                     sessions, reachable, hasty>>
      /\ nodes' = [u \in DOMAIN nodes |->
                     IF u \in Due THEN [nodes[u] EXCEPT !.connection_status = "Connecting"]
                                  ELSE nodes[u]]
  BY DEF TryConnect
<1>1. /\ DOMAIN nodes' = DOMAIN nodes
      /\ \A u \in DOMAIN nodes \ Due : nodes'[u] = nodes[u]
      /\ \A u \in Due : /\ u \in DOMAIN nodes
                        /\ ~nodes[u].temporary /\ nodes[u].connection_status = "Disconnected"
                        /\ nodes'[u].connection_status = "Connecting"
  <2>1. \A u \in Due : nodes[u] \in NodeOf(u)
    BY DEF Due, Inv, NodesInv
  <2> QED
    BY <1>0, <2>1 DEF Due, NodeOf
<1>2. PICK order \in SetToSeqs(Due) :
        requests' = requests \o [i \in DOMAIN order |-> ConnectRemote(order[i])]
  BY DEF TryConnect
<1>3. PICK n : n = Cardinality(Due)
  OBVIOUS
<1>4. IsFiniteSet(Due) /\ n \in Nat
  BY <1>1, <1>3, FS_Subset, FS_CardinalityType DEF Inv, NodesInv
<1>5. order \in [1..n -> Due] /\ \A i, j \in 1..n : i # j => order[i] # order[j]
  BY <1>3 DEF SetToSeqs
<1>6. PICK mail : mail = [i \in DOMAIN order |-> ConnectRemote(order[i])]
  OBVIOUS
<1>7. mail \in [1..n -> Requests] /\ \A i \in 1..n : mail[i] = ConnectRemote(order[i])
  BY <1>1, <1>5, <1>6 DEF ConnectRemote, Requests, Inv, NodesInv
<1>8. mail \in Seq(Requests) /\ DOMAIN mail = 1..n
  BY <1>4, <1>7, SeqDef
<1>9. \A u : /\ Some(mail, {ConnectRemote(u)}) => u \in Due
             /\ ~Twice(mail, {ConnectRemote(u)})
             /\ ~Some(mail, {DisconnectRemote(u)})
  <2> SUFFICES ASSUME NEW u
               PROVE  /\ Some(mail, {ConnectRemote(u)}) => u \in Due
                      /\ ~Twice(mail, {ConnectRemote(u)})
                      /\ ~Some(mail, {DisconnectRemote(u)})
    OBVIOUS
  <2>1. \A i \in 1..n : /\ mail[i] = ConnectRemote(u) <=> order[i] = u
                        /\ mail[i] # DisconnectRemote(u)
                        /\ order[i] \in Due
    BY <1>5, <1>7 DEF ConnectRemote, DisconnectRemote
  <2>2. ~Twice(mail, {ConnectRemote(u)})
    BY <1>4, <1>5, <1>8, <2>1 DEF Twice
  <2> QED
    BY <1>8, <2>1, <2>2 DEF Some
<1>10. HeldInv'
  BY <1>0, SameHeld
<1>11. KnownInv'
  <2>1. \A u : Listed(u) => Listed(u)'
    BY <1>0, <1>1, SameKinds DEF Listed
  <2> QED
    BY <1>0, <2>1, SameKnown
<1>12. ASSUME NEW u \in Configured \ hasty'
       PROVE  OneAttempt(u)' /\ (Lasting(u)' => OneOutcome(u)')
  <2>0. OneAttempt(u) /\ (Lasting(u) => OneOutcome(u))
    BY <1>0, <1>12 DEF AttemptsInv
  <2>1. PICK new \in BOOLEAN : new <=> Some(mail, {ConnectRemote(u)})
    OBVIOUS
  <2>2. /\ Asked(u)' <=> Asked(u) \/ new
        /\ Twice(requests', {ConnectRemote(u)}) <=>
             Twice(requests, {ConnectRemote(u)}) \/ (Asked(u) /\ new)
        /\ Some(requests', {DisconnectRemote(u)}) <=>
             Some(requests, {DisconnectRemote(u)})
    BY <1>2, <1>6, <1>8, <1>9, <2>1, Queues, SomeConcat DEF Asked
  <2>3. /\ Connecting(u)' = Connecting(u) /\ Alive(u)' = Alive(u)
        /\ Over(u)' = Over(u) /\ Told(u)' = Told(u)
        /\ Twice(sessions, Live(u))' = Twice(sessions, Live(u))
        /\ Twice(reports, Unregistrations(u))' = Twice(reports, Unregistrations(u))
        /\ Twice(notices, Farewells(u))' = Twice(notices, Farewells(u))
    BY <1>0, SameKinds DEF Connecting, Alive, Over, Told
  <2>4. CASE new
    <3>1. u \in Due
      BY <1>9, <2>1, <2>4
    <3>2. OneOutcome(u) /\ nodes[u].connection_status = "Disconnected"
      BY <1>1, <2>0, <3>1 DEF Lasting
    <3>3. nodes'[u].connection_status = "Connecting"
      BY <1>1, <3>1
    <3> QED
      BY <2>0, <2>2, <2>3, <3>2, <3>3 DEF OneAttempt, OneOutcome
  <2>5. CASE ~new
    <3>1. OneAttempt(u)'
      BY <2>0, <2>2, <2>3, <2>5 DEF OneAttempt
    <3>2. ASSUME Lasting(u)' PROVE OneOutcome(u)'
      <4>1. /\ Lasting(u)
            /\ nodes'[u].connection_status = "Disconnected" =>
                 nodes[u].connection_status = "Disconnected"
        BY <1>1, <3>2 DEF Lasting
      <4> QED
        BY <2>0, <2>2, <2>3, <2>5, <4>1 DEF OneOutcome
    <3> QED
      BY <3>1, <3>2
  <2> QED
    BY <2>4, <2>5
<1>13. AttemptsInv'
  BY <1>12 DEF AttemptsInv
<1> QED
  BY <1>10, <1>11, <1>13

-------------------------------------------------------------------------------
(* The convergence agent *)

\* The request at the head of the queue, and the others.
LEMMA NextRequest ==
  ASSUME SInv, requests # <<>>, NEW M
  PROVE  /\ Head(requests) \in Requests
         /\ Some(requests, M) <=> Head(requests) \in M \/ Some(Tail(requests), M)
         /\ Twice(requests, M) <=>
              \/ Twice(Tail(requests), M)
              \/ Head(requests) \in M /\ Some(Tail(requests), M)
BY Queues, SomeTail, RequestType DEF SInv

\* The report at the head of the mailbox, and the others.
LEMMA NextReport ==
  ASSUME SInv, reports # <<>>, NEW M
  PROVE  /\ Head(reports) \in Reports
         /\ Some(reports, M) <=> Head(reports) \in M \/ Some(Tail(reports), M)
         /\ Twice(reports, M) <=>
              \/ Twice(Tail(reports), M)
              \/ Head(reports) \in M /\ Some(Tail(reports), M)
BY Queues, SomeTail, ReportType DEF SInv

\* A request that is only logged.
LEMMA UnknownSchemeEnds ==
  ASSUME SInv, UnknownScheme
  PROVE  Part'
<1> USE DEF SInv, Part
<1>0. /\ UNCHANGED <<world, nodes, notices, routes, connected_nodes, reports, server,
                     listener, sessions, reachable, count, hasty>>
      /\ requests # <<>> /\ requests' = Tail(requests)
  BY DEF UnknownScheme
<1>1. HeldInv' /\ KnownInv'
  BY <1>0, SameHeld, SameKnown, SameKinds DEF Listed
<1>2. ASSUME NEW u \in Configured \ hasty'
      PROVE  OneAttempt(u)' /\ (Lasting(u)' => OneOutcome(u)')
  <2>0. OneAttempt(u) /\ (Lasting(u) => OneOutcome(u))
    BY <1>0, <1>2 DEF AttemptsInv
  <2>1. /\ Asked(u)' => Asked(u)
        /\ Twice(requests', {ConnectRemote(u)}) => Twice(requests, {ConnectRemote(u)})
        /\ Some(requests', {DisconnectRemote(u)}) => Some(requests, {DisconnectRemote(u)})
    BY <1>0, NextRequest DEF Asked
  <2>2. /\ Connecting(u)' = Connecting(u) /\ Alive(u)' = Alive(u)
        /\ Over(u)' = Over(u) /\ Told(u)' = Told(u) /\ Lasting(u)' = Lasting(u)
        /\ Twice(sessions, Live(u))' = Twice(sessions, Live(u))
        /\ Twice(reports, Unregistrations(u))' = Twice(reports, Unregistrations(u))
        /\ Twice(notices, Farewells(u))' = Twice(notices, Farewells(u))
        /\ nodes' = nodes
    BY <1>0, SameKinds DEF Connecting, Alive, Over, Told, Lasting
  <2> QED
    BY <2>0, <2>1, <2>2 DEF OneAttempt, OneOutcome
<1>3. AttemptsInv'
  BY <1>2 DEF AttemptsInv
<1> QED
  BY <1>1, <1>3

\* CLRegisterNode: the registration becomes a notice, in its place.
LEMMA RegistrationTold ==
  ASSUME SInv, RegisterNode
  PROVE  Part'
<1> USE DEF SInv, Part
<1>0. PICK m, w :
      /\ m = Head(reports) /\ w = Notify("Connected", m.url, m.node)
      /\ UNCHANGED <<world, nodes, routes, requests, server, listener, sessions,
                     reachable, count, hasty>>
      /\ reports # <<>> /\ m.type = "CLRegisterNode" /\ reports' = Tail(reports)
      /\ connected_nodes' = With(connected_nodes, m.node, m.sender)
      /\ notices' = Append(notices, w)
  BY DEF RegisterNode
<1>1. m \in Reports /\ m.url \in Peer /\ m.node = endpoint(m.url) /\ m.node \in Endpoints
  <2>1. m \in Reports /\ m.url \in Peer /\ m.node = endpoint(m.url)
    BY <1>0, NextReport DEF Reports
  <2> QED
    BY <2>1, EndpointType, UrlsType DEF Inv
<1>2. w \in Notices /\ w.type = "Connected" /\ w.url = m.url
  BY <1>0, <1>1 DEF Notify, Notices
<1>3. HeldInv'
  BY <1>0, SameHeld
<1>4. ASSUME NEW u \in Configured \ hasty'
      PROVE  OneAttempt(u)' /\ (Lasting(u)' => OneOutcome(u)')
  <2>0. OneAttempt(u) /\ (Lasting(u) => OneOutcome(u))
    BY <1>0, <1>4 DEF AttemptsInv
  <2>1. /\ Over(u)' <=> Over(u)
        /\ Twice(reports', Unregistrations(u)) <=> Twice(reports, Unregistrations(u))
    <3>1. m \notin Unregistrations(u)
      BY <1>0 DEF Unregistrations
    <3> QED
      BY <1>0, <3>1, NextReport, SameKinds DEF Over
  <2>2. /\ Told(u)' <=> Told(u)
        /\ Twice(notices', Farewells(u)) <=> Twice(notices, Farewells(u))
    <3>1. w \notin Farewells(u)
      BY <1>2 DEF Farewells
    <3> QED
      BY <1>0, <1>2, <3>1, Queues, SomeAppend, SameKinds DEF Told
  <2>3. /\ Connecting(u)' = Connecting(u) /\ Alive(u)' = Alive(u)
        /\ Asked(u)' = Asked(u) /\ Lasting(u)' = Lasting(u)
        /\ Twice(sessions, Live(u))' = Twice(sessions, Live(u))
        /\ Unregistrations(u)' = Unregistrations(u) /\ Farewells(u)' = Farewells(u)
        /\ nodes' = nodes /\ requests' = requests
    BY <1>0, SameKinds DEF Connecting, Alive, Asked, Lasting
  <2> QED
    BY <2>0, <2>1, <2>2, <2>3 DEF OneAttempt, OneOutcome
<1>5. AttemptsInv'
  BY <1>4 DEF AttemptsInv
<1>6. ASSUME NEW s \in DOMAIN sessions, NEW u, u = sessions[s].url, Accepted(s)'
      PROVE  Known(u, s)'
  <2>1. Accepted(s)
    BY <1>0, <1>6, SameKinds DEF Accepted, Regular
  <2>2. Known(u, s)
    BY <1>6, <2>1 DEF KnownInv
  <2>3. /\ Registrations(u, s)' = Registrations(u, s) /\ Ghost(u)' = Ghost(u)
        /\ Listed(u)' = Listed(u)
    BY <1>0, SameMessages, SameKinds DEF Registrations, Ghost, Listed
  <2>4. CASE EndsIn(reports, ReportsOf(u), Registrations(u, s))
    <3>1. \/ EndsIn(reports', ReportsOf(u), Registrations(u, s))
          \/ m \in Registrations(u, s) /\ ~Some(reports', ReportsOf(u))
      BY <1>0, <2>4, Queues, EndsTail
    <3>2. ASSUME m \in Registrations(u, s)
          PROVE  Connected(u, s)' /\ EndsIn(notices', NoticesOf(u), Welcomes(u))
      <4>1. m.url = u /\ (m.sender = s \/ Ghost(u))
        BY <3>2 DEF Registrations
      <4>2. Connected(u, s)'
        BY <1>0, <1>1, <2>3, <4>1, SameKinds DEF Connected, With
      <4>3. w \in Welcomes(u)
        BY <1>2, <4>1 DEF Welcomes
      <4> QED
        BY <1>0, <1>2, <4>2, <4>3, Queues, EndsAppend
    <3> QED
      BY <1>0, <2>3, <3>1, <3>2, SameKinds DEF Known
  <2>5. CASE ~Some(reports, ReportsOf(u)) /\ Connected(u, s)
    <3>1. m \notin ReportsOf(u) /\ ~Some(reports', ReportsOf(u))
      BY <1>0, <2>5, NextReport
    <3>2. m.url # u
      BY <1>1, <3>1 DEF ReportsOf
    <3>3. m.node # endpoint(u)
      BY <1>1, <1>6, <2>1, <3>2 DEF Accepted, Sole, Peer
    <3>4. Connected(u, s)'
      BY <1>0, <2>3, <2>5, <3>3, SameKinds DEF Connected, With
    <3>5. w \notin NoticesOf(u)
      BY <1>2, <3>2 DEF NoticesOf
    <3>6. /\ EndsIn(notices, NoticesOf(u), Welcomes(u)) =>
               EndsIn(notices', NoticesOf(u), Welcomes(u))
          /\ ~Some(notices, NoticesOf(u)) => ~Some(notices', NoticesOf(u))
      BY <1>0, <1>2, <3>5, Queues, SomeAppend, EndsAppend
    <3>7. \/ EndsIn(notices, NoticesOf(u), Welcomes(u))
          \/ ~Some(notices, NoticesOf(u)) /\ Listed(u)
          \/ EndsIn(reports, ReportsOf(u), Registrations(u, s))
      BY <2>2 DEF Known
    <3> QED
      BY <1>0, <2>3, <2>4, <3>1, <3>4, <3>6, <3>7, SameKinds DEF Known
  <2> QED
    BY <2>2, <2>4, <2>5 DEF Known
<1>7. KnownInv'
  BY <1>0, <1>6 DEF KnownInv
<1> QED
  BY <1>3, <1>5, <1>7

\* CLUnregisterNode: the report becomes a notice, in its place.
LEMMA UnregistrationTold ==
  ASSUME SInv, UnregisterNode
  PROVE  Part'
<1> USE DEF SInv, Part
<1>0. PICK m, w :
      /\ m = Head(reports) /\ w = Notify("Disconnected", m.url, None)
      /\ UNCHANGED <<world, nodes, routes, requests, server, listener, sessions,
                     reachable, count, hasty>>
      /\ reports # <<>> /\ m.type = "CLUnregisterNode" /\ reports' = Tail(reports)
      /\ connected_nodes' = Without(connected_nodes, m.node)
      /\ notices' = Append(notices, w)
  BY DEF UnregisterNode
<1>1. m \in Reports /\ m.url \in Peer /\ m.node \in {None, endpoint(m.url)}
  BY <1>0, NextReport DEF Reports
<1>2. w \in Notices /\ w.type = "Disconnected" /\ w.url = m.url
  BY <1>0, <1>1 DEF Notify, Notices
<1>3. HeldInv'
  BY <1>0, SameHeld
<1>4. ASSUME NEW u \in Configured \ hasty'
      PROVE  OneAttempt(u)' /\ (Lasting(u)' => OneOutcome(u)')
  <2>0. OneAttempt(u) /\ (Lasting(u) => OneOutcome(u))
    BY <1>0, <1>4 DEF AttemptsInv
  <2>1. /\ Over(u) <=> Over(u)' \/ u = m.url
        /\ Twice(reports, Unregistrations(u)) <=>
             Twice(reports', Unregistrations(u)) \/ (u = m.url /\ Over(u)')
    <3>1. m \in Unregistrations(u) <=> u = m.url
      BY <1>0, <1>1 DEF Unregistrations
    <3> QED
      BY <1>0, <3>1, NextReport, SameKinds DEF Over
  <2>2. /\ Told(u)' <=> Told(u) \/ u = m.url
        /\ Twice(notices', Farewells(u)) <=>
             Twice(notices, Farewells(u)) \/ (Told(u) /\ u = m.url)
    <3>1. w \in Farewells(u) <=> u = m.url
      BY <1>2 DEF Farewells
    <3> QED
      BY <1>0, <1>2, <3>1, Queues, SomeAppend, SameKinds DEF Told
  <2>3. /\ Connecting(u)' = Connecting(u) /\ Alive(u)' = Alive(u)
        /\ Asked(u)' = Asked(u) /\ Lasting(u)' = Lasting(u)
        /\ Twice(sessions, Live(u))' = Twice(sessions, Live(u))
        /\ Unregistrations(u)' = Unregistrations(u) /\ Farewells(u)' = Farewells(u)
        /\ nodes' = nodes /\ requests' = requests
    BY <1>0, SameKinds DEF Connecting, Alive, Asked, Lasting
  <2> QED
    BY <2>0, <2>1, <2>2, <2>3 DEF OneAttempt, OneOutcome
<1>5. AttemptsInv'
  BY <1>4 DEF AttemptsInv
<1>6. ASSUME NEW s \in DOMAIN sessions, NEW u, u = sessions[s].url, Accepted(s)'
      PROVE  Known(u, s)'
  <2>1. Accepted(s)
    BY <1>0, <1>6, SameKinds DEF Accepted, Regular
  <2>2. Known(u, s)
    BY <1>6, <2>1 DEF KnownInv
  <2>3. /\ Registrations(u, s)' = Registrations(u, s) /\ Ghost(u)' = Ghost(u)
        /\ Listed(u)' = Listed(u)
    BY <1>0, SameMessages, SameKinds DEF Registrations, Ghost, Listed
  <2>4. CASE EndsIn(reports, ReportsOf(u), Registrations(u, s))
    <3>1. m \notin Registrations(u, s)
      BY <1>0 DEF Registrations
    <3>2. EndsIn(reports', ReportsOf(u), Registrations(u, s))
      BY <1>0, <2>4, <3>1, Queues, EndsTail
    <3> QED
      BY <1>0, <2>3, <3>2, SameKinds DEF Known
  <2>5. CASE ~Some(reports, ReportsOf(u)) /\ Connected(u, s)
    <3>1. m \notin ReportsOf(u) /\ ~Some(reports', ReportsOf(u))
      BY <1>0, <2>5, NextReport
    <3>2. m.url # u
      BY <1>1, <3>1 DEF ReportsOf
    <3>3. m.node # endpoint(u)
      <4>1. endpoint(m.url) # endpoint(u)
        BY <1>1, <1>6, <2>1, <3>2 DEF Accepted, Sole, Peer
      <4>2. endpoint(u) # None
        BY <1>6, SessionType, PeersAssumption
      <4> QED
        BY <1>1, <4>1, <4>2
    <3>4. Connected(u, s)'
      BY <1>0, <2>3, <2>5, <3>3, SameKinds DEF Connected, Without
    <3>5. w \notin NoticesOf(u)
      BY <1>2, <3>2 DEF NoticesOf
    <3>6. /\ EndsIn(notices, NoticesOf(u), Welcomes(u)) =>
               EndsIn(notices', NoticesOf(u), Welcomes(u))
          /\ ~Some(notices, NoticesOf(u)) => ~Some(notices', NoticesOf(u))
      BY <1>0, <1>2, <3>5, Queues, SomeAppend, EndsAppend
    <3>7. \/ EndsIn(notices, NoticesOf(u), Welcomes(u))
          \/ ~Some(notices, NoticesOf(u)) /\ Listed(u)
          \/ EndsIn(reports, ReportsOf(u), Registrations(u, s))
      BY <2>2 DEF Known
    <3> QED
      BY <1>0, <2>3, <2>4, <3>1, <3>4, <3>6, <3>7, SameKinds DEF Known
  <2> QED
    BY <2>2, <2>4, <2>5 DEF Known
<1>7. KnownInv'
  BY <1>0, <1>6 DEF KnownInv
<1> QED
  BY <1>3, <1>5, <1>7

-------------------------------------------------------------------------------
(* The TCPCL servers *)

\* A report about another url comes, or none.
LEMMA OtherReport ==
  ASSUME SInv, NEW u, NEW s, Known(u, s), NEW m \in Reports, m.url # u,
         reports' \in {reports, Append(reports, m)},
         UNCHANGED <<world, notices, connected_nodes, nodes>>,
         Ghost(u) => Ghost(u)'
  PROVE  Known(u, s)'
<1>1. m \notin ReportsOf(u)
  BY DEF ReportsOf
<1>2. /\ EndsIn(reports, ReportsOf(u), Registrations(u, s)) =>
           EndsIn(reports', ReportsOf(u), Registrations(u, s))
      /\ ~Some(reports, ReportsOf(u)) => ~Some(reports', ReportsOf(u))
  BY <1>1, Queues, SomeAppend, EndsAppend
<1>3. Registrations(u, s) \subseteq Registrations(u, s)'
  BY SameMessages DEF Registrations
<1>4. EndsIn(reports', ReportsOf(u), Registrations(u, s)) =>
        EndsIn(reports', ReportsOf(u), Registrations(u, s)')
  BY <1>3, EndsWider
<1>5. (Connected(u, s) => Connected(u, s)') /\ (Listed(u) => Listed(u)')
  BY SameKinds DEF Connected, Listed
<1> QED
  BY <1>2, <1>4, <1>5, SameKinds DEF Known

\* ConnectRemote: the request becomes a connection that is being made.
LEMMA ConnectStarts ==
  ASSUME SInv, StartConnect
  PROVE  Part'
<1> USE DEF SInv, Part
<1>0. PICK v :
      /\ v = Head(requests).url
      /\ UNCHANGED <<world, nodes, notices, routes, connected_nodes, reports, listener,
                     sessions, reachable, count, hasty>>
      /\ requests # <<>> /\ Head(requests).type = "ConnectRemote"
      /\ server' = [server EXCEPT !.connecting = v]
      /\ requests' = Tail(requests)
  BY DEF StartConnect
<1>1. server'.connecting = v /\ server'.sessions = server.sessions
  BY <1>0 DEF Inv, ServerInv
<1>2. Head(requests) = ConnectRemote(v)
  BY <1>0, NextRequest DEF Requests, ConnectRemote
<1>3. HeldInv'
  BY <1>0, <1>1 DEF HeldInv, Regular
<1>4. KnownInv'
  BY <1>0, SameKnown, SameKinds DEF Listed
<1>5. server.connecting = None
  BY DEF StartConnect
<1>6. ASSUME NEW u \in Configured \ hasty'
      PROVE  OneAttempt(u)' /\ (Lasting(u)' => OneOutcome(u)')
  <2>0. OneAttempt(u) /\ (Lasting(u) => OneOutcome(u))
    BY <1>0, <1>6 DEF AttemptsInv
  <2>1. /\ Asked(u) <=> Asked(u)' \/ u = v
        /\ Twice(requests, {ConnectRemote(u)}) <=>
             Twice(requests', {ConnectRemote(u)}) \/ (u = v /\ Asked(u)')
        /\ Some(requests', {DisconnectRemote(u)}) <=> Some(requests, {DisconnectRemote(u)})
    <3>1. Head(requests) \in {ConnectRemote(u)} <=> u = v
      BY <1>2 DEF ConnectRemote
    <3>2. Head(requests) \notin {DisconnectRemote(u)}
      BY <1>2 DEF ConnectRemote, DisconnectRemote
    <3> QED
      BY <1>0, <3>1, <3>2, NextRequest DEF Asked
  <2>2. (Connecting(u)' <=> u = v) /\ ~Connecting(u)
    <3>1. u # None
      BY <1>6, PeersAssumption DEF Urls
    <3> QED
      BY <1>1, <1>5, <3>1 DEF Connecting
  <2>3. /\ Alive(u)' = Alive(u) /\ Lasting(u)' = Lasting(u)
        /\ Over(u)' = Over(u) /\ Told(u)' = Told(u)
        /\ Twice(sessions, Live(u))' = Twice(sessions, Live(u))
        /\ Twice(reports, Unregistrations(u))' = Twice(reports, Unregistrations(u))
        /\ Twice(notices, Farewells(u))' = Twice(notices, Farewells(u))
        /\ nodes' = nodes
    BY <1>0, SameKinds DEF Alive, Over, Told, Lasting
  <2> QED
    BY <2>0, <2>1, <2>2, <2>3 DEF OneAttempt, OneOutcome
<1>7. AttemptsInv'
  BY <1>6 DEF AttemptsInv
<1> QED
  BY <1>3, <1>4, <1>7

\* A session is opened: what it changes for the sessions that there are.
LEMMA Opening ==
  ASSUME SInv, NEW v \in Peer, sessions' = Append(sessions, NewSession(v)),
         UNCHANGED <<world, nodes, notices, connected_nodes, reports, hasty>>
  PROVE  /\ \A u : /\ Some(sessions, Live(u))' <=> Some(sessions, Live(u)) \/ u = v
                   /\ Twice(sessions, Live(u))' <=>
                        Twice(sessions, Live(u)) \/ (Some(sessions, Live(u)) /\ u = v)
         /\ DOMAIN sessions' = DOMAIN sessions \cup {Len(sessions) + 1}
         /\ Len(sessions) + 1 \notin DOMAIN sessions
         /\ \A s \in DOMAIN sessions : sessions'[s] = sessions[s]
         /\ sessions'[Len(sessions) + 1] = NewSession(v)
         /\ KnownInv'
<1> USE DEF SInv, Part
<1>1. NewSession(v) \in Sessions /\ \A u : NewSession(v) \in Live(u) <=> u = v
  BY DEF NewSession, Sessions, Live
<1>2. /\ sessions \in Seq(Sessions) /\ Len(sessions) \in Nat
      /\ DOMAIN sessions = 1..Len(sessions)
      /\ DOMAIN sessions' = 1..(Len(sessions) + 1)
      /\ \A s \in 1..Len(sessions) : sessions'[s] = sessions[s]
      /\ sessions'[Len(sessions) + 1] = NewSession(v)
  BY <1>1, Queues, LenProperties, AppendProperties
<1>3. /\ DOMAIN sessions' = DOMAIN sessions \cup {Len(sessions) + 1}
      /\ Len(sessions) + 1 \notin DOMAIN sessions
  BY <1>2
<1>4. \A u : /\ Some(sessions, Live(u))' <=> Some(sessions, Live(u)) \/ u = v
             /\ Twice(sessions, Live(u))' <=>
                  Twice(sessions, Live(u)) \/ (Some(sessions, Live(u)) /\ u = v)
  <2> SUFFICES ASSUME NEW u
               PROVE  /\ Some(sessions', Live(u)') <=> Some(sessions, Live(u)) \/ u = v
                      /\ Twice(sessions', Live(u)') <=>
                           Twice(sessions, Live(u)) \/ (Some(sessions, Live(u)) /\ u = v)
    OBVIOUS
  <2> QED
    BY <1>1, <1>2, SameKinds, SomeAppend
<1>5. ASSUME NEW s \in DOMAIN sessions', NEW u, u = sessions'[s].url, Accepted(s)'
      PROVE  Known(u, s)'
  <2>1. s \in DOMAIN sessions
    BY <1>2, <1>3, <1>5 DEF Accepted, NewSession
  <2>2. sessions'[s] = sessions[s]
    BY <1>2, <2>1
  <2>3. Accepted(s)
    BY <1>5, <2>2, SameKinds DEF Accepted, Regular
  <2>4. Known(u, s)
    BY <1>5, <2>1, <2>2, <2>3 DEF KnownInv
  <2>5. Ghost(u) => Ghost(u)'
    BY <1>2, <1>3 DEF Ghost
  <2>6. Listed(u) => Listed(u)'
    BY SameKinds DEF Listed
  <2> QED
    BY <2>4, <2>5, <2>6, StillKnown
<1>6. KnownInv'
  BY <1>5 DEF KnownInv
<1> QED
  BY <1>2, <1>3, <1>4, <1>6

\* A connection was made: it becomes a session, which the server has.
LEMMA ConnectionOpens ==
  ASSUME SInv, ConnectSucceeds
  PROVE  Part'
<1> USE DEF SInv, Part
<1>0. PICK v :
      /\ v = server.connecting
      /\ UNCHANGED <<world, nodes, notices, routes, connected_nodes, reports, requests,
                     listener, reachable, count, hasty>>
      /\ v \in reachable
      /\ sessions' = Append(sessions, NewSession(v))
      /\ server' = [connecting |-> None,
                    sessions |-> With(server.sessions, v, Len(sessions) + 1)]
  BY DEF ConnectSucceeds
<1>1. v \in Peer /\ v \in Configured
  BY <1>0, UrlsType DEF Inv, ServerInv, WorldInv, Urls
<1>2. PICK n : n = Len(sessions) + 1
  OBVIOUS
<1>3. /\ \A u : /\ Some(sessions, Live(u))' <=> Some(sessions, Live(u)) \/ u = v
                /\ Twice(sessions, Live(u))' <=>
                     Twice(sessions, Live(u)) \/ (Some(sessions, Live(u)) /\ u = v)
      /\ DOMAIN sessions' = DOMAIN sessions \cup {n} /\ n \notin DOMAIN sessions
      /\ \A s \in DOMAIN sessions : sessions'[s] = sessions[s]
      /\ sessions'[n] = NewSession(v)
      /\ KnownInv'
  BY <1>0, <1>1, <1>2, Opening
<1>4. /\ server'.connecting = None
      /\ DOMAIN server'.sessions = DOMAIN server.sessions \cup {v}
      /\ server'.sessions[v] = n
      /\ \A u \in DOMAIN server.sessions : u # v => server'.sessions[u] = server.sessions[u]
  BY <1>0, <1>2 DEF With
<1>5. ASSUME NEW u \in Configured \ hasty'
      PROVE  OneAttempt(u)' /\ (Lasting(u)' => OneOutcome(u)')
  <2>0. OneAttempt(u) /\ (Lasting(u) => OneOutcome(u))
    BY <1>0, <1>5 DEF AttemptsInv
  <2>1. (Connecting(u) <=> u = v) /\ ~Connecting(u)'
    <3>1. u # None
      BY <1>5, PeersAssumption DEF Urls
    <3> QED
      BY <1>0, <1>4, <3>1 DEF Connecting
  <2>2. /\ Alive(u)' <=> Alive(u) \/ u = v
        /\ Twice(sessions, Live(u))' <=> Twice(sessions, Live(u)) \/ (Alive(u) /\ u = v)
    BY <1>3 DEF Alive
  <2>3. /\ Asked(u)' = Asked(u) /\ Lasting(u)' = Lasting(u)
        /\ Over(u)' = Over(u) /\ Told(u)' = Told(u)
        /\ Twice(reports, Unregistrations(u))' = Twice(reports, Unregistrations(u))
        /\ Twice(notices, Farewells(u))' = Twice(notices, Farewells(u))
        /\ nodes' = nodes /\ requests' = requests
    BY <1>0, SameKinds DEF Asked, Over, Told, Lasting
  <2> QED
    BY <2>0, <2>1, <2>2, <2>3 DEF OneAttempt, OneOutcome
<1>6. AttemptsInv'
  BY <1>5 DEF AttemptsInv
<1>7. ASSUME NEW s \in DOMAIN sessions', NEW u, u = sessions'[s].url,
             sessions'[s].phase # "closed", ~sessions'[s].closing, Regular(u)'
      PROVE  u \in DOMAIN server'.sessions /\ server'.sessions[u] = s
  <2>1. CASE s = n
    BY <1>3, <1>4, <1>7, <2>1 DEF NewSession
  <2>2. CASE s \in DOMAIN sessions
    <3>1. sessions'[s] = sessions[s] /\ Regular(u)
      BY <1>0, <1>3, <1>7, <2>2 DEF Regular
    <3>2. u \in DOMAIN server.sessions /\ server.sessions[u] = s
      BY <1>7, <2>2, <3>1 DEF HeldInv
    <3>3. u # v
      <4>1. sessions[s] \in Live(u)
        BY <1>7, <2>2, <3>1, EachSession DEF Live
      <4>2. Alive(u)
        BY <2>2, <4>1 DEF Alive, Some
      <4> QED
        BY <1>0, <3>1, <4>2 DEF AttemptsInv, OneAttempt, Connecting, Regular
    <3> QED
      BY <1>4, <3>2, <3>3
  <2> QED
    BY <1>3, <2>1, <2>2
<1>8. HeldInv'
  BY <1>7 DEF HeldInv
<1> QED
  BY <1>3, <1>6, <1>8

\* A url that is connected to, or whose removal finds no session, has no session
\* that is accepted; what is reported about it harms no other.
LEMMA ReportHarmless ==
  ASSUME SInv, NEW v, NEW m \in Reports, m.url = v,
         reports' = Append(reports, m),
         UNCHANGED <<world, notices, connected_nodes, nodes, sessions, hasty>>,
         \A s \in DOMAIN sessions : Accepted(s) => sessions[s].url # v
  PROVE  KnownInv'
<1> USE DEF SInv, Part
<1>1. ASSUME NEW s \in DOMAIN sessions, NEW u, u = sessions[s].url, Accepted(s)'
      PROVE  Known(u, s)'
  <2>1. Accepted(s)
    BY <1>1, SameKinds DEF Accepted, Regular
  <2>2. Known(u, s) /\ u # v
    BY <1>1, <2>1 DEF KnownInv
  <2>3. Ghost(u) => Ghost(u)'
    BY DEF Ghost
  <2> QED
    BY <2>2, <2>3, OtherReport
<1> QED
  BY <1>1 DEF KnownInv

\* A url that is connected to has no session that runs.
LEMMA NoneAccepted ==
  ASSUME SInv, NEW s \in DOMAIN sessions, Accepted(s)
  PROVE  /\ Alive(sessions[s].url) /\ ~Connecting(sessions[s].url)
         /\ sessions[s].url \in DOMAIN server.sessions
         /\ \A t \in DOMAIN sessions :
              sessions[t].url = sessions[s].url /\ t # s => sessions[t].phase = "closed"
<1> USE DEF SInv, Part
<1>1. PICK u : u = sessions[s].url
  OBVIOUS
<1>2. u \in Configured \ hasty /\ sessions[s] \in Live(u)
  BY <1>1, EachSession DEF Accepted, Regular, Live
<1>3. Alive(u)
  BY <1>2 DEF Alive, Some
<1>4. ~Connecting(u) /\ ~Twice(sessions, Live(u))
  BY <1>2, <1>3 DEF AttemptsInv, OneAttempt
<1>5. u \in DOMAIN server.sessions
  BY <1>1, <1>2 DEF HeldInv, Accepted
<1>6. ASSUME NEW t \in DOMAIN sessions, sessions[t].url = u, t # s
      PROVE  sessions[t].phase = "closed"
  <2> SUFFICES ASSUME sessions[t].phase # "closed" PROVE FALSE
    OBVIOUS
  <2>1. sessions[t] \in Live(u)
    BY <1>6, EachSession DEF Live
  <2>2. s \in Nat /\ t \in Nat
    BY Queues, LenProperties
  <2>3. s < t \/ t < s
    BY <1>6, <2>2
  <2> QED
    BY <1>2, <1>4, <2>1, <2>3 DEF Twice
<1> QED
  BY <1>1, <1>3, <1>4, <1>5, <1>6

\* A connection failed: it becomes a report.
LEMMA ConnectionFails ==
  ASSUME SInv, ConnectFails
  PROVE  Part'
<1> USE DEF SInv, Part
<1>0. PICK v, m :
      /\ v = server.connecting /\ m = CLUnregisterNode(v, None)
      /\ UNCHANGED <<world, nodes, notices, routes, connected_nodes, requests, listener,
                     sessions, reachable, count, hasty>>
      /\ v \in Configured
      /\ reports' = Append(reports, m)
      /\ server' = [server EXCEPT !.connecting = None]
  BY DEF ConnectFails, FailureReported
<1>1. server'.connecting = None /\ server'.sessions = server.sessions
  BY <1>0 DEF Inv, ServerInv
<1>2. m \in Reports /\ m.url = v /\ m.type = "CLUnregisterNode"
  <2>1. v \in Peer
    BY <1>0, UrlsType DEF Inv, ServerInv, Urls
  <2>2. m \in Reports
    BY <1>0, <2>1, UnregisterType DEF Inv
  <2> QED
    BY <1>0, <2>2 DEF CLUnregisterNode
<1>3. HeldInv'
  BY <1>0, <1>1 DEF HeldInv, Regular
<1>4. KnownInv'
  <2>1. \A s \in DOMAIN sessions : Accepted(s) => sessions[s].url # v
    BY <1>0, NoneAccepted DEF Connecting
  <2> QED
    BY <1>0, <1>2, <2>1, ReportHarmless
<1>5. ASSUME NEW u \in Configured \ hasty'
      PROVE  OneAttempt(u)' /\ (Lasting(u)' => OneOutcome(u)')
  <2>0. OneAttempt(u) /\ (Lasting(u) => OneOutcome(u))
    BY <1>0, <1>5 DEF AttemptsInv
  <2>1. (Connecting(u) <=> u = v) /\ ~Connecting(u)'
    <3>1. u # None
      BY <1>5, PeersAssumption DEF Urls
    <3> QED
      BY <1>0, <1>1, <3>1 DEF Connecting
  <2>2. /\ Over(u)' <=> Over(u) \/ u = v
        /\ Twice(reports, Unregistrations(u))' <=>
             Twice(reports, Unregistrations(u)) \/ (Over(u) /\ u = v)
    <3>1. m \in Unregistrations(u) <=> u = v
      BY <1>2 DEF Unregistrations
    <3> QED
      BY <1>0, <1>2, <3>1, Queues, SomeAppend, SameKinds DEF Over
  <2>3. /\ Asked(u)' = Asked(u) /\ Lasting(u)' = Lasting(u)
        /\ Alive(u)' = Alive(u) /\ Told(u)' = Told(u)
        /\ Twice(sessions, Live(u))' = Twice(sessions, Live(u))
        /\ Twice(notices, Farewells(u))' = Twice(notices, Farewells(u))
        /\ nodes' = nodes /\ requests' = requests
    BY <1>0, SameKinds DEF Asked, Alive, Told, Lasting
  <2> QED
    BY <2>0, <2>1, <2>2, <2>3 DEF OneAttempt, OneOutcome
<1>6. AttemptsInv'
  BY <1>5 DEF AttemptsInv
<1> QED
  BY <1>3, <1>4, <1>6

\* Sessions are told to close, and nothing else happens to them.
LEMMA Closing ==
  ASSUME SInv, NEW ids, Shutdown(ids),
         UNCHANGED <<world, nodes, notices, connected_nodes, reports, hasty>>
  PROVE  /\ \A u : /\ Some(sessions, Live(u))' <=> Some(sessions, Live(u))
                   /\ Twice(sessions, Live(u))' <=> Twice(sessions, Live(u))
         /\ DOMAIN sessions' = DOMAIN sessions
         /\ \A s \in DOMAIN sessions :
              /\ sessions'[s].url = sessions[s].url
              /\ sessions'[s].phase = sessions[s].phase
              /\ ~sessions'[s].closing =>
                   ~sessions[s].closing /\ (s \in ids => sessions[s].phase = "closed")
         /\ KnownInv'
<1> USE DEF SInv, Part
<1>1. sessions' = [s \in DOMAIN sessions |->
                     IF s \in ids /\ sessions[s].phase # "closed"
                     THEN [sessions[s] EXCEPT !.closing = TRUE] ELSE sessions[s]]
  BY DEF Shutdown
<1>2. ASSUME NEW s \in DOMAIN sessions
      PROVE  /\ sessions'[s] \in Sessions
             /\ sessions'[s].url = sessions[s].url
             /\ sessions'[s].phase = sessions[s].phase
             /\ sessions'[s].info = sessions[s].info
             /\ ~sessions'[s].closing =>
                  ~sessions[s].closing /\ (s \in ids => sessions[s].phase = "closed")
  <2>1. sessions[s] \in Sessions
    BY EachSession
  <2> QED
    BY <1>1, <1>2, <2>1 DEF Sessions
<1>3. DOMAIN sessions' = DOMAIN sessions
  BY <1>1
<1>4. \A u : /\ Some(sessions, Live(u))' <=> Some(sessions, Live(u))
             /\ Twice(sessions, Live(u))' <=> Twice(sessions, Live(u))
  <2> SUFFICES ASSUME NEW u
               PROVE  /\ Some(sessions', Live(u)') <=> Some(sessions, Live(u))
                      /\ Twice(sessions', Live(u)') <=> Twice(sessions, Live(u))
    OBVIOUS
  <2>1. \A s \in DOMAIN sessions : sessions'[s] \in Live(u) <=> sessions[s] \in Live(u)
    BY <1>2, EachSession DEF Live
  <2> QED
    BY <1>3, <2>1, SomeSame, SameKinds
<1>5. ASSUME NEW s \in DOMAIN sessions, NEW u, u = sessions'[s].url, Accepted(s)'
      PROVE  Known(u, s)'
  <2>1. Accepted(s) /\ u = sessions[s].url
    BY <1>2, <1>5, SameKinds DEF Accepted, Regular
  <2>2. Known(u, s)
    BY <2>1 DEF KnownInv
  <2>3. Ghost(u) => Ghost(u)'
    BY <1>2, <1>3 DEF Ghost
  <2>4. Listed(u) => Listed(u)'
    BY SameKinds DEF Listed
  <2> QED
    BY <2>2, <2>3, <2>4, StillKnown
<1>6. KnownInv'
  BY <1>3, <1>5 DEF KnownInv
<1> QED
  BY <1>2, <1>3, <1>4, <1>6

\* DisconnectRemote: the node does not last; its session is told to close, or it has
\* none that is not being closed.
LEMMA DisconnectCloses ==
  ASSUME SInv, Disconnect
  PROVE  Part'
<1> USE DEF SInv, Part
<1>0. PICK v, m :
      /\ v = Head(requests).url /\ m = CLUnregisterNode(v, None)
      /\ UNCHANGED <<world, nodes, notices, routes, connected_nodes, listener, reachable,
                     count, hasty>>
      /\ requests # <<>> /\ Head(requests).type = "DisconnectRemote"
      /\ v \in Tcpcl /\ requests' = Tail(requests)
      /\ IF v \in DOMAIN server.sessions
         THEN /\ Shutdown({server.sessions[v]})
              /\ server' = [server EXCEPT !.sessions = Without(@, v)]
              /\ UNCHANGED reports
         ELSE /\ reports' = Append(reports, m)
              /\ UNCHANGED <<server, sessions>>
  BY DEF Disconnect, UnknownRemote
<1>1. Head(requests) = DisconnectRemote(v) /\ v \in Peer
  BY <1>0, NextRequest DEF Requests, DisconnectRemote, Peer
<1>2. ASSUME NEW u
      PROVE  /\ Asked(u)' <=> Asked(u)
             /\ Twice(requests', {ConnectRemote(u)}) <=> Twice(requests, {ConnectRemote(u)})
             /\ Some(requests', {DisconnectRemote(u)}) =>
                  Some(requests, {DisconnectRemote(u)})
             /\ u = v => Some(requests, {DisconnectRemote(u)})
  <2>1. Head(requests) \notin {ConnectRemote(u)}
    BY <1>1 DEF ConnectRemote, DisconnectRemote
  <2> QED
    BY <1>0, <1>1, <2>1, NextRequest DEF Asked
<1>3. CASE v \in DOMAIN server.sessions
  <2>0. /\ Shutdown({server.sessions[v]}) /\ UNCHANGED reports
        /\ server' = [server EXCEPT !.sessions = Without(@, v)]
    BY <1>0, <1>3
  <2>1. /\ server'.connecting = server.connecting
        /\ DOMAIN server'.sessions = DOMAIN server.sessions \ {v}
        /\ \A u \in DOMAIN server.sessions \ {v} : server'.sessions[u] = server.sessions[u]
    <3>1. server' = [connecting |-> server.connecting,
                     sessions |-> Without(server.sessions, v)]
      BY <2>0 DEF Inv, ServerInv
    <3> QED
      BY <3>1 DEF Without
  <2>2. /\ \A u : /\ Some(sessions, Live(u))' <=> Some(sessions, Live(u))
                  /\ Twice(sessions, Live(u))' <=> Twice(sessions, Live(u))
        /\ DOMAIN sessions' = DOMAIN sessions
        /\ \A s \in DOMAIN sessions :
             /\ sessions'[s].url = sessions[s].url
             /\ sessions'[s].phase = sessions[s].phase
             /\ ~sessions'[s].closing =>
                  /\ ~sessions[s].closing
                  /\ s \in {server.sessions[v]} => sessions[s].phase = "closed"
        /\ KnownInv'
    BY <1>0, <2>0, Closing
  <2>3. ASSUME NEW s \in DOMAIN sessions, NEW u, u = sessions'[s].url,
               sessions'[s].phase # "closed", ~sessions'[s].closing, Regular(u)'
        PROVE  u \in DOMAIN server'.sessions /\ server'.sessions[u] = s
    <3>1. /\ u = sessions[s].url /\ sessions[s].phase # "closed"
          /\ ~sessions[s].closing /\ Regular(u)
      BY <1>0, <2>2, <2>3 DEF Regular
    <3>2. u \in DOMAIN server.sessions /\ server.sessions[u] = s
      BY <3>1 DEF HeldInv
    <3>3. u # v
      BY <2>2, <2>3, <3>1, <3>2
    <3> QED
      BY <2>1, <3>2, <3>3
  <2>4. HeldInv'
    BY <2>2, <2>3 DEF HeldInv
  <2>5. ASSUME NEW u \in Configured \ hasty'
        PROVE  OneAttempt(u)' /\ (Lasting(u)' => OneOutcome(u)')
    <3>0. OneAttempt(u) /\ (Lasting(u) => OneOutcome(u))
      BY <1>0, <2>5 DEF AttemptsInv
    <3>1. /\ Alive(u)' <=> Alive(u)
          /\ Twice(sessions, Live(u))' <=> Twice(sessions, Live(u))
      BY <2>2 DEF Alive
    <3>2. /\ Connecting(u)' = Connecting(u) /\ Lasting(u)' = Lasting(u)
          /\ Over(u)' = Over(u) /\ Told(u)' = Told(u)
          /\ Twice(reports, Unregistrations(u))' = Twice(reports, Unregistrations(u))
          /\ Twice(notices, Farewells(u))' = Twice(notices, Farewells(u))
          /\ nodes' = nodes
      BY <1>0, <2>0, <2>1, SameKinds DEF Connecting, Over, Told, Lasting
    <3> QED
      BY <1>2, <3>0, <3>1, <3>2 DEF OneAttempt, OneOutcome
  <2> QED
    BY <2>2, <2>4, <2>5 DEF AttemptsInv
<1>4. CASE v \notin DOMAIN server.sessions
  <2>0. /\ reports' = Append(reports, m)
        /\ UNCHANGED <<server, sessions>>
    BY <1>0, <1>4
  <2>1. m \in Reports /\ m.url = v /\ m.type = "CLUnregisterNode"
    <3>1. m \in Reports
      BY <1>0, <1>1, UnregisterType DEF Inv
    <3> QED
      BY <1>0, <3>1 DEF CLUnregisterNode
  <2>2. HeldInv'
    BY <1>0, <2>0, SameHeld
  <2>3. KnownInv'
    <3>1. \A s \in DOMAIN sessions : Accepted(s) => sessions[s].url # v
      BY <1>4, NoneAccepted
    <3> QED
      BY <1>0, <2>0, <2>1, <3>1, ReportHarmless
  <2>4. ASSUME NEW u \in Configured \ hasty'
        PROVE  OneAttempt(u)' /\ (Lasting(u)' => OneOutcome(u)')
    <3>0. OneAttempt(u) /\ (Lasting(u) => OneOutcome(u))
      BY <1>0, <2>4 DEF AttemptsInv
    <3>1. u # v => /\ Over(u)' <=> Over(u)
                   /\ Twice(reports, Unregistrations(u))' <=>
                        Twice(reports, Unregistrations(u))
      <4>1. u # v => m \notin Unregistrations(u)
        BY <2>1 DEF Unregistrations
      <4> QED
        BY <1>0, <2>0, <2>1, <4>1, Queues, SomeAppend, SameKinds DEF Over
    <3>2. /\ Connecting(u)' = Connecting(u) /\ Lasting(u)' = Lasting(u)
          /\ Alive(u)' = Alive(u) /\ Told(u)' = Told(u)
          /\ Twice(sessions, Live(u))' = Twice(sessions, Live(u))
          /\ Twice(notices, Farewells(u))' = Twice(notices, Farewells(u))
          /\ nodes' = nodes
      BY <1>0, <2>0, SameKinds DEF Connecting, Alive, Told, Lasting
    <3>3. OneAttempt(u)'
      BY <1>2, <3>0, <3>2 DEF OneAttempt
    <3>4. Lasting(u)' => u # v
      BY <1>2, <3>0, <3>2 DEF OneOutcome
    <3>5. Lasting(u)' => OneOutcome(u)'
      BY <1>2, <3>0, <3>1, <3>2, <3>4 DEF OneOutcome
    <3> QED
      BY <3>3, <3>5
  <2> QED
    BY <2>2, <2>3, <2>4 DEF AttemptsInv
<1> QED
  BY <1>3, <1>4

\* Attempts when only the sessions change, and as many of a url run as before.
LEMMA SameRunning ==
  ASSUME SInv, UNCHANGED <<world, nodes, notices, requests, reports, server, hasty>>,
         \A u \in Configured :
           /\ Some(sessions, Live(u))' <=> Some(sessions, Live(u))
           /\ Twice(sessions, Live(u))' <=> Twice(sessions, Live(u))
  PROVE  AttemptsInv'
<1>1. ASSUME NEW u \in Configured \ hasty'
      PROVE  OneAttempt(u)' /\ (Lasting(u)' => OneOutcome(u)')
  <2>0. OneAttempt(u) /\ (Lasting(u) => OneOutcome(u))
    BY <1>1 DEF SInv, Part, AttemptsInv
  <2>1. /\ Alive(u)' <=> Alive(u)
        /\ Twice(sessions, Live(u))' <=> Twice(sessions, Live(u))
    BY <1>1 DEF Alive
  <2>2. /\ Connecting(u)' = Connecting(u) /\ Lasting(u)' = Lasting(u)
        /\ Over(u)' = Over(u) /\ Told(u)' = Told(u) /\ Asked(u)' = Asked(u)
        /\ Twice(reports, Unregistrations(u))' = Twice(reports, Unregistrations(u))
        /\ Twice(notices, Farewells(u))' = Twice(notices, Farewells(u))
    BY SameKinds DEF Connecting, Over, Told, Lasting, Asked
  <2> QED
    BY <2>0, <2>1, <2>2 DEF OneAttempt, OneOutcome
<1> QED
  BY <1>1 DEF AttemptsInv

\* A connection comes in, from a url that is not configured.
LEMMA IncomingOpens ==
  ASSUME SInv, NEW v \in world.urls \cap Incoming, NewClientConnectedOnSocket(v)
  PROVE  Part'
<1> USE DEF SInv, Part
<1>0. /\ UNCHANGED <<world, nodes, notices, routes, connected_nodes, reports, requests,
                     server, reachable, count, hasty>>
      /\ sessions' = Append(sessions, NewSession(v))
  BY DEF NewClientConnectedOnSocket
<1>1. v \in Peer /\ v \notin Configured
  BY PeersAssumption DEF Peer
<1>2. PICK n : n = Len(sessions) + 1
  OBVIOUS
<1>3. /\ \A u : /\ Some(sessions, Live(u))' <=> Some(sessions, Live(u)) \/ u = v
                /\ Twice(sessions, Live(u))' <=>
                     Twice(sessions, Live(u)) \/ (Some(sessions, Live(u)) /\ u = v)
      /\ DOMAIN sessions' = DOMAIN sessions \cup {n}
      /\ \A s \in DOMAIN sessions : sessions'[s] = sessions[s]
      /\ sessions'[n] = NewSession(v)
      /\ KnownInv'
  BY <1>0, <1>1, <1>2, Opening
<1>4. AttemptsInv'
  BY <1>0, <1>1, <1>3, SameRunning
<1>5. HeldInv'
  <2>1. ~Regular(v)'
    BY <1>1 DEF Regular
  <2>2. sessions'[n].url = v
    BY <1>3 DEF NewSession
  <2> QED
    BY <1>0, <1>3, <2>1, <2>2 DEF HeldInv, Regular
<1> QED
  BY <1>3, <1>4, <1>5

\* The sessions of the listener are told to close.
LEMMA ListenerCloses ==
  ASSUME SInv, ShutdownListener
  PROVE  Part'
<1> USE DEF SInv, Part
<1>0. /\ UNCHANGED <<world, nodes, notices, routes, connected_nodes, reports, requests,
                     server, reachable, count, hasty>>
      /\ Shutdown(listener)
  BY DEF ShutdownListener
<1>1. /\ \A u : /\ Some(sessions, Live(u))' <=> Some(sessions, Live(u))
                /\ Twice(sessions, Live(u))' <=> Twice(sessions, Live(u))
      /\ DOMAIN sessions' = DOMAIN sessions
      /\ \A s \in DOMAIN sessions :
           /\ sessions'[s].url = sessions[s].url
           /\ sessions'[s].phase = sessions[s].phase
           /\ ~sessions'[s].closing => ~sessions[s].closing
      /\ KnownInv'
  BY <1>0, Closing
<1>2. AttemptsInv'
  BY <1>0, <1>1, SameRunning
<1>3. HeldInv'
  BY <1>0, <1>1 DEF HeldInv, Regular
<1> QED
  BY <1>1, <1>2, <1>3

-------------------------------------------------------------------------------
(* Sessions and their agents *)

\* One session changes: what that means for the url of each.
LEMMA OneSession ==
  ASSUME SInv, NEW t \in DOMAIN sessions, NEW z \in Sessions,
         sessions' = [sessions EXCEPT ![t] = z], z.url = sessions[t].url,
         z.closing = sessions[t].closing, UNCHANGED <<world, server, hasty>>,
         sessions[t].phase = "closed" => z.phase = "closed",
         sessions[t].info = "late" => z.info = "late"
  PROVE  /\ DOMAIN sessions' = DOMAIN sessions
         /\ \A s \in DOMAIN sessions : s # t => sessions'[s] = sessions[s]
         /\ sessions'[t] = z
         /\ \A u : Ghost(u) => Ghost(u)'
         /\ HeldInv'
         /\ \A u : u # z.url \/ (z.phase = "closed" <=> sessions[t].phase = "closed") =>
                     /\ Some(sessions, Live(u))' <=> Some(sessions, Live(u))
                     /\ Twice(sessions, Live(u))' <=> Twice(sessions, Live(u))
<1> USE DEF SInv, Part
<1>1. /\ DOMAIN sessions' = DOMAIN sessions
      /\ \A s \in DOMAIN sessions : s # t => sessions'[s] = sessions[s]
      /\ sessions'[t] = z
  OBVIOUS
<1>2. \A u : Ghost(u) => Ghost(u)'
  BY <1>1 DEF Ghost
<1>3. HeldInv'
  BY <1>1 DEF HeldInv, Regular
<1>4. ASSUME NEW u, u # z.url \/ (z.phase = "closed" <=> sessions[t].phase = "closed")
      PROVE  /\ Some(sessions, Live(u))' <=> Some(sessions, Live(u))
             /\ Twice(sessions, Live(u))' <=> Twice(sessions, Live(u))
  <2>1. \A s \in DOMAIN sessions : sessions'[s] \in Live(u) <=> sessions[s] \in Live(u)
    BY <1>1, <1>4, EachSession DEF Live
  <2>2. /\ Some(sessions', Live(u)) <=> Some(sessions, Live(u))
        /\ Twice(sessions', Live(u)) <=> Twice(sessions, Live(u))
    BY <1>1, <2>1, SomeSame
  <2> QED
    BY <2>2, SameKinds
<1> QED
  BY <1>1, <1>2, <1>3, <1>4

\* A session is established, or its agent stops without having been told: it is not
\* accepted.
LEMMA QuietStep ==
  ASSUME SInv, NEW t \in DOMAIN sessions, Establish(t) \/ ForceShutdown(t)
  PROVE  Part'
<1> USE DEF SInv, Part
<1>0. PICK z :
      /\ z \in Sessions /\ sessions' = [sessions EXCEPT ![t] = z]
      /\ z.url = sessions[t].url /\ z.closing = sessions[t].closing
      /\ z.phase = "closed" <=> sessions[t].phase = "closed"
      /\ z.info # "told" /\ sessions[t].info # "late"
  <2>0. sessions[t] \in Sessions
    BY EachSession
  <2>1. CASE ForceShutdown(t)
    <3>1. PICK z : z = [sessions[t] EXCEPT !.info = "dropped"]
      OBVIOUS
    <3>2. sessions' = [sessions EXCEPT ![t] = z] /\ sessions[t].info = "pending"
      BY <2>1, <3>1 DEF ForceShutdown
    <3>3. /\ z \in Sessions /\ z.url = sessions[t].url /\ z.info = "dropped"
          /\ z.phase = sessions[t].phase /\ z.closing = sessions[t].closing
      BY <2>0, <3>1, <3>2 DEF Sessions
    <3> QED
      BY <3>2, <3>3
  <2>2. CASE Establish(t)
    <3>1. PICK z : z = [sessions[t] EXCEPT !.phase = "established", !.info = "pending"]
      OBVIOUS
    <3>2. sessions' = [sessions EXCEPT ![t] = z] /\ sessions[t].phase = "handshake"
      BY <2>2, <3>1 DEF Establish
    <3>3. /\ z \in Sessions /\ z.url = sessions[t].url /\ z.info = "pending"
          /\ z.phase = "established" /\ z.closing = sessions[t].closing
      BY <2>0, <3>1 DEF Sessions
    <3>4. sessions[t].info = "none"
      BY <2>0, <3>2 DEF Sessions
    <3> QED
      BY <3>2, <3>3, <3>4
  <2> QED
    BY <2>1, <2>2
<1>1. UNCHANGED <<world, nodes, notices, routes, connected_nodes, reports, requests,
                  server, listener, reachable, count, hasty>>
  BY DEF Establish, ForceShutdown
<1>2. /\ DOMAIN sessions' = DOMAIN sessions
      /\ \A s \in DOMAIN sessions : s # t => sessions'[s] = sessions[s]
      /\ sessions'[t] = z
      /\ \A u : Ghost(u) => Ghost(u)'
      /\ HeldInv'
      /\ \A u : /\ Some(sessions, Live(u))' <=> Some(sessions, Live(u))
                /\ Twice(sessions, Live(u))' <=> Twice(sessions, Live(u))
  BY <1>0, <1>1, OneSession
<1>3. AttemptsInv'
  BY <1>1, <1>2, SameRunning
<1>4. ASSUME NEW s \in DOMAIN sessions, NEW u, u = sessions'[s].url, Accepted(s)'
      PROVE  Known(u, s)'
  <2>1. s # t /\ sessions'[s] = sessions[s]
    BY <1>0, <1>2, <1>4 DEF Accepted
  <2>2. Accepted(s)
    BY <1>1, <1>4, <2>1, SameKinds DEF Accepted, Regular
  <2>3. Known(u, s)
    BY <1>4, <2>1, <2>2 DEF KnownInv
  <2>4. Listed(u) => Listed(u)'
    BY <1>1, SameKinds DEF Listed
  <2> QED
    BY <1>1, <1>2, <2>3, <2>4, StillKnown
<1>5. KnownInv'
  BY <1>2, <1>4 DEF KnownInv
<1> QED
  BY <1>2, <1>3, <1>5

\* The agent registers its session: the registration is the last message about the
\* url, or that of a ghost.
LEMMA AgentTold ==
  ASSUME SInv, NEW t \in DOMAIN sessions, TellAgent(t)
  PROVE  Part'
<1> USE DEF SInv, Part
<1>0. PICK v, z, m :
      /\ v = sessions[t].url
      /\ z = [sessions[t] EXCEPT !.info =
                 IF sessions[t].phase = "closed" THEN "late" ELSE "told"]
      /\ m = CLRegisterNode(v, endpoint(v), t)
      /\ sessions[t].info = "pending"
      /\ sessions' = [sessions EXCEPT ![t] = z]
      /\ reports' = Append(reports, m)
      /\ UNCHANGED <<world, nodes, notices, routes, connected_nodes, requests, server,
                     listener, reachable, count, hasty>>
  BY DEF TellAgent
<1>1. /\ z \in Sessions /\ z.url = v /\ z.phase = sessions[t].phase
      /\ z.closing = sessions[t].closing
      /\ z.info = IF z.phase = "closed" THEN "late" ELSE "told"
  BY <1>0, EachSession DEF Sessions
<1>2. m \in Reports /\ m.url = v /\ m.type = "CLRegisterNode" /\ m.sender = t
  <2>1. v \in Peer /\ endpoint(v) \in Endpoints /\ t \in Ids
    BY <1>0, SessionType
  <2> QED
    BY <1>0, <2>1 DEF CLRegisterNode, Reports
<1>3. /\ DOMAIN sessions' = DOMAIN sessions
      /\ \A s \in DOMAIN sessions : s # t => sessions'[s] = sessions[s]
      /\ sessions'[t] = z
      /\ \A u : Ghost(u) => Ghost(u)'
      /\ HeldInv'
      /\ \A u : /\ Some(sessions, Live(u))' <=> Some(sessions, Live(u))
                /\ Twice(sessions, Live(u))' <=> Twice(sessions, Live(u))
  BY <1>0, <1>1, OneSession
<1>4. ASSUME NEW u \in Configured \ hasty'
      PROVE  OneAttempt(u)' /\ (Lasting(u)' => OneOutcome(u)')
  <2>0. OneAttempt(u) /\ (Lasting(u) => OneOutcome(u))
    BY <1>0, <1>4 DEF AttemptsInv
  <2>1. /\ Alive(u)' <=> Alive(u)
        /\ Twice(sessions, Live(u))' <=> Twice(sessions, Live(u))
    BY <1>3 DEF Alive
  <2>2. /\ Over(u)' <=> Over(u)
        /\ Twice(reports, Unregistrations(u))' <=> Twice(reports, Unregistrations(u))
    <3>1. m \notin Unregistrations(u)
      BY <1>2 DEF Unregistrations
    <3> QED
      BY <1>0, <1>2, <3>1, Queues, SomeAppend, SameKinds DEF Over
  <2>3. /\ Connecting(u)' = Connecting(u) /\ Lasting(u)' = Lasting(u)
        /\ Told(u)' = Told(u) /\ Asked(u)' = Asked(u)
        /\ Twice(notices, Farewells(u))' = Twice(notices, Farewells(u))
        /\ nodes' = nodes /\ requests' = requests
    BY <1>0, SameKinds DEF Connecting, Told, Lasting, Asked
  <2> QED
    BY <2>0, <2>1, <2>2, <2>3 DEF OneAttempt, OneOutcome
<1>5. AttemptsInv'
  BY <1>4 DEF AttemptsInv
<1>6. ASSUME NEW s \in DOMAIN sessions, NEW u, u = sessions'[s].url, Accepted(s)'
      PROVE  Known(u, s)'
  <2>1. CASE u = v
    <3>1. s = t \/ Ghost(v)'
      <4> SUFFICES ASSUME s # t PROVE Ghost(v)'
        OBVIOUS
      <4>1. sessions'[s] = sessions[s]
        BY <1>3
      <4>2. Accepted(s)
        BY <1>0, <1>6, <4>1, SameKinds DEF Accepted, Regular
      <4>3. sessions[t].phase = "closed"
        BY <1>0, <1>6, <2>1, <4>1, <4>2, NoneAccepted
      <4> QED
        BY <1>1, <1>3, <4>3 DEF Ghost
    <3>2. m \in Registrations(u, s)'
      BY <1>0, <1>2, <2>1, <3>1, SameMessages DEF Registrations
    <3>3. EndsIn(reports', ReportsOf(u), Registrations(u, s)')
      BY <1>0, <1>2, <3>2, Queues, EndsAppend
    <3> QED
      BY <1>0, <3>3, SameKinds DEF Known
  <2>2. CASE u # v
    <3>1. sessions'[s] = sessions[s]
      BY <1>1, <1>3, <1>6, <2>2
    <3>2. Accepted(s)
      BY <1>0, <1>6, <3>1, SameKinds DEF Accepted, Regular
    <3>3. Known(u, s)
      BY <1>6, <3>1, <3>2 DEF KnownInv
    <3> QED
      BY <1>0, <1>2, <1>3, <2>2, <3>3, OtherReport
  <2> QED
    BY <2>1, <2>2
<1>7. KnownInv'
  BY <1>3, <1>6 DEF KnownInv
<1> QED
  BY <1>3, <1>5, <1>7

\* A session ends: it becomes a report, and there is no other session of the url.
LEMMA SessionEnds ==
  ASSUME SInv, NEW t \in DOMAIN sessions, End(t)
  PROVE  Part'
<1> USE DEF SInv, Part
<1>0. PICK v, z :
      /\ v = sessions[t].url /\ z = [sessions[t] EXCEPT !.phase = "closed"]
      /\ sessions[t].phase # "closed"
      /\ sessions' = [sessions EXCEPT ![t] = z]
      /\ \E n \in {None, endpoint(v)} : reports' = Append(reports, CLUnregisterNode(v, n))
      /\ UNCHANGED <<world, nodes, notices, routes, connected_nodes, requests, server,
                     listener, reachable, hasty>>
  BY DEF End
<1>1. /\ z \in Sessions /\ z.url = v /\ z.phase = "closed"
      /\ z.closing = sessions[t].closing /\ z.info = sessions[t].info
  BY <1>0, EachSession DEF Sessions
<1>2. PICK m \in Reports : /\ m.url = v /\ m.type = "CLUnregisterNode"
                           /\ reports' = Append(reports, m)
  <2>1. PICK n \in {None, endpoint(v)} : reports' = Append(reports, CLUnregisterNode(v, n))
    BY <1>0
  <2>2. CLUnregisterNode(v, n) \in Reports
    BY <1>0, SessionType, UnregisterType DEF Inv
  <2> QED
    BY <2>1, <2>2 DEF CLUnregisterNode
<1>3. /\ DOMAIN sessions' = DOMAIN sessions
      /\ \A s \in DOMAIN sessions : s # t => sessions'[s] = sessions[s]
      /\ sessions'[t] = z
      /\ \A u : Ghost(u) => Ghost(u)'
      /\ HeldInv'
      /\ \A u : u # v => /\ Some(sessions, Live(u))' <=> Some(sessions, Live(u))
                         /\ Twice(sessions, Live(u))' <=> Twice(sessions, Live(u))
  BY <1>0, <1>1, OneSession
<1>4. ASSUME NEW u \in Configured \ hasty'
      PROVE  OneAttempt(u)' /\ (Lasting(u)' => OneOutcome(u)')
  <2>0. OneAttempt(u) /\ (Lasting(u) => OneOutcome(u))
    BY <1>0, <1>4 DEF AttemptsInv
  <2>1. u # v => /\ Alive(u)' <=> Alive(u)
                 /\ Twice(sessions, Live(u))' <=> Twice(sessions, Live(u))
    BY <1>3 DEF Alive
  <2>2. u = v => Alive(u) /\ ~Alive(u)' /\ ~Twice(sessions, Live(u))'
    <3> SUFFICES ASSUME u = v PROVE Alive(u) /\ ~Alive(u)' /\ ~Twice(sessions, Live(u))'
      OBVIOUS
    <3>1. sessions[t] \in Live(u)
      BY <1>0, EachSession DEF Live
    <3>2. \A s \in DOMAIN sessions : s # t => sessions[s] \notin Live(u)
      <4> SUFFICES ASSUME NEW s \in DOMAIN sessions, s # t, sessions[s] \in Live(u)
                   PROVE  FALSE
        OBVIOUS
      <4>1. s \in Nat /\ t \in Nat
        BY Queues, LenProperties
      <4>2. s < t \/ t < s
        BY <4>1
      <4> QED
        BY <2>0, <3>1, <4>2 DEF OneAttempt, Twice
    <3>3. \A s \in DOMAIN sessions' : sessions'[s] \notin Live(u)
      BY <1>1, <1>3, <3>2 DEF Live
    <3>4. ~Some(sessions', Live(u)) /\ ~Twice(sessions', Live(u))
      BY <3>3 DEF Some, Twice
    <3>5. Some(sessions, Live(u))
      BY <3>1 DEF Some
    <3> QED
      BY <1>0, <3>4, <3>5, SameKinds DEF Alive
  <2>3. /\ Over(u)' <=> Over(u) \/ u = v
        /\ Twice(reports, Unregistrations(u))' <=>
             Twice(reports, Unregistrations(u)) \/ (Over(u) /\ u = v)
    <3>1. m \in Unregistrations(u) <=> u = v
      BY <1>2 DEF Unregistrations
    <3> QED
      BY <1>0, <1>2, <3>1, Queues, SomeAppend, SameKinds DEF Over
  <2>4. /\ Connecting(u)' = Connecting(u) /\ Lasting(u)' = Lasting(u)
        /\ Told(u)' = Told(u) /\ Asked(u)' = Asked(u)
        /\ Twice(notices, Farewells(u))' = Twice(notices, Farewells(u))
        /\ nodes' = nodes /\ requests' = requests
    BY <1>0, SameKinds DEF Connecting, Told, Lasting, Asked
  <2> QED
    BY <2>0, <2>1, <2>2, <2>3, <2>4 DEF OneAttempt, OneOutcome
<1>5. AttemptsInv'
  BY <1>4 DEF AttemptsInv
<1>6. ASSUME NEW s \in DOMAIN sessions, NEW u, u = sessions'[s].url, Accepted(s)'
      PROVE  Known(u, s)'
  <2>1. s # t /\ sessions'[s] = sessions[s]
    BY <1>1, <1>3, <1>6 DEF Accepted
  <2>2. Accepted(s)
    BY <1>0, <1>6, <2>1, SameKinds DEF Accepted, Regular
  <2>3. Known(u, s)
    BY <1>6, <2>1, <2>2 DEF KnownInv
  <2>4. u # v
    BY <1>0, <1>6, <2>1, <2>2, NoneAccepted
  <2> QED
    BY <1>0, <1>2, <1>3, <2>3, <2>4, OtherReport
<1>7. KnownInv'
  BY <1>3, <1>6 DEF KnownInv
<1> QED
  BY <1>3, <1>5, <1>7

-------------------------------------------------------------------------------
(* Every step, and the theorems *)

\* Peers come and go, or something else happens.
LEMMA OtherStep ==
  ASSUME SInv, UNCHANGED <<world, nodes, notices, connected_nodes, reports, requests,
                           server, sessions, hasty>>
  PROVE  Part'
BY SameAttempts, SameHeld, SameKnown, SameKinds DEF SInv, Part, Listed

\* Every step of the node keeps the invariant.
LEMMA NextSInv == SInv /\ [Next]_vars => SInv'
<1> SUFFICES ASSUME SInv, [Next]_vars PROVE SInv'
  OBVIOUS
<1>0. Inv'
  BY NextInv DEF SInv
<1> SUFFICES Part'
  BY <1>0 DEF SInv
<1>1. ASSUME NEW u \in world.urls \cap Configured, AddNode(u) \/ Change(u) PROVE Part'
  BY <1>1, AddNodeStarts, OtherStep DEF Change
<1>2. ASSUME NEW u \in world.urls, RemoveNode(u) PROVE Part'
  BY <1>2, RemoveNodeStarts
<1>3. CASE NodeAgent \/ TryConnect
  BY <1>3, ConnectedNotice, DisconnectedNotice, TryConnectStarts DEF NodeAgent
<1>4. CASE ConvergenceAgent
  BY <1>4, RegistrationTold, UnregistrationTold DEF ConvergenceAgent
<1>5. CASE Server
  BY <1>5, UnknownSchemeEnds, ConnectStarts, ConnectionOpens, ConnectionFails,
     DisconnectCloses DEF Server
<1>6. ASSUME NEW u \in world.urls \cap Incoming, NewClientConnectedOnSocket(u) PROVE Part'
  BY <1>6, IncomingOpens
<1>7. CASE ShutdownListener
  BY <1>7, ListenerCloses
<1>8. ASSUME NEW s \in DOMAIN sessions,
             Establish(s) \/ SessionAgent(s) \/ EndAsItMust(s) \/ Lose(s)
      PROVE  Part'
  BY <1>8, QuietStep, AgentTold, SessionEnds DEF SessionAgent, EndAsItMust, Lose
<1>9. CASE UNCHANGED vars
  BY <1>9, OtherStep DEF vars
<1> QED
  BY <1>1, <1>2, <1>3, <1>4, <1>5, <1>6, <1>7, <1>8, <1>9 DEF Next

\* The invariant holds at all times.
LEMMA SessionInvariance == Spec => []SInv
<1>1. Init => SInv
  BY InitInv, InitPart DEF SInv
<1> QED
  BY <1>1, NextSInv, PTL DEF Spec

\* However connection attempts, retries of the node agent, failures, removals and
\* reports interleave, at most one session to a configured url runs at a time.
THEOREM SingleSession == Spec => []OneSessionPerUrl
<1>1. SInv => OneSessionPerUrl
  <2> SUFFICES ASSUME SInv, NEW s \in DOMAIN sessions, NEW t \in DOMAIN sessions,
                      s # t, sessions[s].url = sessions[t].url, Regular(sessions[s].url),
                      sessions[s].phase # "closed", sessions[t].phase # "closed"
               PROVE  FALSE
    BY DEF OneSessionPerUrl
  <2>1. PICK u : u = sessions[s].url
    OBVIOUS
  <2>2. sessions[s] \in Live(u) /\ sessions[t] \in Live(u)
    BY <2>1, EachSession DEF Live
  <2>3. ~Twice(sessions, Live(u))
    BY <2>1 DEF SInv, Part, AttemptsInv, OneAttempt, Regular
  <2>4. s \in Nat /\ t \in Nat
    BY Queues, LenProperties
  <2>5. s < t \/ t < s
    BY <2>4
  <2> QED
    BY <2>2, <2>3, <2>5 DEF Twice
<1> QED
  BY <1>1, SessionInvariance, PTL

\* A session whose registration was processed is known to the convergence agent, the
\* node agent and the routing agent as long as it runs and is not being closed: no
\* late message of an earlier session, attempt or removal undoes that.
THEOREM KnownSessions == Spec => []SessionsAreKnown
<1>1. SInv => SessionsAreKnown
  <2> SUFFICES ASSUME SInv, NEW s \in DOMAIN sessions, NEW u, u = sessions[s].url,
                      Accepted(s),
                      \A m \in Range(reports) \cup Range(notices) : m.url # u
               PROVE  /\ endpoint(u) \in DOMAIN connected_nodes
                      /\ Ghost(u) \/ connected_nodes[endpoint(u)] = s
                      /\ u \in DOMAIN nodes
                      /\ nodes[u].connection_status \in {"Connected", "Disconnecting"}
                      /\ endpoint(u) \in routes
    BY DEF SessionsAreKnown, Accepted
  <2>1. Known(u, s)
    BY DEF SInv, Part, KnownInv
  <2>2. /\ ~EndsIn(reports, ReportsOf(u), Registrations(u, s))
        /\ ~EndsIn(notices, NoticesOf(u), Welcomes(u))
    BY DEF EndsIn, Registrations, Welcomes, Range
  <2>3. Connected(u, s) /\ Listed(u)
    BY <2>1, <2>2 DEF Known
  <2>4. endpoint(u) # None
    BY SessionType, PeersAssumption DEF SInv
  <2>5. endpoint(u) \in routes
    BY <2>3, <2>4 DEF SInv, Inv, RoutesInv, RoutesFollowNodes, Listed, Accepted
  <2> QED
    BY <2>3, <2>5 DEF Connected, Listed
<1> QED
  BY <1>1, SessionInvariance, PTL
==============================================================================

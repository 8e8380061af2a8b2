-------------------------------- MODULE Peers --------------------------------
(***************************************************************************)
(* How a node of dtrd comes to know its peers: the node agent with its     *)
(* list of nodes, the convergence agent, the TCPCL servers that connect    *)
(* and accept, and the sessions with their agents.  What a session carries *)
(* is the matter of TcpclSession; here it is established and ends.         *)
(*                                                                         *)
(* Every actor handles the messages of its mailbox in order.  The messages *)
(* AgentConnectNode and AgentDisconnectNode are only passed on by the      *)
(* convergence agent, so that its mailbox and that of the server are one   *)
(* queue for them.  Routes and connections of the bundle protocol agent    *)
(* have one writer each: routes is the table once the routing agent has    *)
(* read its mailbox, connected_nodes also stands for the connections the   *)
(* bundle protocol agent was told of.                                      *)
(*                                                                         *)
(* There are two TCPCLServer actors.  The one that main starts accepts     *)
(* connections and holds their sessions; the one of the registry connects, *)
(* and is the one asked to disconnect.                                     *)
(***************************************************************************)
EXTENDS Integers, Sequences, FiniteSets, FiniteSetsExt, SequencesExt

CONSTANTS Configured,    \* urls an operator may add
          Incoming,      \* urls (addresses) of connections that come in
          Tcpcl,         \* the urls with the scheme tcpcl
          Endpoints,     \* node ids
          Worlds,        \* what happens to the node
          MaxSessions    \* bound: sessions in a behaviour

Urls == Configured \cup Incoming
None == "none"

\* The urls of a world, the node id behind each url, and bounds on its events.
Events == {"adds", "removals", "losses", "outages"}
World == [urls : SUBSET Urls, endpoint : [Urls -> Endpoints], bound : [Events -> Nat]]

ASSUME PeersAssumption ==
  /\ Configured \cap Incoming = {} /\ Incoming \subseteq Tcpcl /\ Tcpcl \subseteq Urls
  /\ None \notin Endpoints \cup Urls
  /\ \A w \in Worlds : w \in World
  /\ MaxSessions \in Nat

VARIABLES
  world,            \* the world, a member of Worlds
  nodes,            \* nodeagent: the list of nodes, by url
  notices,          \* its mailbox: NotifyNodeConnected, NotifyNodeDisconnected
  routes,           \* routingagent: targets of routes of type Connected
  connected_nodes,  \* converganceagent: the session of each connected endpoint
  reports,          \* its mailbox: CLRegisterNode, CLUnregisterNode
  requests,         \* ConnectRemote and DisconnectRemote for the server
  server,           \* the server of the registry: busy, and its sessions by url
  listener,         \* the sessions of the server that main starts
  sessions,         \* the sessions, by the order they were opened
  reachable,        \* external: the urls where a peer answers
  count,            \* events so far
  hasty             \* history: urls added again before their removal was over

vars == <<world, nodes, notices, routes, connected_nodes, reports, requests, server,
          listener, sessions, reachable, count, hasty>>

Without(f, x) == [y \in DOMAIN f \ {x} |-> f[y]]
With(f, x, v) == [y \in DOMAIN f \cup {x} |-> IF y = x THEN v ELSE f[y]]
Counting(event) ==
  /\ count[event] < world.bound[event]
  /\ count' = [count EXCEPT ![event] = @ + 1]

\* Messages.
ConnectRemote(u) == [type |-> "ConnectRemote", url |-> u]
DisconnectRemote(u) == [type |-> "DisconnectRemote", url |-> u]
CLRegisterNode(u, n, s) == [type |-> "CLRegisterNode", url |-> u, node |-> n, sender |-> s]
CLUnregisterNode(u, n) == [type |-> "CLUnregisterNode", url |-> u, node |-> n, sender |-> 0]
Notify(type, u, n) == [type |-> type, url |-> u, endpoint |-> n]

Node(status, n, temporary) ==
  [connection_status |-> status, remote_endpoint |-> n, temporary |-> temporary]

NewSession(u) == [url |-> u, phase |-> "handshake", closing |-> FALSE, info |-> "none"]

Init ==
  /\ world \in Worlds
  /\ nodes = <<>> /\ notices = <<>> /\ routes = {}
  /\ connected_nodes = <<>> /\ reports = <<>> /\ requests = <<>>
  /\ server = [connecting |-> None, sessions |-> <<>>]
  /\ listener = {} /\ sessions = <<>>
  /\ reachable \in SUBSET (world.urls \cap Configured)
  /\ count = [event \in Events |-> 0]
  /\ hasty = {}

-------------------------------------------------------------------------------
(* The node agent *)

\* Messages about u or a session of it are still under way.
Unsettled(u) ==
  \/ \E m \in Range(requests) \cup Range(reports) \cup Range(notices) : m.url = u
  \/ server.connecting = u
  \/ \E s \in DOMAIN sessions :
       /\ sessions[s].url = u
       /\ sessions[s].phase # "closed" \/ sessions[s].info = "pending"

\* Mutant: nodes are compared with all their fields, so that a node that is
\* listed with another status is connected to once more.
AddAgain(u) ==
  /\ Counting("adds")
  /\ nodes' = With(nodes, u, Node("Connecting", None, FALSE))
  /\ requests' = Append(requests, ConnectRemote(u))
  /\ UNCHANGED <<world, notices, routes, connected_nodes, reports, server, listener,
                 sessions, reachable, hasty>>

\* A node that is listed, whatever its status, is left as it is.
AddNode(u) ==
  /\ Counting("adds")
  /\ IF u \in DOMAIN nodes THEN UNCHANGED <<nodes, requests, hasty>>
     ELSE /\ nodes' = With(nodes, u, Node("Connecting", None, FALSE))
          /\ requests' = Append(requests, ConnectRemote(u))
          /\ hasty' = IF Unsettled(u) THEN hasty \cup {u} ELSE hasty
  /\ UNCHANGED <<world, notices, routes, connected_nodes, reports, server, listener,
                 sessions, reachable>>

\* Mutant: the node leaves the list at once, not when its session has ended.
RemoveAtOnce(u) ==
  /\ Counting("removals")
  /\ u \in DOMAIN nodes
  /\ nodes' = Without(nodes, u)
  /\ routes' = routes \ {nodes[u].remote_endpoint}
  /\ requests' = Append(requests, DisconnectRemote(u))
  /\ UNCHANGED <<world, notices, connected_nodes, reports, server, listener, sessions,
                 reachable, hasty>>

RemoveNode(u) ==
  /\ Counting("removals")
  /\ u \in DOMAIN nodes
  /\ nodes' = [nodes EXCEPT ![u].temporary = TRUE,
                            ![u].connection_status = "Disconnecting"]
  /\ requests' = Append(requests, DisconnectRemote(u))
  /\ UNCHANGED <<world, notices, routes, connected_nodes, reports, server, listener,
                 sessions, reachable, hasty>>

NotifyNodeConnected ==
  /\ notices # <<>> /\ Head(notices).type = "Connected"
  /\ LET u == Head(notices).url
         n == Head(notices).endpoint IN
       /\ nodes' = IF u \in DOMAIN nodes
                   THEN [nodes EXCEPT ![u].connection_status = "Connected",
                                      ![u].remote_endpoint = n]
                   ELSE With(nodes, u, Node("Connected", n, TRUE))
       /\ routes' = routes \cup {n}
  /\ notices' = Tail(notices)
  /\ UNCHANGED <<world, connected_nodes, reports, requests, server, listener,
                 sessions, reachable, count, hasty>>

\* Mutant: the endpoint is forgotten before the route is removed.
RouteKept(u) == routes

\* RemoveRoute for the endpoint of a node that is disconnected.
RemoveRoute(u) == routes \ {nodes[u].remote_endpoint}

NotifyNodeDisconnected ==
  /\ notices # <<>> /\ Head(notices).type = "Disconnected"
  /\ LET u == Head(notices).url IN
       IF u \notin DOMAIN nodes THEN UNCHANGED <<nodes, routes>>
       ELSE /\ routes' = RemoveRoute(u)
            /\ nodes' = IF nodes[u].temporary THEN Without(nodes, u)
                        ELSE [nodes EXCEPT ![u].connection_status = "Disconnected",
                                           ![u].remote_endpoint = None]
  /\ notices' = Tail(notices)
  /\ UNCHANGED <<world, connected_nodes, reports, requests, server, listener,
                 sessions, reachable, count, hasty>>

\* Mutant: only a node that has been connected is due.
DueWithEndpoint == {u \in DOMAIN nodes : /\ nodes[u].connection_status = "Disconnected"
                                         /\ nodes[u].remote_endpoint # None
                                         /\ ~nodes[u].temporary}

\* The nodes that TryConnect connects to again.
Due == {u \in DOMAIN nodes : /\ nodes[u].connection_status = "Disconnected"
                             /\ ~nodes[u].temporary}

\* Every 60 seconds.
TryConnect ==
  /\ Due # {}
  /\ nodes' = [u \in DOMAIN nodes |->
                 IF u \in Due THEN [nodes[u] EXCEPT !.connection_status = "Connecting"]
                              ELSE nodes[u]]
  /\ \E order \in SetToSeqs(Due) :
       requests' = requests \o [i \in DOMAIN order |-> ConnectRemote(order[i])]
  /\ UNCHANGED <<world, notices, routes, connected_nodes, reports, server, listener,
                 sessions, reachable, count, hasty>>

-------------------------------------------------------------------------------
(* The convergence agent *)

\* A url with another scheme is only logged.
UnknownScheme ==
  /\ requests # <<>> /\ Head(requests).url \notin Tcpcl
  /\ requests' = Tail(requests)
  /\ UNCHANGED <<world, nodes, notices, routes, connected_nodes, reports, server,
                 listener, sessions, reachable, count, hasty>>

RegisterNode ==
  /\ reports # <<>> /\ Head(reports).type = "CLRegisterNode"
  /\ LET m == Head(reports) IN
       /\ connected_nodes' = With(connected_nodes, m.node, m.sender)
       /\ notices' = Append(notices, Notify("Connected", m.url, m.node))
  /\ reports' = Tail(reports)
  /\ UNCHANGED <<world, nodes, routes, requests, server, listener, sessions, reachable,
                 count, hasty>>

UnregisterNode ==
  /\ reports # <<>> /\ Head(reports).type = "CLUnregisterNode"
  /\ LET m == Head(reports) IN
       /\ connected_nodes' = Without(connected_nodes, m.node)
       /\ notices' = Append(notices, Notify("Disconnected", m.url, None))
  /\ reports' = Tail(reports)
  /\ UNCHANGED <<world, nodes, routes, requests, server, listener, sessions, reachable,
                 count, hasty>>

-------------------------------------------------------------------------------
(* The TCPCL servers *)

\* The server waits for the connection and handles no other message meanwhile.
StartConnect ==
  /\ server.connecting = None
  /\ requests # <<>> /\ Head(requests).type = "ConnectRemote"
  /\ Head(requests).url \in Tcpcl
  /\ server' = [server EXCEPT !.connecting = Head(requests).url]
  /\ requests' = Tail(requests)
  /\ UNCHANGED <<world, nodes, notices, routes, connected_nodes, reports, listener,
                 sessions, reachable, count, hasty>>

ConnectSucceeds ==
  /\ server.connecting \in reachable
  /\ Len(sessions) < MaxSessions
  /\ sessions' = Append(sessions, NewSession(server.connecting))
  /\ server' = [connecting |-> None,
                sessions |-> With(server.sessions, server.connecting, Len(sessions) + 1)]
  /\ UNCHANGED <<world, nodes, notices, routes, connected_nodes, reports, requests,
                 listener, reachable, count, hasty>>

\* Mutant: a connection that fails is not reported.
Unreported == reports

FailureReported == Append(reports, CLUnregisterNode(server.connecting, None))

ConnectFails ==
  /\ server.connecting \in Configured \ reachable
  /\ reports' = FailureReported
  /\ server' = [server EXCEPT !.connecting = None]
  /\ UNCHANGED <<world, nodes, notices, routes, connected_nodes, requests, listener,
                 sessions, reachable, count, hasty>>

\* Shutdown reaches the session only while it runs; the agent of an ended one
\* is gone.
Shutdown(ids) ==
  sessions' = [s \in DOMAIN sessions |->
                 IF s \in ids /\ sessions[s].phase # "closed"
                 THEN [sessions[s] EXCEPT !.closing = TRUE] ELSE sessions[s]]

\* Mutant: a remote that the server does not know is only logged.
Ignored(u) == reports

UnknownRemote(u) == Append(reports, CLUnregisterNode(u, None))

Disconnect ==
  /\ server.connecting = None
  /\ requests # <<>> /\ Head(requests).type = "DisconnectRemote"
  /\ LET u == Head(requests).url IN
       /\ u \in Tcpcl
       /\ IF u \in DOMAIN server.sessions
          THEN /\ Shutdown({server.sessions[u]})
               /\ server' = [server EXCEPT !.sessions = Without(@, u)]
               /\ UNCHANGED reports
          ELSE /\ reports' = UnknownRemote(u)
               /\ UNCHANGED <<server, sessions>>
  /\ requests' = Tail(requests)
  /\ UNCHANGED <<world, nodes, notices, routes, connected_nodes, listener, reachable,
                 count, hasty>>

NewClientConnectedOnSocket(u) ==
  /\ \A s \in DOMAIN sessions : sessions[s].url # u
  /\ Len(sessions) < MaxSessions
  /\ sessions' = Append(sessions, NewSession(u))
  /\ listener' = listener \cup {Len(sessions) + 1}
  /\ UNCHANGED <<world, nodes, notices, routes, connected_nodes, reports, requests,
                 server, reachable, count, hasty>>

\* main stops the process: only the sessions of the listener are closed.
ShutdownListener ==
  /\ listener # {}
  /\ Shutdown(listener)
  /\ listener' = {}
  /\ UNCHANGED <<world, nodes, notices, routes, connected_nodes, reports, requests,
                 server, reachable, count, hasty>>

-------------------------------------------------------------------------------
(* Sessions and their agents *)

\* Mutant: the node id is read before the peer has sent it.
NotYetKnown(u) == None

\* The node id of the peer.
endpoint(u) == world.endpoint[u]

\* The information about the connection waits for the agent.
Establish(s) ==
  /\ sessions[s].phase = "handshake"
  /\ sessions' = [sessions EXCEPT ![s].phase = "established", ![s].info = "pending"]
  /\ UNCHANGED <<world, nodes, notices, routes, connected_nodes, reports, requests,
                 server, listener, reachable, count, hasty>>

\* StreamHandler<ConnectionInfo>, of a session that may have ended meanwhile.
TellAgent(s) ==
  /\ sessions[s].info = "pending"
  /\ sessions' = [sessions EXCEPT ![s].info =
                     IF sessions[s].phase = "closed" THEN "late" ELSE "told"]
  /\ LET u == sessions[s].url IN
       reports' = Append(reports, CLRegisterNode(u, endpoint(u), s))
  /\ UNCHANGED <<world, nodes, notices, routes, connected_nodes, requests, server,
                 listener, reachable, count, hasty>>

\* The agent of a session that failed is forced to stop, maybe before it was told.
ForceShutdown(s) ==
  /\ sessions[s].info = "pending" /\ sessions[s].phase = "closed"
  /\ sessions' = [sessions EXCEPT ![s].info = "dropped"]
  /\ UNCHANGED <<world, nodes, notices, routes, connected_nodes, reports, requests,
                 server, listener, reachable, count, hasty>>

\* The end of manage_connection: the task of the session unregisters it itself,
\* with the endpoint if the session has got as far as to know it.
End(s) ==
  /\ sessions[s].phase # "closed"
  /\ sessions' = [sessions EXCEPT ![s].phase = "closed"]
  /\ LET u == sessions[s].url IN
       \E n \in {None, endpoint(u)} :
         /\ n = None => sessions[s].phase = "handshake"
         /\ reports' = Append(reports, CLUnregisterNode(u, n))
  /\ UNCHANGED <<world, nodes, notices, routes, connected_nodes, requests, server,
                 listener, reachable, hasty>>

\* It was closed, or keepalives show that the peer is gone.
EndAsItMust(s) ==
  /\ sessions[s].closing \/ sessions[s].url \in Configured \ reachable
  /\ End(s)
  /\ UNCHANGED count

\* The peer closes it, or the connection breaks.
Lose(s) ==
  /\ Counting("losses")
  /\ End(s)

\* External: a peer becomes reachable, or stops answering.
Change(u) ==
  /\ Counting("outages")
  /\ reachable' = IF u \in reachable THEN reachable \ {u} ELSE reachable \cup {u}
  /\ UNCHANGED <<world, nodes, notices, routes, connected_nodes, reports, requests,
                 server, listener, sessions, hasty>>

-------------------------------------------------------------------------------
NodeAgent == NotifyNodeConnected \/ NotifyNodeDisconnected
ConvergenceAgent == RegisterNode \/ UnregisterNode
Server == UnknownScheme \/ StartConnect \/ ConnectSucceeds \/ ConnectFails \/ Disconnect
SessionAgent(s) == TellAgent(s) \/ ForceShutdown(s)

Next ==
  \/ \E u \in world.urls \cap Configured : AddNode(u) \/ Change(u)
  \/ \E u \in world.urls : RemoveNode(u)
  \/ NodeAgent \/ TryConnect \/ ConvergenceAgent \/ Server
  \/ \E u \in world.urls \cap Incoming : NewClientConnectedOnSocket(u)
  \/ ShutdownListener
  \/ \E s \in DOMAIN sessions :
       Establish(s) \/ SessionAgent(s) \/ EndAsItMust(s) \/ Lose(s)

Spec == Init /\ [][Next]_vars

Opened(s) == s \in DOMAIN sessions

\* Mailboxes are read and the timer fires; connecting ends, with success if
\* the peer answers; a handshake ends; a session that is closed or whose peer
\* is gone ends.  Nothing is assumed of operators, peers and the network.
FairSpec ==
  /\ Spec
  /\ WF_vars(NodeAgent) /\ WF_vars(TryConnect)
  /\ WF_vars(ConvergenceAgent) /\ WF_vars(Server)
  /\ \A s \in 1..MaxSessions :
       /\ WF_vars(Opened(s) /\ Establish(s))
       /\ WF_vars(Opened(s) /\ SessionAgent(s))
       /\ WF_vars(Opened(s) /\ EndAsItMust(s))

-------------------------------------------------------------------------------
Ids == 1..MaxSessions
Statuses == {"Connecting", "Connected", "Disconnecting", "Disconnected"}

\* Type invariant.
TypeOK ==
  /\ world \in Worlds
  /\ DOMAIN nodes \subseteq Urls
  /\ \A u \in DOMAIN nodes :
       nodes[u] \in [connection_status : Statuses, remote_endpoint : Endpoints \cup {None},
                     temporary : BOOLEAN]
  /\ notices \in Seq([type : {"Connected", "Disconnected"}, url : Urls,
                      endpoint : Endpoints \cup {None}])
  /\ routes \subseteq Endpoints
  /\ DOMAIN connected_nodes \subseteq Endpoints /\ Range(connected_nodes) \subseteq Ids
  /\ reports \in Seq([type : {"CLRegisterNode", "CLUnregisterNode"}, url : Tcpcl,
                      node : Endpoints \cup {None}, sender : Ids \cup {0}])
  /\ requests \in Seq([type : {"ConnectRemote", "DisconnectRemote"}, url : Urls])
  /\ server.connecting \in Tcpcl \cup {None}
  /\ DOMAIN server.sessions \subseteq Tcpcl
  /\ Range(server.sessions) \subseteq DOMAIN sessions
  /\ listener \subseteq DOMAIN sessions
  /\ sessions \in Seq([url : Tcpcl, phase : {"handshake", "established", "closed"},
                       closing : BOOLEAN,
                       info : {"none", "pending", "told", "late", "dropped"}])
  /\ Len(sessions) <= MaxSessions
  /\ reachable \subseteq Configured /\ hasty \subseteq Configured

\* No other url of the world leads to the endpoint of u.
Sole(u) == \A v \in world.urls \ {u} : endpoint(v) # endpoint(u)

\* u was not added again before the messages and sessions of its removal, or of
\* the attempts before it, were gone.
Regular(u) == u \in Configured \ hasty

\* A route of type Connected exists only for the endpoint of a listed node, and
\* for every listed node that has an endpoint of its own.
RoutesFollowNodes ==
  /\ \A n \in routes : \E u \in DOMAIN nodes : nodes[u].remote_endpoint = n
  /\ \A u \in DOMAIN nodes :
       Sole(u) /\ nodes[u].remote_endpoint # None => endpoint(u) \in routes

\* The agent of a session of u was told after the session had ended: u may have
\* been registered after it was unregistered, and is then listed as connected
\* for good.
Ghost(u) == \E s \in DOMAIN sessions : sessions[s].url = u /\ sessions[s].info = "late"

\* A session to a configured url that runs, is not being closed and whose
\* registration has been processed is known to all: its endpoint is connected,
\* through this session unless the url has a ghost, the node is listed and not
\* as disconnected, the route is there.  What earlier sessions of the url,
\* failed attempts or removals left in the mailboxes cannot undo that.
SessionsAreKnown ==
  \A s \in DOMAIN sessions :
    LET u == sessions[s].url IN
    /\ sessions[s].phase = "established" /\ sessions[s].info = "told"
    /\ ~sessions[s].closing
    /\ Regular(u) /\ Sole(u)
    /\ \A m \in Range(reports) \cup Range(notices) : m.url # u
    => /\ endpoint(u) \in DOMAIN connected_nodes
       /\ Ghost(u) \/ connected_nodes[endpoint(u)] = s
       /\ u \in DOMAIN nodes
       /\ nodes[u].connection_status \in {"Connected", "Disconnecting"}
       /\ endpoint(u) \in routes

\* At any time at most one session to a configured url runs.
OneSessionPerUrl ==
  \A s, t \in DOMAIN sessions :
    /\ s # t /\ sessions[s].url = sessions[t].url /\ Regular(sessions[s].url)
    => sessions[s].phase = "closed" \/ sessions[t].phase = "closed"

Status(u, status) == u \in DOMAIN nodes /\ nodes[u].connection_status = status

\* No node stays in Connecting, which TryConnect would never retry.
AttemptsEnd ==
  \A u \in Configured \cap Tcpcl : Status(u, "Connecting") ~> ~Status(u, "Connecting")

Running(u) ==
  \E s \in DOMAIN sessions : sessions[s].url = u /\ sessions[s].phase = "established"

\* A node that lost its connection gets a session again, if its peer answers
\* from some time on, the node is not removed and no ghost of it is registered.
LostNodesReconnect ==
  \A u \in Configured \cap Tcpcl :
    Status(u, "Disconnected") ~>
      \/ Running(u) \/ Ghost(u)
      \/ u \notin DOMAIN nodes \/ nodes[u].temporary \/ u \notin reachable

\* The server still has a session of u that has ended.
Stale(u) == u \in DOMAIN server.sessions /\ sessions[server.sessions[u]].phase = "closed"

\* A node that is removed leaves the list, unless the server is left with an
\* ended session of it.
RemovalsComplete ==
  \A u \in Tcpcl :
    (Status(u, "Disconnecting") /\ DisconnectRemote(u) \in Range(requests) /\ ~Stale(u))
      ~> (u \notin DOMAIN nodes)
===============================================================================

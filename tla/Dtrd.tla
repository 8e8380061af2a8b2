--------------------------------- MODULE Dtrd ---------------------------------
(***************************************************************************)
(* The daemon: the storage agent and the protocol agent with their         *)
(* mailboxes, and around them the clients that submit and listen, the      *)
(* TCPCL sessions that receive and forward, the routing agent, and the     *)
(* crash and restart of the process.                                       *)
(*                                                                         *)
(* Actors take one message at a time from a FIFO mailbox; between two      *)
(* messages everything else may run.                                       *)
(***************************************************************************)
EXTENDS RoutingAgent

CONSTANTS ListensTo,      \* the endpoint of each client
          PeerOf,         \* the node at the other end of each session
          Submitted,      \* bundles a client submits, once each
          Incoming,       \* bundles peers send, each up to MaxCopies times
          MaxCopies,      \* bound
          EarlyTraffic,   \* bundles may arrive before main's loading is done
          PeerMru,        \* the largest transfer each session's peer accepts
          StaticRoutes,   \* routes an administrator may add
          Removable,      \* the ones that may be removed again
          Leaving,        \* clients that may go away
          Flaky,          \* sessions that may end
          Observed,       \* bundles and reports the refinement looks at (a bound)
          HopBudgets      \* hop budgets it looks at (a bound)

ASSUME DtrdAssumption ==
  /\ ListensTo \in [Clients -> Endpoints]
  /\ PeerOf \in [Sessions -> Nodes]
  /\ Submitted \subseteq Bundles /\ Incoming \subseteq Bundles
  /\ MaxCopies \in Nat /\ EarlyTraffic \in BOOLEAN
  /\ PeerMru \in [Sessions -> Nat \ {0}]
  /\ StaticRoutes \subseteq RouteEntries /\ Removable \subseteq StaticRoutes
  /\ Leaving \subseteq Clients /\ Flaky \subseteq Sessions
  /\ Observed \subseteq PrimaryBlocks /\ HopBudgets \subseteq Nat
  /\ IsFiniteSet(Nodes)

VARIABLES
  stream,       \* ListenBundleResponseTransformer: "unused", "open", "hung", "gone"
  channel,      \* its mpsc channel of one, and the message waiting for room in it
  connected,    \* connected_clients of the client agent
  answers,      \* results of transfers, with the tasks that wait for them
  arrivals,     \* how often each bundle was submitted or received
  delivered     \* how often each bundle was handed to a client

clientVars == <<stream, channel, connected>>
envVars == <<clientVars, answers, arrivals, delivered>>
vars == <<bpaMail, storageVars, historyVars, bsaMail, bpa, reports, localVars,
          remoteVars, routingVars, envVars>>

\* A message in the mailbox of a ListenBundleResponseActor that is no bundle.
Stop == [pb |-> None, state |-> "Invalid", data |-> [id |-> 0, hops |-> 0],
         min |-> FALSE]

Init ==
  /\ StorageInit /\ BpaInit
  /\ bsaMail = <<>>
  /\ actor = [c \in Clients |-> "unused"]
  /\ actorMail = [c \in Clients |-> <<>>]
  /\ session = [s \in Sessions |-> "unused"]
  /\ sessionMail = [s \in Sessions |-> <<>>]
  /\ inFlight = [s \in Sessions |-> <<>>]
  /\ stream = [c \in Clients |-> "unused"]
  /\ channel = [c \in Clients |-> <<>>]
  /\ connected = [e \in Endpoints |-> None]
  /\ routes = {} /\ routingMail = <<>> /\ answers = {}
  /\ arrivals = [b \in Bundles |-> 0]
  /\ delivered = [b \in Bundles |-> 0]

Tell(m) == bpaMail' = Append(bpaMail, m)

-------------------------------------------------------------------------------
(* Bundles arrive *)

Arrives(b, m) ==
  /\ EarlyTraffic \/ boot = "running"
  /\ Send(<<m>>)
  /\ arrivals' = [arrivals EXCEPT ![b] = @ + 1]
  /\ UNCHANGED <<bpaMail, fixedVars, finished, bpa, reports, localVars, remoteVars,
                 routingVars, clientVars, answers, delivered>>

SubmitBundle(b) == arrivals[b] = 0 /\ Arrives(b, StoreNewBundle(b))

\* A session hands a complete transfer to the storage agent.
ReceiveTransfer(b) == arrivals[b] < MaxCopies /\ Arrives(b, StoreReceivedBundle(b))

-------------------------------------------------------------------------------
(* Clients *)

\* ClientListenConnect: a new actor for the endpoint replaces the old one.
ListenConnect(c) ==
  /\ stream[c] = "unused"
  /\ stream' = [stream EXCEPT ![c] = "open"]
  /\ actor' = [actor EXCEPT ![c] = "running"]
  /\ connected' = [connected EXCEPT ![ListensTo[c]] = c]
  /\ Tell([type |-> "EventClientConnected", destination |-> ListensTo[c],
           sender |-> c])
  /\ UNCHANGED <<fixedVars, finished, bsaMail, bpa, reports, local_bundles,
                 pending_local, local_connections, actorMail, remoteVars, channel,
                 routingVars, answers, arrivals, delivered>>

BundleDelivered(r) ==
  [type |-> "EventBundleDelivered", endpoint |-> HeaderOf(r.pb).dest, bundle |-> r]

BundleDeliveryFailed(c, r) ==
  [type |-> "EventBundleDeliveryFailed", endpoint |-> ListensTo[c], bundle |-> r]

clientUnchanged ==
  UNCHANGED <<fixedVars, bsaMail, bpa, reports, local_bundles, pending_local,
              local_connections, remoteVars, routingVars, connected, answers, arrivals>>

\* The client's stream takes a bundle out of the channel and hands it over, or
\* finds its data gone and waits without having asked to be woken.
PollStream(c) ==
  /\ stream[c] \in {"open", "hung"} /\ channel[c] # <<>>
  /\ channel' = [channel EXCEPT ![c] = Tail(@)]
  /\ LET r == Head(channel[c])
     IN  \/ /\ Alive(r.data)
            /\ finished' = finished \cup {r.pb}
            /\ delivered' = IF r.pb \in Bundles
                            THEN [delivered EXCEPT ![r.pb] = @ + 1] ELSE delivered
            /\ stream' = [stream EXCEPT ![c] = "open"]
            /\ Tell(BundleDelivered(r))
         \/ /\ ~Alive(r.data)
            /\ stream' = [stream EXCEPT ![c] = "hung"]
            /\ UNCHANGED <<finished, delivered, bpaMail>>
  /\ UNCHANGED <<actor, actorMail>>
  /\ clientUnchanged

\* The stream is dropped with what the channel holds.  ClientListenDisconnect
\* stops the actor registered last for the endpoint, which may be another one.
DropStream(c) ==
  /\ stream[c] \in {"open", "hung"}
  /\ c \in Leaving \/ actor[c] = "stopped"
  /\ stream' = [stream EXCEPT ![c] = "gone"]
  /\ channel' = [channel EXCEPT ![c] = IF Len(@) = 2 THEN Tail(@) ELSE <<>>]
  /\ LET a == connected[ListensTo[c]]
     IN  actorMail' = IF a # None /\ actor[a] = "running"
                      THEN [actorMail EXCEPT ![a] = Append(@, Stop)] ELSE actorMail
  /\ Tell([type |-> "EventClientDisconnected", destination |-> ListensTo[c]])
  /\ UNCHANGED <<finished, delivered, actor>>
  /\ clientUnchanged

\* The actor is not waiting for room in the channel.
ActorReady(c) ==
  /\ actor[c] = "running" /\ actorMail[c] # <<>>
  /\ Len(channel[c]) < IF stream[c] = "gone" THEN 1 ELSE 2

StopActor(c) ==
  /\ actor' = [actor EXCEPT ![c] = "stopped"]
  /\ actorMail' = [actorMail EXCEPT ![c] = <<>>]

\* ListenBundleResponseActor takes a message: a bundle goes into the channel.
PassToStream(c) ==
  /\ ActorReady(c) /\ stream[c] # "gone" /\ Head(actorMail[c]) # Stop
  /\ channel' = [channel EXCEPT ![c] = Append(@, Head(actorMail[c]))]
  /\ actorMail' = [actorMail EXCEPT ![c] = Tail(@)]
  /\ UNCHANGED <<stream, finished, delivered, bpaMail, actor>>
  /\ clientUnchanged

StopListening(c) ==
  /\ ActorReady(c) /\ Head(actorMail[c]) = Stop
  /\ StopActor(c)
  /\ UNCHANGED <<stream, channel, finished, delivered, bpaMail>>
  /\ clientUnchanged

\* The receiving end of the channel is gone: the bundle is reported back and the
\* actor stops, with whatever is left in its mailbox.
FailDelivery(c) ==
  /\ actor[c] = "running" /\ stream[c] = "gone"
  /\ \/ /\ channel[c] # <<>>
        /\ Tell(BundleDeliveryFailed(c, Head(channel[c])))
     \/ /\ ActorReady(c) /\ Head(actorMail[c]) # Stop
        /\ Tell(BundleDeliveryFailed(c, Head(actorMail[c])))
  /\ channel' = [channel EXCEPT ![c] = <<>>]
  /\ StopActor(c)
  /\ UNCHANGED <<stream, finished, delivered>>
  /\ clientUnchanged

ClientStep(c) ==
  \/ ListenConnect(c) \/ PollStream(c) \/ DropStream(c)
  \/ PassToStream(c) \/ StopListening(c) \/ FailDelivery(c)

-------------------------------------------------------------------------------
(* Peers *)

sessionUnchanged ==
  UNCHANGED <<fixedVars, bsaMail, bpa, reports, localVars, remote_bundles,
              pending_remote, remote_connections, remote_routes, clientVars,
              arrivals, delivered>>

\* A session is established and registered for its node (CLRegisterNode), which
\* the BPA hears of first and the routing agent next.
PeerConnect(s) ==
  /\ session[s] = "unused"
  /\ session' = [session EXCEPT ![s] = "up"]
  /\ Tell([type |-> "EventPeerConnected", destination |-> PeerOf[s], sender |-> s])
  /\ routingMail' = Append(routingMail, AddRoute(Connected(PeerOf[s], PeerMru[s])))
  /\ UNCHANGED <<sessionMail, inFlight, answers, finished, routes>>
  /\ sessionUnchanged

\* AgentForwardBundle: the data is given to the session, which then owns it; a
\* bundle whose data is gone is dropped without an answer.
TakeForForwarding(s) ==
  /\ session[s] = "up" /\ sessionMail[s] # <<>>
  /\ sessionMail' = [sessionMail EXCEPT ![s] = Tail(@)]
  /\ LET r == Head(sessionMail[s])
     IN  inFlight' = IF Alive(r.data)
                     THEN [inFlight EXCEPT ![s] = Append(@, r)] ELSE inFlight
  /\ UNCHANGED <<bpaMail, session, answers, finished, routingVars>>
  /\ sessionUnchanged

TooLargeForPeer(s, r) == HeaderOf(r.pb).size > PeerMru[s]

\* The session drops the data and tells the task that waits for the result.
ForwardResult(s, type) ==
  /\ session[s] = "up" /\ inFlight[s] # <<>>
  /\ inFlight' = [inFlight EXCEPT ![s] = Tail(@)]
  /\ LET r == Head(inFlight[s])
     IN  answers' = answers \cup
           {[type |-> type, endpoint |-> HeaderOf(r.pb).dest, bundle |-> r]}
  /\ UNCHANGED <<bpaMail, session, sessionMail, routingVars>>
  /\ sessionUnchanged

\* The peer has acknowledged the whole transfer.
Acknowledge(s) ==
  /\ ForwardResult(s, "EventBundleForwarded")
  /\ ~TooLargeForPeer(s, Head(inFlight[s]))
  /\ finished' = finished \cup {Head(inFlight[s]).pb}

\* The session refuses the bundle as too large for the peer.
Refuse(s) ==
  /\ ForwardResult(s, "EventBundleForwardingFailed")
  /\ TooLargeForPeer(s, Head(inFlight[s]))
  /\ UNCHANGED finished

\* The tasks report to the BPA in any order, even after the session has ended.
Answer(m) ==
  /\ Tell(m)
  /\ answers' = answers \ {m}
  /\ UNCHANGED <<session, sessionMail, inFlight, finished, routingVars>>
  /\ sessionUnchanged

\* The session ends; what it had not sent is dropped without an answer.
EndSession(s) ==
  /\ s \in Flaky /\ session[s] = "up"
  /\ session' = [session EXCEPT ![s] = "down"]
  /\ sessionMail' = [sessionMail EXCEPT ![s] = <<>>]
  /\ inFlight' = [inFlight EXCEPT ![s] = <<>>]
  /\ Tell([type |-> "EventPeerDisconnected", destination |-> PeerOf[s]])
  /\ routingMail' = Append(routingMail, RemoveRoute(Connected(PeerOf[s], PeerMru[s])))
  /\ UNCHANGED <<answers, finished, routes>>
  /\ sessionUnchanged

SessionStep(s) ==
  \/ PeerConnect(s) \/ TakeForForwarding(s) \/ Acknowledge(s) \/ Refuse(s)
  \/ EndSession(s)

\* ClientAddRoute and ClientRemoveRoute, one at a time (a bound).
RoutingIdle ==
  /\ routingMail = <<>>
  /\ \A i \in 1..Len(bpaMail) : bpaMail[i].type # "EventRoutingTableUpdate"

ChangeRoute(m) ==
  /\ RoutingIdle
  /\ routingMail' = <<m>>
  /\ UNCHANGED <<bpaMail, fixedVars, finished, bsaMail, bpa, reports, localVars,
                 remoteVars, routes, envVars>>

RoutingAgentStep ==
  /\ HandleAddRoute \/ HandleRemoveRoute
  /\ UNCHANGED <<fixedVars, finished, bsaMail, bpa, reports, localVars, remoteVars,
                 envVars>>

-------------------------------------------------------------------------------
(* The process *)

StorageAgentStep ==
  /\ \/ /\ bsaMail # <<>>
        /\ HandleStorageMessage(Head(bsaMail))
        /\ bsaMail' = Tail(bsaMail)
     \/ /\ FileStep
        /\ UNCHANGED bsaMail
  /\ UNCHANGED <<bpa, reports, localVars, remoteVars, routingVars, envVars>>

StartStorageAgent ==
  /\ \/ bsaMail # <<>> /\ StartAgent
     \/ TriggerLoading
  /\ UNCHANGED <<bsaMail, bpa, reports, localVars, remoteVars, routingVars, envVars>>

ProtocolAgentStep == HandleProtocolMessage /\ UNCHANGED <<routingVars, envVars>>

\* Everything but the files is lost; connections end and are not reused.
CrashDaemon ==
  /\ Crash
  /\ bsaMail' = <<>>
  /\ bpa' = "up"
  /\ local_bundles' = [e \in Endpoints |-> <<>>]
  /\ pending_local' = [e \in Endpoints |-> <<>>]
  /\ remote_bundles' = [n \in Nodes |-> <<>>]
  /\ pending_remote' = [n \in Nodes |-> <<>>]
  /\ local_connections' = [e \in Endpoints |-> None]
  /\ remote_connections' = [n \in Nodes |-> None]
  /\ remote_routes' = [n \in Nodes |-> None]
  /\ routes' = {} /\ routingMail' = <<>>
  /\ connected' = [e \in Endpoints |-> None] /\ answers' = {}
  /\ actorMail' = [c \in Clients |-> <<>>]
  /\ channel' = [c \in Clients |-> <<>>]
  /\ sessionMail' = [s \in Sessions |-> <<>>]
  /\ inFlight' = [s \in Sessions |-> <<>>]
  /\ actor' = [c \in Clients |-> IF actor[c] = "unused" THEN "unused" ELSE "stopped"]
  /\ stream' = [c \in Clients |-> IF stream[c] = "unused" THEN "unused" ELSE "gone"]
  /\ session' = [s \in Sessions |-> IF session[s] = "unused" THEN "unused" ELSE "down"]
  /\ UNCHANGED <<reports, arrivals, delivered>>

Next ==
  \/ StorageAgentStep \/ StartStorageAgent \/ ProtocolAgentStep
  \/ \E b \in Submitted : SubmitBundle(b)
  \/ \E b \in Incoming : ReceiveTransfer(b)
  \/ \E c \in Clients : ClientStep(c)
  \/ \E s \in Sessions : SessionStep(s)
  \/ \E m \in answers : Answer(m)
  \/ \E r \in StaticRoutes : ChangeRoute(AddRoute(r))
  \/ \E r \in Removable : ChangeRoute(RemoveRoute(r))
  \/ RoutingAgentStep
  \/ CrashDaemon

Spec == Init /\ [][Next]_vars

(***************************************************************************)
(* The actors, the stream of a client that has asked to be woken, and a    *)
(* session that is up get their turn again and again.  Clients, peers and  *)
(* routes may come or not, and nobody has to fail.                         *)
(*                                                                         *)
(* The two agents are ready exactly when their steps are ENABLED; saying   *)
(* so spares TLC the evaluation of ENABLED on the largest actions.         *)
(***************************************************************************)
StorageAgentReady ==
  \/ writes # <<>> \/ \E d \in deletes : d.phase = "running"
  \/ bsa = "up" /\ (bsaMail # <<>> \/ deletes # {})

ProtocolAgentReady == bpa = "up" /\ bpaMail # <<>>

Fairness ==
  /\ []<>~StorageAgentReady \/ []<><<StorageAgentStep>>_vars
  /\ []<>~ProtocolAgentReady \/ []<><<ProtocolAgentStep>>_vars
  /\ WF_vars(StartStorageAgent) /\ WF_vars(RoutingAgentStep)
  /\ WF_vars(\E m \in answers : Answer(m))
  /\ \A c \in Clients :
       /\ WF_vars(PassToStream(c)) /\ WF_vars(StopListening(c))
       /\ WF_vars(FailDelivery(c))
       /\ WF_vars(stream[c] = "open" /\ PollStream(c))
  /\ \A s \in Sessions :
       WF_vars(TakeForForwarding(s)) /\ WF_vars(Acknowledge(s) \/ Refuse(s))

FairSpec == Spec /\ Fairness

-------------------------------------------------------------------------------
(* Properties *)

TypeOK ==
  /\ StorageTypeOK
  /\ bsaMail \in Seq(StorageMessages)
  /\ bpa \in {"up", "panicked"} /\ reports \in Nat
  /\ \A e \in Endpoints : /\ local_bundles[e] \in Seq(StoredBundles)
                          /\ pending_local[e] \in Seq(StoredBundles)
  /\ \A n \in Nodes : /\ remote_bundles[n] \in Seq(StoredBundles)
                      /\ pending_remote[n] \in Seq(StoredBundles)
  /\ local_connections \in [Endpoints -> Clients \cup {None}]
  /\ remote_connections \in [Nodes -> Sessions \cup {None}]
  /\ remote_routes \in [Nodes -> Routes]
  /\ actor \in [Clients -> {"unused", "running", "stopped"}]
  /\ session \in [Sessions -> {"unused", "up", "down"}]
  /\ \A s \in Sessions : Len(sessionMail[s]) <= SessionCapacity
  /\ stream \in [Clients -> {"unused", "open", "hung", "gone"}]
  /\ \A c \in Clients : Len(channel[c]) <= 2
  /\ connected \in [Endpoints -> Clients \cup {None}]

InSeq(p, seq) == \E i \in 1..Len(seq) : seq[i].pb = p

\* Someone still has to do something about the bundle p: a message about it is
\* under way, or it is queued, or handed over and not confirmed.
Tracked(p) ==
  \/ \E i \in 1..Len(bsaMail) : bsaMail[i].pb = p
  \/ \E i \in 1..Len(bpaMail) : "bundle" \in DOMAIN bpaMail[i] /\ bpaMail[i].bundle.pb = p
  \/ \E e \in Endpoints : InSeq(p, local_bundles[e]) \/ InSeq(p, pending_local[e])
  \/ \E n \in Nodes : InSeq(p, remote_bundles[n]) \/ InSeq(p, pending_remote[n])

\* The stored fragments of a bundle.
StoredFragments(whole) ==
  {bundles[i] : i \in {k \in 1..Len(bundles) :
     HeaderOf(bundles[k].pb).fragment /\ HeaderOf(bundles[k].pb).whole = whole}}

\* No stored bundle is forgotten: the protocol agent knows of it, or it is a
\* fragment for this node and the others it needs are missing or being handled,
\* or another copy of it was handed over or split.
NoneForgotten ==
  \A i \in 1..Len(bundles) :
    LET p == bundles[i].pb
        fragments == StoredFragments(HeaderOf(p).whole)
    IN  \/ Tracked(p)
        \/ /\ HeaderOf(p).fragment /\ HeaderOf(p).dest \in Endpoints
           /\ \/ ~CanReassemble(HeaderOf(p).whole, fragments)
              \/ \E f \in fragments : Tracked(f.pb)
        \/ p \in finished
        \/ \E r \in replaced : r[1] = p

\* The protocol agent never meets a reference to a bundle that is gone.
NoDanglingReference == bpa = "up"

\* More than one copy of the bundle came in.
Duplicated(p) == p \in Bundles /\ arrivals[Header[p].whole] > 1

\* A bundle waiting to be handed over still has its data, unless further copies of
\* it have come in.
WaitingHaveData ==
  LET Kept(seq) == \A i \in 1..Len(seq) :
                     seq[i] = Stop \/ Alive(seq[i].data) \/ Duplicated(seq[i].pb)
  IN  /\ \A e \in Endpoints : Kept(local_bundles[e])
      /\ \A n \in Nodes : Kept(remote_bundles[n])
      /\ \A c \in Clients : Kept(actorMail[c]) /\ Kept(channel[c])
      /\ \A s \in Sessions : Kept(sessionMail[s])

\* A bundle is handed to a client at most once for each time it, or the first
\* fragment of it, came in.
OncePerCopy ==
  \A b \in Bundles :
    delivered[b] <= arrivals[b] +
      MapThenSumSet(LAMBDA f : arrivals[f],
        {f \in Bundles : Header[f].fragment /\ Header[f].whole = b /\ 0 \in Header[f].span})

\* When the storage agent is idle, only stored bundles have a file: a finished one
\* will not come back after a restart.
NoLeftovers ==
  bsa = "up" /\ bsaMail = <<>> /\ writes = <<>> /\ deletes = {}
    => \A f \in files : Holds(bundles, f.pb)

\* A bundle for a client that stays is handed to it.
LocalDelivery ==
  \A b \in Bundles, c \in Clients \ Leaving :
    arrivals[b] > 0 /\ Header[b].dest = ListensTo[c] /\ stream[c] = "open"
      ~> delivered[b] > 0

\* There is a route to the node n over the session s.
RouteOver(s, n) ==
  /\ session[s] = "up"
  /\ n = PeerOf[s] \/ Static(n, PeerOf[s]) \in routes

\* A bundle for a node with a route over a session that stays up is forwarded, or
\* given up: a queue that had to wait for room in the session is passed over again.
RemoteDelivery ==
  \A b \in Bundles, s \in Sessions \ Flaky :
    arrivals[b] > 0 /\ Header[b].dest \in Nodes /\ RouteOver(s, Header[b].dest)
      ~> b \in finished

\* The bundles the storage agent holds when it stops "will be resend on restart".
ResentOnRestart ==
  \A b \in Bundles :
    crashes > 0 /\ OnDisk(b) /\ Header[b].dest \in Nodes
      ~> \/ b \in finished
         \/ \E n \in Nodes : InSeq(b, remote_bundles[n]) \/ InSeq(b, pending_remote[n])

(***************************************************************************)
(* The daemon keeps the contract of BundleStorage, restarts included: seen *)
(* by the storage agent, whose mail to the protocol agent are the          *)
(* EventBundleUpdated messages alone, it is the most general protocol      *)
(* agent.                                                                  *)
(***************************************************************************)
Announcements == [type : {"EventBundleUpdated"}, bundle : StoredBundles]

SizeLimits == {PeerMru[s] : s \in Sessions} \cup {r.max_size : r \in StaticRoutes}

Storage == INSTANCE BundleStorage WITH
  bpaMail <- Keep(bpaMail, Announcements),
  Arrivals <- Observed,
  HopCounts <- HopBudgets,
  Targets <- SizeLimits

ImplementsStorage == Storage!Spec
===============================================================================

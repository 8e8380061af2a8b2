------------------------- MODULE BundleProtocolAgent -------------------------
(***************************************************************************)
(* The bundle protocol agent (BPA) of dtrd: it decides what happens to     *)
(* every stored bundle, queues it for a local endpoint or a remote node,   *)
(* and hands it to the client or the peer session registered there.        *)
(*                                                                         *)
(* A handler runs to its end before the actor takes the next message, so   *)
(* each one is a single action, the queue passes it ends with included.    *)
(***************************************************************************)
EXTENDS BundleStorageAgent, SequencesExt

CONSTANTS Clients,          \* listening streams, each used once
          Sessions,         \* TCPCL sessions, each used once
          ClientCapacity,   \* mailbox of a ListenBundleResponseActor
          SessionCapacity,  \* mailbox of a TCPCLSessionAgent
          None              \* no route, no connection

ASSUME CapacityAssumption ==
  /\ ClientCapacity \in Nat \ {0} /\ SessionCapacity \in Nat \ {0}
  /\ None \notin Clients \cup Sessions \cup Nodes

VARIABLES
  bsaMail,                          \* mailbox of the BSA
  bpa,                              \* "up" or "panicked"
  local_bundles, remote_bundles,    \* queues per endpoint, per node
  pending_local, pending_remote,    \* handed over, not yet confirmed
  local_connections,                \* endpoint -> client
  remote_connections,               \* node -> session
  remote_routes,                    \* node -> next hop and size limit
  reports,                          \* status reports sent
  \* the two kinds of receivers of try_send
  actor, actorMail,                 \* ListenBundleResponseActor per client
  session, sessionMail, inFlight    \* TCPCLSessionAgent per session

\* NexthopInfo; the limit 0 stands for no limit.
Routes == [next_hop : Nodes, max_size : Nat] \cup {None}

BpaInit ==
  /\ bpa = "up" /\ reports = 0
  /\ local_bundles = [e \in Endpoints |-> <<>>]
  /\ pending_local = [e \in Endpoints |-> <<>>]
  /\ remote_bundles = [n \in Nodes |-> <<>>]
  /\ pending_remote = [n \in Nodes |-> <<>>]
  /\ local_connections = [e \in Endpoints |-> None]
  /\ remote_connections = [n \in Nodes |-> None]
  /\ remote_routes = [n \in Nodes |-> None]

\* Weak::upgrade: someone still owns the allocation.
Alive(data) ==
  \/ \E i \in 1..Len(bundles) : bundles[i].data = data
  \/ \E s \in Sessions : \E i \in 1..Len(inFlight[s]) : inFlight[s][i].data = data

Receives(type) ==
  /\ bpa = "up"
  /\ bpaMail # <<>> /\ Head(bpaMail).type = type
  /\ bpaMail' = Tail(bpaMail)

Send(msgs) == bsaMail' = bsaMail \o msgs

\* send_status_report: a new bundle for the storage agent, if it is requested.
StatusReport(r, kind) ==
  IF kind \in HeaderOf(r.pb).wants
  THEN <<StoreNewBundle(<<r.pb, kind, reports>>)>> ELSE <<>>

CountReports(msgs) == reports' = reports + Len(msgs)

Retain(seq, r) == Keep(seq, {x \in Range(seq) : x.pb # r.pb})

localVars == <<local_bundles, pending_local, local_connections, actor, actorMail>>
remoteVars == <<remote_bundles, pending_remote, remote_connections, remote_routes,
                session, sessionMail, inFlight>>
fixedVars == <<storageVars, validated, replaced, torn, failed, written>>

-------------------------------------------------------------------------------
(* Passes over the queues *)

(***************************************************************************)
(* deliver_local_bundles for endpoint e, whose queue and pending list are  *)
(* q and pend when the pass starts: bundles are sent to the registered     *)
(* client while its mailbox takes them.  The first one it does not take    *)
(* goes to the back of the queue and ends the pass; when the client is     *)
(* gone it also loses its registration.                                    *)
(***************************************************************************)
DeliverLocal(e, q, pend, conns) ==
  LET c == conns[e]
      open == actor[c] # "stopped"
      room == IF open THEN ClientCapacity - Len(actorMail[c]) ELSE 0
      n == IF room < 0 THEN 0 ELSE IF room < Len(q) THEN room ELSE Len(q)
      sent == SubSeq(q, 1, n)
      rest == SubSeq(q, n + 1, Len(q))
  IN  IF c = None
      THEN /\ local_bundles' = [local_bundles EXCEPT ![e] = q]
           /\ pending_local' = [pending_local EXCEPT ![e] = pend]
           /\ local_connections' = conns
           /\ UNCHANGED <<actor, actorMail>>
      ELSE /\ local_bundles' = [local_bundles EXCEPT ![e] =
                IF rest = <<>> THEN <<>> ELSE Append(Tail(rest), Head(rest))]
           /\ pending_local' = [pending_local EXCEPT ![e] = pend \o sent]
           /\ actorMail' = [actorMail EXCEPT ![c] = @ \o sent]
           /\ local_connections' =
                IF open \/ rest = <<>> THEN conns ELSE [conns EXCEPT ![e] = None]
           /\ UNCHANGED actor

\* What a pass over a remote queue works on; split collects FragmentBundle
\* messages.
RemoteState ==
  [queues |-> remote_bundles, pending |-> pending_remote, mail |-> sessionMail,
   conns |-> remote_connections, routes |-> remote_routes, split |-> <<>>]

Limits(route, hop) == {route.max_size, hop.max_size} \ {0}

TooLarge(r, limits) == \E l \in limits : HeaderOf(r.pb).size > l

\* It does not fit and cannot be made to fit.
Unsplittable(r, limits) ==
  /\ TooLarge(r, limits)
  /\ \/ ~HeaderOf(r.pb).mayFragment
     \/ r.min /\ \E l \in limits : HeaderOf(r.pb).minSize > l

(***************************************************************************)
(* The loop of deliver_remote_bundles over the queue q, for a session with *)
(* room for that many bundles.  It ends before q[i] when an unsplittable   *)
(* bundle with the same id was already put back (Revisits), or when q[i]   *)
(* fits and the session does not take it (Blocks).                         *)
(***************************************************************************)
Revisits(q, limits, i) ==
  \E j \in 1..(i - 1) : q[j].pb = q[i].pb /\ Unsplittable(q[j], limits)

\* Mutant: one bundle too many is sent.
BlocksLate(q, limits, room, i) ==
  /\ ~TooLarge(q[i], limits)
  /\ Cardinality({j \in 1..i : ~TooLarge(q[j], limits)}) > room + 1

Blocks(q, limits, room, i) ==
  /\ ~TooLarge(q[i], limits)
  /\ Cardinality({j \in 1..i : ~TooLarge(q[j], limits)}) > room

LoopEnd(q, limits, room) ==
  CHOOSE k \in 1..(Len(q) + 1) :
    /\ k \in 1..Len(q) => Revisits(q, limits, k) \/ Blocks(q, limits, room, k)
    /\ \A i \in 1..(k - 1) : ~Revisits(q, limits, i) /\ ~Blocks(q, limits, room, i)

DeliverRemoteLoop(st, n, s, limits) ==
  LET q == st.queues[n]
      up == session[s] = "up"
      free == SessionCapacity - Len(st.mail[s])
      room == IF up /\ free > 0 THEN free ELSE 0
      k == LoopEnd(q, limits, room)
      visited == SubSeq(q, 1, k - 1)
      rest == SubSeq(q, k, Len(q))
      blocked == rest # <<>> /\ ~Revisits(q, limits, k)
      fitting == {r \in Range(visited) : ~TooLarge(r, limits)}
      unsplittable == {r \in Range(visited) : Unsplittable(r, limits)}
      putBack == Keep(visited, unsplittable)
      sent == Keep(visited, fitting)
      split == Keep(visited, Range(visited) \ (fitting \cup unsplittable))
      target == CHOOSE l \in limits : \A m \in limits : l <= m
  IN  [st EXCEPT
        !.queues[n] = IF blocked THEN Tail(rest) \o putBack \o <<Head(rest)>>
                      ELSE rest \o putBack,
        !.pending[n] = @ \o sent,
        !.mail[s] = @ \o sent,
        !.conns[n] = IF blocked /\ ~up THEN None ELSE @,
        !.split = @ \o [i \in 1..Len(split) |-> FragmentBundle(split[i].pb, target)]]

\* Mutant: the queue is taken out before it is known where to send it.
DeliverRemoteTakesQueue(st, n) ==
  LET route == st.routes[n]
  IN  IF route = None \/ st.conns[route.next_hop] = None
      THEN [st EXCEPT !.queues[n] = <<>>]
      ELSE DeliverRemoteLoop(st, n, st.conns[route.next_hop],
                             Limits(route, st.routes[route.next_hop]))

\* deliver_remote_bundles: nothing happens without a route to n, a session with
\* its next hop, and a direct route to that.  A session that is gone costs the
\* destination n its registration, whatever the next hop was.
DeliverRemote(st, n) ==
  LET route == st.routes[n]
      hop == st.routes[route.next_hop]
  IN  IF \/ route = None
         \/ st.conns[route.next_hop] = None
         \/ hop = None
         \/ hop.next_hop # route.next_hop
      THEN st
      ELSE DeliverRemoteLoop(st, n, st.conns[route.next_hop], Limits(route, hop))

\* Passes over the queues of several nodes, one after the other.
Passes(st, order) ==
  LET pass[k \in 0..Len(order)] ==
        IF k = 0 THEN st ELSE DeliverRemote(pass[k - 1], order[k])
  IN  pass[Len(order)]

\* The result of the passes becomes the state of the agent; msgs go to the
\* storage agent before the split requests.
SetRemote(st, msgs) ==
  /\ remote_bundles' = st.queues /\ pending_remote' = st.pending
  /\ sessionMail' = st.mail /\ remote_connections' = st.conns
  /\ remote_routes' = st.routes
  /\ Send(msgs \o st.split)
  /\ UNCHANGED <<session, inFlight>>
-------------------------------------------------------------------------------
(* EventBundleUpdated, by the state of the bundle *)

\* Mutant: a bundle for this node is queued without becoming Valid.
ReceivedIsQueued ==
  /\ Receives("EventBundleUpdated")
  /\ LET r == Head(bpaMail).bundle
         next == IF HeaderOf(r.pb).dest \in Endpoints THEN "DeliveryQueued" ELSE "Valid"
     IN  /\ r.state = "Received"
         /\ Send(<<UpdateBundle(r.pb, next, -1)>>)
  /\ UNCHANGED <<fixedVars, finished, bpa, reports, localVars, remoteVars>>

\* Mutant: UpdateBundle is sent twice.
ReceivedUpdatesTwice ==
  /\ Receives("EventBundleUpdated")
  /\ LET r == Head(bpaMail).bundle
     IN  /\ r.state = "Received"
         /\ Send(<<UpdateBundle(r.pb, "Valid", -1), UpdateBundle(r.pb, "Valid", -1)>>)
  /\ UNCHANGED <<fixedVars, finished, bpa, reports, localVars, remoteVars>>

HandleReceived ==
  /\ Receives("EventBundleUpdated")
  /\ LET r == Head(bpaMail).bundle
         report == IF HeaderOf(r.pb).mine THEN <<>> ELSE StatusReport(r, "received")
     IN  /\ r.state = "Received"
         /\ Send(report \o <<UpdateBundle(r.pb, "Valid", -1)>>)
         /\ CountReports(report)
  /\ UNCHANGED <<fixedVars, finished, bpa, localVars, remoteVars>>

\* A valid bundle for an endpoint of this node.
HandleValidLocal ==
  /\ Receives("EventBundleUpdated")
  /\ LET r == Head(bpaMail).bundle
         next == IF HeaderOf(r.pb).fragment THEN "DefragmentationPending"
                 ELSE "DeliveryQueued"
     IN  /\ r.state = "Valid" /\ HeaderOf(r.pb).dest \in Endpoints
         /\ Send(<<UpdateBundle(r.pb, next, -1)>>)
  /\ UNCHANGED <<fixedVars, finished, bpa, reports, localVars, remoteVars>>

ReceivesValidRemote ==
  /\ Receives("EventBundleUpdated")
  /\ Head(bpaMail).bundle.state = "Valid"
  /\ HeaderOf(Head(bpaMail).bundle.pb).dest \in Nodes

\* forward_bundle raises the hop count in a copy of the data.
HandleValidRemote ==
  /\ ReceivesValidRemote
  /\ LET r == Head(bpaMail).bundle
     IN  /\ Alive(r.data) /\ r.data.hops > 0
         /\ Send(<<UpdateBundle(r.pb, "ForwardingQueued", r.data.hops - 1)>>)
  /\ UNCHANGED <<fixedVars, finished, bpa, reports, localVars, remoteVars>>

\* HopLimitExceeded: the bundle is given up.
HandleHopLimitExceeded ==
  /\ ReceivesValidRemote
  /\ LET r == Head(bpaMail).bundle
         report == StatusReport(r, "deleted")
     IN  /\ Alive(r.data) /\ r.data.hops = 0
         /\ Send(report \o <<UpdateBundle(r.pb, "Invalid", -1)>>)
         /\ CountReports(report)
         /\ finished' = finished \cup {r.pb}
  /\ UNCHANGED <<fixedVars, bpa, localVars, remoteVars>>

\* get_bundle_data().unwrap() on data nobody owns any more.
HandleDanglingReference ==
  /\ ReceivesValidRemote
  /\ ~Alive(Head(bpaMail).bundle.data)
  /\ bpa' = "panicked"
  /\ UNCHANGED <<fixedVars, finished, bsaMail, reports, localVars, remoteVars>>

HandleDeliveryQueued ==
  /\ Receives("EventBundleUpdated")
  /\ LET r == Head(bpaMail).bundle
         e == HeaderOf(r.pb).dest
     IN  /\ r.state = "DeliveryQueued"
         /\ DeliverLocal(e, Append(local_bundles[e], r), pending_local[e],
                         local_connections)
  /\ UNCHANGED <<fixedVars, finished, bsaMail, bpa, reports, remoteVars>>

\* Mutant: a bundle counts as forwarded as soon as it is queued.
ForwardedWhenQueued ==
  /\ Receives("EventBundleUpdated")
  /\ LET r == Head(bpaMail).bundle
         n == HeaderOf(r.pb).dest
         st == [RemoteState EXCEPT !.queues[n] = Append(@, r)]
     IN  /\ r.state = "ForwardingQueued"
         /\ SetRemote(DeliverRemote(st, n), <<UpdateBundle(r.pb, "Forwarded", -1)>>)
  /\ UNCHANGED <<fixedVars, finished, bpa, reports, localVars>>

HandleForwardingQueued ==
  /\ Receives("EventBundleUpdated")
  /\ LET r == Head(bpaMail).bundle
         n == HeaderOf(r.pb).dest
         st == [RemoteState EXCEPT !.queues[n] = Append(@, r)]
     IN  /\ r.state = "ForwardingQueued"
         /\ SetRemote(DeliverRemote(st, n), <<>>)
  /\ UNCHANGED <<fixedVars, finished, bpa, reports, localVars>>

-------------------------------------------------------------------------------
(* Results of handing a bundle over *)

HandleBundleDelivered ==
  /\ Receives("EventBundleDelivered")
  /\ LET r == Head(bpaMail).bundle
         e == Head(bpaMail).endpoint
         report == StatusReport(r, "delivered")
     IN  /\ Send(report \o <<UpdateBundle(r.pb, "Delivered", -1)>>)
         /\ CountReports(report)
         /\ DeliverLocal(e, local_bundles[e], Retain(pending_local[e], r),
                         local_connections)
  /\ UNCHANGED <<fixedVars, finished, bpa, remoteVars>>

\* Mutant: a bundle that was not delivered is dropped.
DropUndelivered ==
  /\ Receives("EventBundleDeliveryFailed")
  /\ pending_local' = [pending_local EXCEPT ![Head(bpaMail).endpoint] =
                         Retain(@, Head(bpaMail).bundle)]
  /\ UNCHANGED <<fixedVars, finished, bsaMail, bpa, reports, local_bundles,
                 local_connections, actor, actorMail, remoteVars>>

\* The bundle returns to the front of its queue; nothing is sent.
HandleBundleDeliveryFailed ==
  /\ Receives("EventBundleDeliveryFailed")
  /\ LET r == Head(bpaMail).bundle
         e == Head(bpaMail).endpoint
     IN  /\ pending_local' = [pending_local EXCEPT ![e] = Retain(@, r)]
         /\ local_bundles' = [local_bundles EXCEPT ![e] = <<r>> \o @]
  /\ UNCHANGED <<fixedVars, finished, bsaMail, bpa, reports, local_connections,
                 actor, actorMail, remoteVars>>

\* Mutant: the queue is not passed over when the session has room again.
ForwardedWithoutPass ==
  /\ Receives("EventBundleForwarded")
  /\ LET r == Head(bpaMail).bundle
         n == Head(bpaMail).endpoint
         report == StatusReport(r, "forwarded")
         st == [RemoteState EXCEPT !.pending[n] = Retain(@, r)]
     IN  /\ SetRemote(st, report \o <<UpdateBundle(r.pb, "Forwarded", -1)>>)
         /\ CountReports(report)
  /\ UNCHANGED <<fixedVars, finished, bpa, localVars>>

HandleBundleForwarded ==
  /\ Receives("EventBundleForwarded")
  /\ LET r == Head(bpaMail).bundle
         n == Head(bpaMail).endpoint
         report == StatusReport(r, "forwarded")
         st == [RemoteState EXCEPT !.pending[n] = Retain(@, r)]
     IN  /\ SetRemote(DeliverRemote(st, n),
                      report \o <<UpdateBundle(r.pb, "Forwarded", -1)>>)
         /\ CountReports(report)
  /\ UNCHANGED <<fixedVars, finished, bpa, localVars>>

\* Mutant: a refused bundle is dropped.
DropRefused ==
  /\ Receives("EventBundleForwardingFailed")
  /\ pending_remote' = [pending_remote EXCEPT ![Head(bpaMail).endpoint] =
                          Retain(@, Head(bpaMail).bundle)]
  /\ UNCHANGED <<fixedVars, finished, bsaMail, bpa, reports, localVars, remote_bundles,
                 remote_connections, remote_routes, session, sessionMail, inFlight>>

HandleBundleForwardingFailed ==
  /\ Receives("EventBundleForwardingFailed")
  /\ LET r == Head(bpaMail).bundle
         n == Head(bpaMail).endpoint
     IN  /\ pending_remote' = [pending_remote EXCEPT ![n] = Retain(@, r)]
         /\ remote_bundles' = [remote_bundles EXCEPT ![n] = <<r>> \o @]
  /\ UNCHANGED <<fixedVars, finished, bsaMail, bpa, reports, localVars,
                 remote_connections, remote_routes, session, sessionMail, inFlight>>

-------------------------------------------------------------------------------
(* Clients, peers and routes come and go *)

\* Mutant: a client that connects also gets what is pending with another one.
ClientTakesPending ==
  /\ Receives("EventClientConnected")
  /\ LET m == Head(bpaMail)
         e == m.destination
     IN  DeliverLocal(e, pending_local[e] \o local_bundles[e], <<>>,
                      [local_connections EXCEPT ![e] = m.sender])
  /\ UNCHANGED <<fixedVars, finished, bsaMail, bpa, reports, remoteVars>>

\* Mutant: a client that connects is only registered.
ClientIsOnlyRegistered ==
  /\ Receives("EventClientConnected")
  /\ local_connections' =
       [local_connections EXCEPT ![Head(bpaMail).destination] = Head(bpaMail).sender]
  /\ UNCHANGED <<fixedVars, finished, bsaMail, bpa, reports, local_bundles,
                 pending_local, actor, actorMail, remoteVars>>

HandleClientConnected ==
  /\ Receives("EventClientConnected")
  /\ LET m == Head(bpaMail)
     IN  DeliverLocal(m.destination, local_bundles[m.destination],
                      pending_local[m.destination],
                      [local_connections EXCEPT ![m.destination] = m.sender])
  /\ UNCHANGED <<fixedVars, finished, bsaMail, bpa, reports, remoteVars>>

HandleClientDisconnected ==
  /\ Receives("EventClientDisconnected")
  /\ local_connections' = [local_connections EXCEPT ![Head(bpaMail).destination] = None]
  /\ UNCHANGED <<fixedVars, finished, bsaMail, bpa, reports, local_bundles,
                 pending_local, actor, actorMail, remoteVars>>

HandlePeerConnected ==
  /\ Receives("EventPeerConnected")
  /\ LET m == Head(bpaMail)
         st == [RemoteState EXCEPT !.conns[m.destination] = m.sender]
     IN  SetRemote(DeliverRemote(st, m.destination), <<>>)
  /\ UNCHANGED <<fixedVars, finished, bpa, reports, localVars>>

HandlePeerDisconnected ==
  /\ Receives("EventPeerDisconnected")
  /\ remote_connections' = [remote_connections EXCEPT ![Head(bpaMail).destination] = None]
  /\ UNCHANGED <<fixedVars, finished, bsaMail, bpa, reports, localVars,
                 remote_bundles, pending_remote, remote_routes, session, sessionMail,
                 inFlight>>

\* The new table replaces the old one; the queues of the nodes it adds are passed
\* over first, then those it also had before, in the order of a HashSet.
HandleRoutingTableUpdate ==
  /\ Receives("EventRoutingTableUpdate")
  /\ LET new == Head(bpaMail).routes
         added == {n \in Nodes : new[n] # None /\ remote_routes[n] = None}
         updated == {n \in Nodes : new[n] # None /\ remote_routes[n] # None}
         st == [RemoteState EXCEPT !.routes = new]
     IN  \E a \in SetToSeqs(added), u \in SetToSeqs(updated) :
           SetRemote(Passes(st, a \o u), <<>>)
  /\ UNCHANGED <<fixedVars, finished, bpa, reports, localVars>>

HandleProtocolMessage ==
  \/ HandleReceived \/ HandleValidLocal \/ HandleValidRemote
  \/ HandleHopLimitExceeded \/ HandleDanglingReference
  \/ HandleDeliveryQueued \/ HandleForwardingQueued
  \/ HandleBundleDelivered \/ HandleBundleDeliveryFailed
  \/ HandleBundleForwarded \/ HandleBundleForwardingFailed
  \/ HandleClientConnected \/ HandleClientDisconnected
  \/ HandlePeerConnected \/ HandlePeerDisconnected
  \/ HandleRoutingTableUpdate
==============================================================================

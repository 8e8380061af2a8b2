----------------------------- MODULE RoutingAgent -----------------------------
(***************************************************************************)
(* The routing agent of dtrd: it collects static routes (from the admin    *)
(* service) and connected ones (from the node agent) and sends the bundle  *)
(* protocol agent the table of the preferred ones after every change.      *)
(*                                                                         *)
(* Notifications about connected peers pass through the mailbox of the     *)
(* node agent first, in order; its mailbox and this one are one here.      *)
(***************************************************************************)
EXTENDS BundleProtocolAgent

VARIABLES
  routes,         \* the route entries
  routingMail     \* its mailbox

routingVars == <<routes, routingMail>>

\* RouteEntry; the size limit 0 stands for none.
RouteEntries ==
  [target : Nodes, route_type : {"Connected", "Static"}, next_hop : Nodes,
   max_size : Nat]

Connected(n, limit) ==
  [target |-> n, route_type |-> "Connected", next_hop |-> n, max_size |-> limit]

Static(n, hop) ==
  [target |-> n, route_type |-> "Static", next_hop |-> hop, max_size |-> 0]

AddRoute(r) == [type |-> "AddRoute", route |-> r]
RemoveRoute(r) == [type |-> "RemoveRoute", route |-> r]

\* Equality of entries leaves the size limit out.
SameRoute(r, s) == [r EXCEPT !.max_size = 0] = [s EXCEPT !.max_size = 0]

Available(rs, r) ==
  r.route_type = "Connected"
    \/ \E s \in rs : s.target = r.next_hop /\ s.route_type = "Connected"

\* The entries for n that may come first when they are sorted by their type only.
FirstEntries(rs, n) ==
  {r \in rs : /\ r.target = n
              /\ r.route_type = "Static" =>
                   ~\E s \in rs : s.target = n /\ s.route_type = "Connected"}

\* What the table may say about n: the first entry, if it is available.
Preferred(rs, n) ==
  IF FirstEntries(rs, n) = {} THEN {None}
  ELSE {IF Available(rs, r) THEN [next_hop |-> r.next_hop, max_size |-> r.max_size]
        ELSE None : r \in FirstEntries(rs, n)}

RoutingTables(rs) ==
  {t \in [Nodes -> UNION {Preferred(rs, n) : n \in Nodes}] :
     \A n \in Nodes : t[n] \in Preferred(rs, n)}

\* last_routing_table is never assigned, so every table is sent, changed or not.
send_route_update ==
  \E t \in RoutingTables(routes') :
    bpaMail' = Append(bpaMail, [type |-> "EventRoutingTableUpdate", routes |-> t])

TakesRouting(type) ==
  /\ routingMail # <<>> /\ Head(routingMail).type = type
  /\ routingMail' = Tail(routingMail)

\* HashSet::insert keeps the entry that is there, with the limit it has.
HandleAddRoute ==
  /\ TakesRouting("AddRoute")
  /\ LET new == Head(routingMail).route
         known == \E r \in routes : SameRoute(r, new)
     IN  \/ known /\ UNCHANGED <<routes, bpaMail>>
         \/ ~known /\ routes' = routes \cup {new} /\ send_route_update

HandleRemoveRoute ==
  /\ TakesRouting("RemoveRoute")
  /\ LET known == {r \in routes : SameRoute(r, Head(routingMail).route)}
     IN  \/ known = {} /\ UNCHANGED <<routes, bpaMail>>
         \/ known # {} /\ routes' = routes \ known /\ send_route_update
===============================================================================

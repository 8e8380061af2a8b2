----------------------------- MODULE BundleTypes -----------------------------
(***************************************************************************)
(* The data the actors of dtrd exchange: primary blocks, stored bundles    *)
(* and references to them, and the messages of the two mailboxes.          *)
(*                                                                         *)
(* A bundle is known by its primary block (StoredBundle's and              *)
(* StoredBundleRef's equality compares nothing else).  What the agents     *)
(* read of the rest of a bundle is its Header, a constant; the one part of *)
(* the serialized data that changes on the way through a node, the hop     *)
(* count, is kept with the data.                                           *)
(***************************************************************************)
EXTENDS Integers, Sequences, FiniteSets

CONSTANTS Bundles,    \* primary blocks of bundles and fragments
          Header,       \* what the agents read of each of them
          Endpoints,    \* endpoints of this node
          Nodes         \* other nodes

Kinds == {"received", "forwarded", "delivered", "deleted"}

(***************************************************************************)
(* dest, reportTo : an endpoint of this node, or the node a remote         *)
(*     endpoint belongs to (Endpoint::get_node_endpoint).                  *)
(* mine : the source node is this node.                                    *)
(* wants : the status reports the processing flags request.                *)
(* hops : how often the hop count may still be raised before it exceeds    *)
(*     the limit of its block (or HOP_LIMIT_DEFAULT without a block).      *)
(* size, minSize : the serialized size, and the size of the smallest first *)
(*     fragment Bundle::fragment can build.                                *)
(* pieces : the fragments a split of the bundle yields.                    *)
(* whole, span : the bundle a fragment is part of and the payload units it *)
(*     holds; a bundle that is no fragment is its own whole.  Fragments of *)
(*     one bundle have its destination (equals_ignoring_fragment_offset).  *)
(***************************************************************************)
Headers ==
  [dest : Endpoints \cup Nodes, reportTo : Endpoints \cup Nodes,
   mine : BOOLEAN, wants : SUBSET Kinds, hops : Nat,
   size : Nat, minSize : Nat, mayFragment : BOOLEAN, pieces : Seq(Bundles),
   fragment : BOOLEAN, whole : Bundles, span : SUBSET Nat]

ASSUME HeaderAssumption ==
  /\ Header \in [Bundles -> Headers]
  /\ \A b \in Bundles :
       /\ ~Header[b].fragment => Header[b].whole = b
       /\ Header[b].fragment =>
            /\ 0 \in Header[Header[b].whole].span
            /\ Header[Header[b].whole].dest = Header[b].dest
       /\ Header[b].mayFragment /\ Header[b].minSize < Header[b].size =>
            Header[b].pieces # <<>>
  /\ Endpoints \cap Nodes = {}

\* A status report is a bundle of this node about another one; the creation
\* timestamp and sequence number that make it unique are a number here.
Reports == Bundles \X Kinds \X Nat
PrimaryBlocks == Bundles \cup Reports

\* The header of a primary block: a status report goes to the report-to
\* endpoint of the bundle it is about and requests no reports itself; it has no
\* hop count block yet, so its count may go from absent to HOP_LIMIT_DEFAULT.
HeaderOf(p) ==
  IF p \in Bundles THEN Header[p]
  ELSE [dest |-> Header[p[1]].reportTo, reportTo |-> Header[p[1]].reportTo,
        mine |-> TRUE, wants |-> {}, hops |-> 17,
        size |-> 0, minSize |-> 0, mayFragment |-> TRUE, pieces |-> <<>>,
        fragment |-> FALSE, whole |-> p, span |-> {}]

\* Whether a bundle is for an endpoint of this node.
Local(p) == HeaderOf(p).dest \in Endpoints

States == {"Received", "Valid", "DefragmentationPending", "DeliveryQueued",
           "Delivered", "ForwardingQueued", "Forwarded", "Invalid"}

Final == {"Delivered", "Forwarded", "Invalid"}

(***************************************************************************)
(* The serialized bundle behind an Arc: an allocation and its hop budget.  *)
(* A StoredBundle owns it, a StoredBundleRef points to it weakly; both     *)
(* carry the same fields, so one record stands for either.  min says       *)
(* whether min_size is known.                                              *)
(***************************************************************************)
Data == [id : Nat, hops : Nat]
StoredBundles == [pb : PrimaryBlocks, state : States, data : Data, min : BOOLEAN]

(***************************************************************************)
(* Messages to the bundle storage agent (BSA).  Of a StoredBundleRef in a  *)
(* message the agent only compares the primary block.  newHops is the hop  *)
(* budget in new_data, -1 when there is no new data.                       *)
(***************************************************************************)
StoreReceivedBundle(p) == [type |-> "StoreReceivedBundle", pb |-> p]
StoreNewBundle(p) == [type |-> "StoreNewBundle", pb |-> p]
UpdateBundle(p, s, h) ==
  [type |-> "UpdateBundle", pb |-> p, newState |-> s, newHops |-> h]
FragmentBundle(p, t) == [type |-> "FragmentBundle", pb |-> p, target |-> t]

StorageMessages ==
  [type : {"StoreReceivedBundle", "StoreNewBundle"}, pb : PrimaryBlocks]
  \cup [type : {"UpdateBundle"}, pb : PrimaryBlocks,
        newState : States \ {"Received"}, newHops : Nat \cup {-1}]
  \cup [type : {"FragmentBundle"}, pb : PrimaryBlocks, target : Nat]

\* The one message from the storage agent to the bundle protocol agent (BPA).
EventBundleUpdated(r) == [type |-> "EventBundleUpdated", bundle |-> r]

\* The first stored bundle with the primary block p, as Vec's position finds it.
IsFirst(seq, p, i) ==
  /\ i \in 1..Len(seq)
  /\ seq[i].pb = p
  /\ \A j \in 1..(i - 1) : seq[j].pb # p

Holds(seq, p) == \E i \in 1..Len(seq) : seq[i].pb = p

\* The elements that are in S, in their order (Vec's retain, an iterator's filter).
Keep(seq, S) ==
  LET kept[n \in 0..Len(seq)] ==
        IF n = 0 THEN <<>>
        ELSE IF seq[n] \in S THEN Append(kept[n - 1], seq[n]) ELSE kept[n - 1]
  IN  kept[Len(seq)]

Without(seq, i) == SubSeq(seq, 1, i - 1) \o SubSeq(seq, i + 1, Len(seq))
==============================================================================

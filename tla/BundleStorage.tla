---------------------------- MODULE BundleStorage ----------------------------
(***************************************************************************)
(* What the bundle storage agent promises to any bundle protocol agent     *)
(* that keeps its side of the contract: a bundle is queued, split or sent  *)
(* to defragmentation only after it was declared Valid, only bundles for   *)
(* other nodes are split and only fragments for this node reassembled, and *)
(* Delivered, Forwarded and Invalid are only sent for a bundle that was    *)
(* handed over or given up.  Nothing else is assumed: messages come in any *)
(* order, any number of times, and long after the bundle has changed or is *)
(* gone.                                                                   *)
(* Dtrd.tla, with the real agent, is shown to implement this specification.*)
(***************************************************************************)
EXTENDS BundleStorageAgent

CONSTANTS Arrivals,     \* primary blocks that may be handed to the agent
          HopCounts,    \* hop budgets a forwarded bundle may be left with
          Targets       \* sizes a bundle may have to be split to

ASSUME ContractAssumption ==
  /\ Arrivals \subseteq PrimaryBlocks
  /\ HopCounts \subseteq Nat /\ Targets \subseteq Nat

vars == <<bpaMail, storageVars, historyVars>>

Init == StorageInit

\* Only bundles for other nodes that may be split are, and their pieces may be
\* split again.
Splittable == {p \in validated : ~Local(p) /\ HeaderOf(p).mayFragment}

\* Only fragments for this node are sent to defragmentation.
Fragments == {p \in validated : Local(p) /\ HeaderOf(p).fragment}

Permitted ==
  {StoreReceivedBundle(p) : p \in Arrivals}
  \cup {StoreNewBundle(p) : p \in Arrivals}
  \cup {UpdateBundle(p, "Valid", -1) : p \in Arrivals}
  \cup {UpdateBundle(p, "DeliveryQueued", -1) : p \in validated}
  \cup {UpdateBundle(p, "DefragmentationPending", -1) : p \in Fragments}
  \cup {UpdateBundle(p, "ForwardingQueued", h) : p \in validated, h \in HopCounts}
  \cup {UpdateBundle(p, s, -1) : p \in finished, s \in Final}
  \cup UNION {{FragmentBundle(p, t) : t \in {l \in Targets : HeaderOf(p).size > l}} :
                p \in Splittable}

Handle == \E m \in Permitted : HandleStorageMessage(m)

\* The protocol agent takes announcements, and bundles are delivered to a client,
\* acknowledged by a peer, or given up.
ProtocolAgent ==
  /\ \/ bpaMail' = bpaMail
     \/ bpaMail # <<>> /\ bpaMail' = Tail(bpaMail)
  /\ \E F \in {{}} \cup {{p} : p \in validated} : finished' = finished \cup F
  /\ UNCHANGED <<storageVars, validated, replaced, torn, failed, written>>

Next == Handle \/ FileStep \/ StartStep \/ Crash \/ ProtocolAgent

Spec == Init /\ [][Next]_vars

TypeOK ==
  /\ StorageTypeOK
  /\ bpaMail \in Seq([type : {"EventBundleUpdated"}, bundle : StoredBundles])
==============================================================================

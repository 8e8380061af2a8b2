------------------------- MODULE BundleStorageProofs -------------------------
(***************************************************************************)
(* What the storage run checks on one split bundle, proved for every set   *)
(* of bundles: the types, that a validated bundle is durable, and that     *)
(* splitting and reassembly are crash-safe.  StorageAgentProofs has the    *)
(* invariants and the argument for each step of the agent.                 *)
(***************************************************************************)
EXTENDS BundleStorage, StorageAgentProofs

Mail == [type : {"EventBundleUpdated"}, bundle : StoredBundles]

MailOK == bpaMail \in Seq(Mail)

\* Announcements are well-typed messages for the protocol agent.
LEMMA AnnounceType ==
  ASSUME MailOK, NEW m, Announces(m)
  PROVE  MailOK'
<1>1. CASE UNCHANGED bpaMail
  BY <1>1 DEF MailOK
<1>2. CASE \E refs \in Seq(StoredBundles) : Announce(refs)
  <2>1. PICK refs \in Seq(StoredBundles) : Announce(refs)
    BY <1>2
  <2> DEFINE ms == [i \in 1..Len(refs) |-> EventBundleUpdated(refs[i])]
  <2>2. Len(refs) \in Nat /\ \A i \in 1..Len(refs) : refs[i] \in StoredBundles
    BY LenProperties, ElementOfSeq
  <2>3. \A i \in 1..Len(refs) : EventBundleUpdated(refs[i]) \in Mail
    BY <2>2 DEF EventBundleUpdated, Mail
  <2>4. ms \in [1..Len(refs) -> Mail]
    BY <2>3
  <2>5. ms \in Seq(Mail)
    BY <2>2, <2>4, SeqDef
  <2>6. bpaMail' = bpaMail \o ms
    BY <2>1 DEF Announce
  <2> HIDE DEF ms
  <2> QED
    BY <2>5, <2>6, ConcatProperties DEF MailOK
<1> QED
  BY <1>1, <1>2 DEF Announces

\* Every message the contract permits is about a bundle in the state it needs.
LEMMA PermittedOK ==
  ASSUME StorageTypeOK, NEW m \in Permitted
  PROVE  MessageOK(m)
<1>1. /\ validated \subseteq PrimaryBlocks /\ finished \subseteq PrimaryBlocks
      /\ Arrivals \subseteq PrimaryBlocks /\ HopCounts \subseteq Nat
      /\ Targets \subseteq Nat
  BY ContractAssumption DEF StorageTypeOK
<1>2. CASE m \in {StoreReceivedBundle(p) : p \in Arrivals}
                \cup {StoreNewBundle(p) : p \in Arrivals}
  BY <1>1, <1>2 DEF StoreReceivedBundle, StoreNewBundle, MessageOK
<1>3. CASE m \in {UpdateBundle(p, "Valid", -1) : p \in Arrivals}
  BY <1>1, <1>3 DEF UpdateBundle, MessageOK, Final
<1>4. CASE m \in {UpdateBundle(p, "DeliveryQueued", -1) : p \in validated}
  BY <1>1, <1>4 DEF UpdateBundle, MessageOK, Final
<1>5. CASE m \in {UpdateBundle(p, "DefragmentationPending", -1) : p \in Fragments}
  BY <1>1, <1>5 DEF UpdateBundle, MessageOK, Final, Fragments
<1>6. CASE m \in {UpdateBundle(p, "ForwardingQueued", h) : p \in validated, h \in HopCounts}
  BY <1>1, <1>6 DEF UpdateBundle, MessageOK, Final
<1>7. CASE m \in {UpdateBundle(p, s, -1) : p \in finished, s \in Final}
  BY <1>1, <1>7 DEF UpdateBundle, MessageOK, Final
<1>8. CASE m \in UNION {{FragmentBundle(p, t) : t \in {l \in Targets : HeaderOf(p).size > l}} :
                          p \in Splittable}
  <2>1. PICK p \in Splittable, t \in Targets :
          m = FragmentBundle(p, t) /\ HeaderOf(p).size > t
    BY <1>8
  <2>2. p \in validated /\ ~Local(p) /\ HeaderOf(p).mayFragment
    BY <2>1 DEF Splittable
  <2>3. m.type = "FragmentBundle" /\ m.pb = p /\ m.target = t
    BY <2>1 DEF FragmentBundle
  <2>4. HeaderOf(p).minSize < t => HeaderOf(p).pieces # <<>>
    BY <1>1, <2>1, <2>2, HasPieces
  <2> QED
    BY <1>1, <2>2, <2>3, <2>4 DEF MessageOK
<1> QED
  BY <1>2, <1>3, <1>4, <1>5, <1>6, <1>7, <1>8 DEF Permitted

-------------------------------------------------------------------------------
(* The theorems *)

\* Every step of the agent, of the disk and of its environment keeps the invariants.
LEMMA NextInv == Inv /\ HInv /\ MailOK /\ [Next]_vars => (Inv /\ HInv /\ MailOK)'
<1> SUFFICES ASSUME Inv, HInv, MailOK, [Next]_vars PROVE (Inv /\ HInv /\ MailOK)'
  OBVIOUS
<1>1. CASE Handle
  <2>1. PICK m \in Permitted : HandleStorageMessage(m)
    BY <1>1 DEF Handle
  <2>2. MessageOK(m)
    BY PermittedOK DEF Inv
  <2>3. Inv' /\ Effect(m) /\ HInv'
    BY <2>1, <2>2, HandleInv, HandleStep
  <2> QED
    BY <2>3, AnnounceType DEF Effect
<1>2. CASE FileStep
  <2>1. UNCHANGED bpaMail
    BY <1>2 DEF FileStep, BeginWrite, EndWrite, FailWrite, PollDeletes, RunDelete
  <2> QED
    BY <1>2, <2>1, FileStepInv, FileStepStep DEF MailOK
<1>3. CASE StartStep
  <2>1. Inv'
    BY <1>3, TriggerLoadingInv, StartAgentInv DEF StartStep
  <2>2. HInv'
    BY <1>3, OtherStep DEF StartStep, TriggerLoading, StartAgent, historyVars
  <2>3. PICK m : m = 0
    OBVIOUS
  <2>4. Effect(m)
    BY <1>3, <2>1, StartEffect
  <2> QED
    BY <2>1, <2>2, <2>4, AnnounceType DEF Effect
<1>4. CASE Crash
  <2>1. bpaMail' = <<>>
    BY <1>4 DEF Crash
  <2> QED
    BY <1>4, <2>1, CrashInv, CrashStep, EmptySeq DEF MailOK
<1>5. CASE ProtocolAgent
  <2>1. /\ UNCHANGED <<storageVars, validated, replaced, torn, failed, written>>
        /\ \E F \in {{}} \cup {{p} : p \in validated} : finished' = finished \cup F
        /\ bpaMail' = bpaMail \/ (bpaMail # <<>> /\ bpaMail' = Tail(bpaMail))
    BY <1>5 DEF ProtocolAgent
  <2>2. finished \subseteq finished' /\ finished' \subseteq PrimaryBlocks
    BY <2>1 DEF Inv, StorageTypeOK
  <2>3. Inv'
    BY <2>1, <2>2, OthersInv
  <2>4. HInv'
    BY <2>1, <2>2, OtherStep DEF storageVars
  <2>5. MailOK'
    BY <2>1, HeadTailProperties DEF MailOK
  <2> QED
    BY <2>3, <2>4, <2>5
<1>6. CASE UNCHANGED vars
  <2>1. UNCHANGED <<bpaMail, storageVars, historyVars>>
    BY <1>6 DEF vars
  <2>2. Inv'
    BY <2>1, StutterInv
  <2>3. HInv'
    BY <2>1, OtherStep DEF storageVars, historyVars
  <2> QED
    BY <2>1, <2>2, <2>3 DEF MailOK
<1> QED
  BY <1>1, <1>2, <1>3, <1>4, <1>5, <1>6 DEF Next

\* The invariants hold in every state of every behaviour.
LEMMA Invariance == Spec => [](Inv /\ HInv /\ MailOK)
<1>1. Init => Inv /\ HInv /\ MailOK
  <2> SUFFICES ASSUME StorageInit PROVE Inv /\ HInv /\ MailOK
    BY DEF Init
  <2>1. MailOK
    BY EmptySeq DEF StorageInit, MailOK
  <2> QED
    BY <2>1, InitInv, InitHandover
<1> QED
  BY <1>1, NextInv, PTL DEF Spec

\* Whatever messages the agent gets, in whatever order, and wherever it is stopped,
\* its Vec, its mailboxes, the directory and the pending writes stay well-typed.
THEOREM TypeCorrect == Spec => []TypeOK
<1>1. Inv /\ MailOK => TypeOK
  BY DEF Inv, MailOK, Mail, TypeOK
<1> QED
  BY <1>1, Invariance, PTL

\* A bundle the daemon processes was requested to be written, and from then on
\* survives a stop of the daemon unless a write failed or was cut off, the bundle is
\* finished, or it was split or reassembled (UpdateBundle, FragmentBundle,
\* write_bundle_to_file, delete_bundle_file).
THEOREM Durability == Spec => []Durable
<1>1. Inv => Durable
  BY SafeBundles
<1> QED
  BY <1>1, Invariance, PTL

\* As long as the fragments of a split bundle, or the bundle reassembled from its
\* fragments, were never written, the daemon finds the old bundle again after a stop
\* at any point: delete_bundle_file is spawned, and polled after the writes the
\* handler waits for (FragmentBundle, try_defragment_bundle).
THEOREM CrashSafeHandover == Spec => []HandoverIsCrashSafe
<1>1. HInv => HandoverIsCrashSafe
  BY SafeHandover
<1> QED
  BY <1>1, Invariance, PTL
===============================================================================

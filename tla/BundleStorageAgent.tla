-------------------------- MODULE BundleStorageAgent --------------------------
(***************************************************************************)
(* The bundle storage agent (BSA) of dtrd: the bundles it holds in memory, *)
(* the files it keeps for them, its mailbox, and the crash and the restart *)
(* of the daemon.  BundleStorage.tla closes this module with the most      *)
(* general bundle protocol agent, Dtrd.tla with the real one.              *)
(*                                                                         *)
(* Writing a file suspends the agent (ctx.wait): no message is handled     *)
(* until the stack of writes is empty.  Deleting a file does not           *)
(* (ctx.spawn): the deletion is first polled when no write is left, and    *)
(* from then on runs beside everything else.                               *)
(***************************************************************************)
EXTENDS BundleTypes

CONSTANTS MaxCrashes,   \* bound: how often the daemon stops
          DiskFaults    \* whether writing or deleting a file may fail

ASSUME StorageAssumption == MaxCrashes \in Nat /\ DiskFaults \in BOOLEAN

VARIABLES
  bpaMail,      \* mailbox of the BPA
  bundles,      \* the stored bundles, in the order of the Vec
  files,        \* the files in the storage directory
  writes,       \* file writes the agent waits for, the next one first
  deletes,      \* file deletions spawned or running
  bsa,          \* "unstarted" until the registry starts it, "up", "panicked"
  boot,         \* whether main has triggered bundle loading
  nextData,     \* the next unused allocation
  crashes,
  \* history
  validated,    \* primary blocks the agent has asked to be written
  finished,     \* delivered, forwarded or expired
  replaced,     \* <<p, q>> : p was split into or reassembled to q
  torn,         \* a write of them was cut off by a crash
  failed,       \* a write of them failed
  written       \* a write of them has ended

storageVars == <<bundles, files, writes, deletes, bsa, boot, nextData, crashes>>
historyVars == <<validated, finished, replaced, torn, failed, written>>

Files == [pb : PrimaryBlocks, hops : Nat, complete : BOOLEAN]
Writes == [pb : PrimaryBlocks, hops : Nat, begun : BOOLEAN]
Deletes == [pb : PrimaryBlocks, phase : {"spawned", "running"}]

StorageTypeOK ==
  /\ bundles \in Seq(StoredBundles)
  /\ files \in SUBSET Files /\ IsFiniteSet(files)
  /\ writes \in Seq(Writes)
  /\ deletes \in SUBSET Deletes
  /\ bsa \in {"unstarted", "up", "panicked"}
  /\ boot \in {"starting", "running"}
  /\ nextData \in Nat \ {0}
  /\ crashes \in 0..MaxCrashes
  /\ validated \in SUBSET PrimaryBlocks
  /\ finished \in SUBSET PrimaryBlocks
  /\ replaced \in SUBSET (PrimaryBlocks \X PrimaryBlocks)
  /\ torn \in SUBSET PrimaryBlocks
  /\ failed \in SUBSET PrimaryBlocks
  /\ written \in SUBSET PrimaryBlocks

StorageInit ==
  /\ bpaMail = <<>> /\ bundles = <<>>
  /\ files = {} /\ writes = <<>> /\ deletes = {}
  /\ bsa = "unstarted" /\ boot = "starting"
  /\ nextData = 1 /\ crashes = 0
  /\ validated = {} /\ finished = {} /\ replaced = {} /\ torn = {} /\ failed = {} /\ written = {}

Writing == {writes[i].pb : i \in 1..Len(writes)}

OnDisk(p) == \E f \in files : f.pb = p /\ f.complete

-------------------------------------------------------------------------------
(* Handlers *)

\* Every stored or changed bundle is announced to the BPA.
Announce(refs) ==
  bpaMail' = bpaMail \o [i \in 1..Len(refs) |-> EventBundleUpdated(refs[i])]

\* write_bundle_to_file and delete_bundle_file as the handlers call them.
WriteOf(sb) == [pb |-> sb.pb, hops |-> sb.data.hops, begun |-> FALSE]
DeleteOf(p) == [pb |-> p, phase |-> "spawned"]

Handles(m, type) == bsa = "up" /\ writes = <<>> /\ m.type = type

\* store_bundle without persisting: the bundle is kept as Received.
HandleStore(m, type) ==
  /\ Handles(m, type)
  /\ LET p == m.pb
         sb == [pb |-> p, state |-> "Received", min |-> FALSE,
                data |-> [id |-> nextData, hops |-> HeaderOf(p).hops]]
     IN  bundles' = Append(bundles, sb) /\ Announce(<<sb>>)
  /\ nextData' = nextData + 1
  /\ UNCHANGED <<files, writes, deletes, bsa, boot, crashes, historyVars>>

HandleStoreReceivedBundle(m) == HandleStore(m, "StoreReceivedBundle")

HandleStoreNewBundle(m) == HandleStore(m, "StoreNewBundle")

\* FragmentBundle or UpdateBundle for a bundle that is no longer stored.
HandleUnknownBundle(m, type) ==
  /\ Handles(m, type)
  /\ ~Holds(bundles, m.pb)
  /\ UNCHANGED <<bpaMail, storageVars, historyVars>>

\* The message is about the i-th stored bundle.
HandlesBundle(m, type, i) == Handles(m, type) /\ IsFirst(bundles, m.pb, i)

\* Bundle::fragment succeeds: the pieces are stored and persisted as Valid
\* bundles before the file of the whole may go.
HandleFragmentBundle(m, i) ==
  /\ HandlesBundle(m, "FragmentBundle", i)
  /\ LET sb == bundles[i]
         ps == HeaderOf(sb.pb).pieces
         pieces == [k \in 1..Len(ps) |->
                     [pb |-> ps[k], state |-> "Valid", min |-> TRUE,
                      data |-> [id |-> nextData + k - 1, hops |-> sb.data.hops]]]
     IN  /\ HeaderOf(sb.pb).minSize < m.target
         /\ bundles' = Without(bundles, i) \o pieces
         /\ writes' = [k \in 1..Len(ps) |-> WriteOf(pieces[Len(ps) + 1 - k])]
         /\ deletes' = deletes \cup {DeleteOf(sb.pb)}
         /\ Announce(pieces)
         /\ nextData' = nextData + Len(ps)
         /\ validated' = validated \cup {ps[k] : k \in 1..Len(ps)}
         /\ replaced' = replaced \cup {<<sb.pb, ps[k]>> : k \in 1..Len(ps)}
  /\ UNCHANGED <<files, bsa, boot, crashes, finished, torn, failed, written>>

\* CanNotFragmentThatSmall: the minimal size is noted and the bundle goes back
\* to the BPA in the state it had.
HandleFragmentTooSmall(m, i) ==
  /\ HandlesBundle(m, "FragmentBundle", i)
  /\ HeaderOf(bundles[i].pb).minSize > m.target
  /\ LET sb == [bundles[i] EXCEPT !.min = TRUE]
     IN  bundles' = Append(Without(bundles, i), sb) /\ Announce(<<sb>>)
  /\ UNCHANGED <<files, writes, deletes, bsa, boot, nextData, crashes, historyVars>>

\* The first fragment would have no room for payload: an assertion fails.
HandleFragmentPanic(m, i) ==
  /\ HandlesBundle(m, "FragmentBundle", i)
  /\ HeaderOf(bundles[i].pb).minSize = m.target
  /\ bundles' = <<>> /\ bsa' = "panicked"
  /\ deletes' = {d \in deletes : d.phase = "running"}
  /\ UNCHANGED <<bpaMail, files, writes, boot, nextData, crashes, historyVars>>

\* UpdateBundle to Valid, DeliveryQueued or ForwardingQueued.
HandleUpdateBundle(m, i) ==
  /\ HandlesBundle(m, "UpdateBundle", i)
  /\ LET old == bundles[i]
         new == [old EXCEPT !.state = m.newState,
                            !.data = IF m.newHops = -1 THEN @
                                     ELSE [id |-> nextData, hops |-> m.newHops]]
         persist == m.newState = "Valid" /\ old.state # "Valid"
     IN  /\ m.newState \in {"Valid", "DeliveryQueued", "ForwardingQueued"}
         /\ writes' = IF persist THEN <<WriteOf(old)>> ELSE <<>>
         /\ validated' = IF persist THEN validated \cup {old.pb} ELSE validated
         /\ bundles' = Append(Without(bundles, i), new)
         /\ Announce(<<new>>)
         /\ nextData' = IF m.newHops = -1 THEN nextData ELSE nextData + 1
  /\ UNCHANGED <<files, deletes, bsa, boot, crashes, finished, replaced, torn,
                 failed, written>>

\* Mutant: the file of a finished bundle is not deleted.
FinishedKeepsFile(m, i) ==
  /\ HandlesBundle(m, "UpdateBundle", i)
  /\ m.newState \in Final
  /\ bundles' = Without(bundles, i)
  /\ UNCHANGED <<bpaMail, files, writes, deletes, bsa, boot, nextData, crashes,
                 historyVars>>

\* UpdateBundle to Delivered, Forwarded or Invalid.
HandleFinishedBundle(m, i) ==
  /\ HandlesBundle(m, "UpdateBundle", i)
  /\ m.newState \in Final
  /\ bundles' = Without(bundles, i)
  /\ deletes' = deletes \cup {DeleteOf(bundles[i].pb)}
  /\ UNCHANGED <<bpaMail, files, writes, bsa, boot, nextData, crashes, historyVars>>

\* Bundle::can_reassemble_bundles: the fragments leave no gap.
CanReassemble(whole, fragments) ==
  UNION {HeaderOf(f.pb).span : f \in fragments} = HeaderOf(whole).span

\* The fragment that starts at offset 0; the reassembled bundle has its blocks.
FirstFragment(fragments) ==
  CHOOSE f \in fragments : 0 \in HeaderOf(f.pb).span

\* The elements of a sequence at some of its indices, in order.
InOrder(K) ==
  {f \in [1..Cardinality(K) -> K] : \A j, k \in 1..Cardinality(K) : j < k => f[j] < f[k]}

Pick(seq, f) == [k \in DOMAIN f |-> seq[f[k]]]

\* UpdateBundle to DefragmentationPending, which tries to reassemble the bundle
\* from all its stored fragments, whatever their state.
HandleDefragmentBundle(m, i) ==
  /\ HandlesBundle(m, "UpdateBundle", i)
  /\ m.newState = "DefragmentationPending"
  /\ LET whole == HeaderOf(bundles[i].pb).whole
         stored == Append(Without(bundles, i), bundles[i])
         parts == {k \in 1..Len(stored) : /\ HeaderOf(stored[k].pb).fragment
                                          /\ HeaderOf(stored[k].pb).whole = whole}
         others == 1..Len(stored) \ parts
         fragments == {stored[k] : k \in parts}
         sb == [pb |-> whole, state |-> "Valid", min |-> FALSE,
                data |-> [id |-> nextData, hops |-> FirstFragment(fragments).data.hops]]
     IN  \E rest \in InOrder(others), taken \in InOrder(parts) :
           \/ /\ CanReassemble(whole, fragments)
              /\ bundles' = Append(Pick(stored, rest), sb)
              /\ writes' = <<WriteOf(sb)>>
              /\ deletes' = deletes \cup {DeleteOf(f.pb) : f \in fragments}
              /\ Announce(<<sb>>)
              /\ nextData' = nextData + 1
              /\ validated' = validated \cup {whole}
              /\ replaced' = replaced \cup {<<f.pb, whole>> : f \in fragments}
           \/ /\ ~CanReassemble(whole, fragments)
              /\ bundles' = Pick(stored, rest) \o Pick(stored, taken)
              /\ UNCHANGED <<writes, deletes, bpaMail, nextData, validated, replaced>>
  /\ UNCHANGED <<files, bsa, boot, crashes, finished, torn, failed, written>>

HandleStorageMessage(m) ==
  \/ HandleStoreReceivedBundle(m)
  \/ HandleStoreNewBundle(m)
  \/ HandleUnknownBundle(m, "FragmentBundle")
  \/ HandleUnknownBundle(m, "UpdateBundle")
  \/ \E i \in 1..Len(bundles) :
       \/ HandleFragmentBundle(m, i)
       \/ HandleFragmentTooSmall(m, i)
       \/ HandleFragmentPanic(m, i)
       \/ HandleUpdateBundle(m, i)
       \/ HandleFinishedBundle(m, i)
       \/ HandleDefragmentBundle(m, i)

-------------------------------------------------------------------------------
(* The file system *)

PutFile(w, c) ==
  {f \in files : f.pb # w.pb} \cup {[pb |-> w.pb, hops |-> w.hops, complete |-> c]}

\* File::create truncates what is there.
BeginWrite ==
  /\ writes # <<>> /\ ~Head(writes).begun
  /\ files' = PutFile(Head(writes), FALSE)
  /\ writes' = [writes EXCEPT ![1].begun = TRUE]
  /\ UNCHANGED <<bpaMail, bundles, deletes, bsa, boot, nextData, crashes,
                 historyVars>>

\* write_all and sync_all, into a file that a deletion may have unlinked.
EndWrite ==
  /\ writes # <<>> /\ Head(writes).begun
  /\ files' = IF \E f \in files : f.pb = Head(writes).pb
              THEN PutFile(Head(writes), TRUE) ELSE files
  /\ writes' = Tail(writes)
  /\ written' = written \cup {Head(writes).pb}
  /\ UNCHANGED <<bpaMail, bundles, deletes, bsa, boot, nextData, crashes,
                 validated, finished, replaced, torn, failed>>

\* An error is logged and nothing else.
FailWrite ==
  /\ DiskFaults /\ writes # <<>>
  /\ failed' = failed \cup {Head(writes).pb}
  /\ writes' = Tail(writes)
  /\ UNCHANGED <<bpaMail, bundles, files, deletes, bsa, boot, nextData,
                 crashes, validated, finished, replaced, torn, written>>

\* Mutant: deletions start without waiting for the writes.
PollDeletesAnytime ==
  /\ bsa = "up"
  /\ \E d \in deletes : d.phase = "spawned"
  /\ deletes' = {[d EXCEPT !.phase = "running"] : d \in deletes}
  /\ UNCHANGED <<bpaMail, bundles, files, writes, bsa, boot, nextData,
                 crashes, historyVars>>

\* The spawned deletions are polled, which starts them, once nothing is waited for.
PollDeletes ==
  /\ bsa = "up" /\ writes = <<>>
  /\ \E d \in deletes : d.phase = "spawned"
  /\ deletes' = {[d EXCEPT !.phase = "running"] : d \in deletes}
  /\ UNCHANGED <<bpaMail, bundles, files, writes, bsa, boot, nextData,
                 crashes, historyVars>>

\* Mutant: the name of a file leaves the fragment offset out.
RunDeleteOfWhole(d) ==
  /\ d.phase = "running"
  /\ files' = {f \in files : HeaderOf(f.pb).whole # HeaderOf(d.pb).whole}
  /\ deletes' = deletes \ {d}
  /\ UNCHANGED <<bpaMail, bundles, writes, bsa, boot, nextData, crashes,
                 historyVars>>

\* remove_file; when it fails, or there is no such file, a warning is logged.
RunDelete(d) ==
  /\ d.phase = "running"
  /\ \/ files' = {f \in files : f.pb # d.pb}
     \/ DiskFaults /\ files' = files
  /\ deletes' = deletes \ {d}
  /\ UNCHANGED <<bpaMail, bundles, writes, bsa, boot, nextData, crashes,
                 historyVars>>

FileStep ==
  \/ BeginWrite \/ EndWrite \/ FailWrite \/ PollDeletes
  \/ \E d \in deletes : RunDelete(d)

-------------------------------------------------------------------------------
(* Stop and start of the daemon *)

\* The orders in which read_dir may list the files.
Listings ==
  {s \in [1..Cardinality(files) -> files] :
     \A i, j \in 1..Cardinality(files) : s[i] = s[j] => i = j}

Readable == \A f \in files : f.complete

\* Mutant: loading a bundle raises its hop count.
LoadedBundleAsHop(f, id) ==
  [pb |-> f.pb, state |-> "Valid", min |-> FALSE,
   data |-> [id |-> id, hops |-> f.hops - 1]]

LoadedBundle(f, id) ==
  [pb |-> f.pb, state |-> "Valid", min |-> FALSE,
   data |-> [id |-> id, hops |-> f.hops]]

\* main starts a storage agent of its own "to trigger bundle loading": it
\* announces the files and is gone again before anyone can use its references
\* (allocation 0 belongs to nobody).  A torn file panics it, and it alone.
TriggerLoading ==
  /\ boot = "starting"
  /\ boot' = "running"
  /\ \/ /\ Readable
        /\ \E s \in Listings :
             Announce([i \in 1..Len(s) |-> LoadedBundle(s[i], 0)])
     \/ ~Readable /\ UNCHANGED bpaMail
  /\ UNCHANGED <<bundles, files, writes, deletes, bsa, nextData, crashes,
                 historyVars>>

\* The registry starts the agent all others talk to when the first message for
\* it is sent (the composition says when); it loads the files before it handles
\* that message.
StartAgent ==
  /\ bsa = "unstarted"
  /\ \/ /\ Readable
        /\ \E s \in Listings :
             LET loaded == [i \in 1..Len(s) |-> LoadedBundle(s[i], nextData + i - 1)]
             IN  bundles' = loaded /\ Announce(loaded)
        /\ bsa' = "up"
        /\ nextData' = nextData + Cardinality(files)
     \/ /\ ~Readable
        /\ bsa' = "panicked"
        /\ UNCHANGED <<bundles, bpaMail, nextData>>
  /\ UNCHANGED <<files, writes, deletes, boot, crashes, historyVars>>

\* The process ends, by a signal or a crash: only the files are left.
Crash ==
  /\ crashes < MaxCrashes
  /\ crashes' = crashes + 1
  /\ bpaMail' = <<>> /\ bundles' = <<>>
  /\ writes' = <<>> /\ deletes' = {}
  /\ bsa' = "unstarted" /\ boot' = "starting"
  /\ torn' = torn \cup Writing
  /\ UNCHANGED <<files, nextData, validated, finished, replaced, failed, written>>

StartStep == TriggerLoading \/ StartAgent

-------------------------------------------------------------------------------
(* Properties *)

\* A bundle is processed only after its file was requested, and from then on it
\* survives a stop of the daemon: its file is complete unless it is being
\* written, a write of it failed or was cut off, the bundle is finished, or it was
\* split or reassembled into others.
Safe(p) ==
  \/ OnDisk(p) \/ p \in Writing \/ p \in torn \/ p \in failed \/ p \in finished
  \/ \E r \in replaced : r[1] = p

Durable ==
  /\ \A i \in 1..Len(bundles) : bundles[i].state # "Received" => bundles[i].pb \in validated
  /\ \A p \in validated : Safe(p)

\* Splitting and reassembly are crash-safe: as long as the new bundle was never
\* written completely, the old one can be loaded again, if it ever was safe.
HandoverIsCrashSafe ==
  \A r \in replaced :
    r[1] \in validated /\ r[2] \notin written =>
      \/ OnDisk(r[1])
      \/ r[1] \in Writing \cup torn \cup failed \cup finished
      \/ r[2] \in failed
===============================================================================

------------------------- MODULE StorageAgentProofs -------------------------
(***************************************************************************)
(* The storage agent, whoever sends it messages: what its handlers, the    *)
(* file system, a stop and a start preserve as long as every message keeps *)
(* the contract of BundleStorage (MessageOK).  BundleStorageProofs takes   *)
(* its theorems from here, and DtrdProofs those about the whole daemon.    *)
(***************************************************************************)
EXTENDS BundleStorageAgent, TLAPS, FiniteSetTheorems, SequenceTheorems

-------------------------------------------------------------------------------
(* The inductive invariant *)

\* The file of p may go: p is finished, or was replaced by other bundles.
Gone(p) == p \in finished \/ \E r \in replaced : r[1] = p

StoredAreValidated ==
  \A i \in 1..Len(bundles) : bundles[i].state # "Received" => bundles[i].pb \in validated

WritesAreValidated == \A i \in 1..Len(writes) : writes[i].pb \in validated

FilesAreValidated == \A f \in files : f.pb \in validated

DeletesAreGone == \A d \in deletes : Gone(d.pb)

\* Only a deletion can take the file of a write that has begun.
BegunHaveFile ==
  \A i \in 1..Len(writes) :
    writes[i].begun => Gone(writes[i].pb) \/ \E f \in files : f.pb = writes[i].pb

ValidatedAreSafe == \A p \in validated : Safe(p)

Inv ==
  /\ StorageTypeOK
  /\ StoredAreValidated /\ WritesAreValidated /\ FilesAreValidated
  /\ DeletesAreGone /\ BegunHaveFile /\ ValidatedAreSafe

-------------------------------------------------------------------------------
(* Lemmas about the data *)

\* The parts of a header the storage agent uses have their types, for reports too.
LEMMA HeaderType ==
  ASSUME NEW p \in PrimaryBlocks
  PROVE  /\ HeaderOf(p).hops \in Nat
         /\ HeaderOf(p).pieces \in Seq(PrimaryBlocks)
         /\ HeaderOf(p).whole \in PrimaryBlocks
<1>1. CASE p \in Bundles
  <2>1. Header[p] \in Headers
    BY <1>1, HeaderAssumption
  <2>2. HeaderOf(p) = Header[p]
    BY <1>1 DEF HeaderOf
  <2>3. /\ Header[p].hops \in Nat
        /\ Header[p].pieces \in Seq(Bundles)
        /\ Header[p].whole \in Bundles
    BY <2>1 DEF Headers
  <2>4. Seq(Bundles) \subseteq Seq(PrimaryBlocks)
    BY SeqMonotonic DEF PrimaryBlocks
  <2> QED
    BY <2>2, <2>3, <2>4 DEF PrimaryBlocks
<1>2. CASE p \notin Bundles
  <2>1. /\ HeaderOf(p).hops = 17
        /\ HeaderOf(p).pieces = <<>>
        /\ HeaderOf(p).whole = p
    BY <1>2 DEF HeaderOf
  <2>2. <<>> \in Seq(PrimaryBlocks)
    BY EmptySeq
  <2> QED
    BY <2>1, <2>2
<1> QED
  BY <1>1, <1>2

\* Removing an element (Vec::remove) leaves a sequence of elements that were there.
LEMMA WithoutType ==
  ASSUME NEW S, NEW s \in Seq(S), NEW i \in 1..Len(s)
  PROVE  /\ Without(s, i) \in Seq(S)
         /\ \A k \in 1..Len(Without(s, i)) :
              \E j \in 1..Len(s) : Without(s, i)[k] = s[j]
<1> DEFINE l == SubSeq(s, 1, i - 1)
           r == SubSeq(s, i + 1, Len(s))
<1>0. Len(s) \in Nat /\ i \in 1..Len(s)
  BY LenProperties
<1>1. /\ l \in Seq(S) /\ Len(l) = i - 1
      /\ \A k \in 1..(i - 1) : l[k] = s[k]
  BY <1>0, SubSeqProperties, SMT
<1>2. /\ r \in Seq(S) /\ Len(r) = Len(s) - i
      /\ \A k \in 1..(Len(s) - i) : r[k] = s[i + k]
  BY <1>0, SubSeqProperties, SMT
<1>3. Without(s, i) = l \o r
  BY DEF Without
<1> HIDE DEF l, r
<1>4. /\ l \o r \in Seq(S)
      /\ Len(l \o r) = Len(l) + Len(r)
      /\ \A k \in 1..(Len(l) + Len(r)) :
           (l \o r)[k] = IF k <= Len(l) THEN l[k] ELSE r[k - Len(l)]
  BY <1>1, <1>2, ConcatProperties
<1>5. ASSUME NEW k \in 1..Len(l \o r)
      PROVE  \E j \in 1..Len(s) : (l \o r)[k] = s[j]
  <2>1. CASE k < i
    <3>1. k \in 1..Len(s) /\ (l \o r)[k] = s[k]
      BY <1>0, <1>1, <1>2, <1>4, <1>5, <2>1
    <3> QED BY <3>1
  <2>2. CASE k >= i
    <3>1. k + 1 \in 1..Len(s) /\ (l \o r)[k] = s[k + 1]
      <4>1. k - (i - 1) \in 1..(Len(s) - i) /\ i + (k - (i - 1)) = k + 1
        BY <1>0, <1>1, <1>2, <1>4, <1>5, <2>2
      <4> QED
        BY <1>0, <1>1, <1>2, <1>4, <1>5, <2>2, <4>1
    <3> QED BY <3>1
  <2> QED
    BY <2>1, <2>2, <1>0, <1>1, <1>2, <1>4, <1>5
<1> QED
  BY <1>3, <1>4, <1>5

\* Taking an element out and putting another one at the end.
LEMMA MovedType ==
  ASSUME NEW S, NEW s \in Seq(S), NEW i \in 1..Len(s), NEW x \in S
  PROVE  /\ Append(Without(s, i), x) \in Seq(S)
         /\ \A k \in 1..Len(Append(Without(s, i), x)) :
              \/ Append(Without(s, i), x)[k] = x
              \/ \E j \in 1..Len(s) : Append(Without(s, i), x)[k] = s[j]
<1> DEFINE w == Without(s, i)
<1>1. /\ w \in Seq(S)
      /\ \A k \in 1..Len(w) : \E j \in 1..Len(s) : w[k] = s[j]
  BY WithoutType
<1> HIDE DEF w
<1>2. /\ Append(w, x) \in Seq(S)
      /\ Len(Append(w, x)) = Len(w) + 1
      /\ \A k \in 1..Len(w) : Append(w, x)[k] = w[k]
      /\ Append(w, x)[Len(w) + 1] = x
      /\ Len(w) \in Nat
  BY <1>1, AppendProperties, LenProperties
<1>3. \A k \in 1..Len(Append(w, x)) :
        \/ Append(w, x)[k] = x
        \/ \E j \in 1..Len(s) : Append(w, x)[k] = s[j]
  BY <1>1, <1>2
<1> QED
  BY <1>2, <1>3 DEF w

\* A sequence of one element.
LEMMA SingletonSeq ==
  ASSUME NEW S, NEW x \in S
  PROVE  <<x>> \in Seq(S) /\ Len(<<x>>) = 1 /\ <<x>>[1] = x
OBVIOUS

\* What a message of the contract may be about.
MessageOK(m) ==
  /\ m.pb \in PrimaryBlocks
  /\ m.type = "UpdateBundle" =>
       /\ m.newHops \in Nat \cup {-1}
       /\ m.newState \in Final => m.pb \in finished
       /\ m.newState \in {"DeliveryQueued", "ForwardingQueued"} => m.pb \in validated
       /\ m.newState = "DefragmentationPending" => Local(m.pb) /\ HeaderOf(m.pb).fragment
  /\ m.type = "FragmentBundle" =>
       /\ HeaderOf(m.pb).minSize < m.target => HeaderOf(m.pb).pieces # <<>>
       /\ m.pb \in validated /\ ~Local(m.pb)

\* r is a bundle as the agent keeps and announces it after a message m: stored or
\* loaded anew, or in a state it had before or that m gives it.
Announced(r, m) ==
  /\ r.state # "Received" => r.pb \in validated'
  /\ \/ r.state \in {"Received", "Valid"}
     \/ \E j \in 1..Len(bundles) : bundles[j].pb = r.pb /\ bundles[j].state = r.state
     \/ m.type = "UpdateBundle" /\ m.pb = r.pb /\ m.newState = r.state

Announces(m) ==
  \/ UNCHANGED bpaMail
  \/ \E refs \in Seq(StoredBundles) :
       Announce(refs) /\ \A k \in 1..Len(refs) : Announced(refs[k], m)

Effect(m) == Announces(m) /\ \A k \in 1..Len(bundles') : Announced(bundles'[k], m)

\* The effect of a handler that announces one bundle.
LEMMA EffectOfOne ==
  ASSUME NEW m, NEW r \in StoredBundles, Announce(<<r>>), Announced(r, m),
         StoredAreValidated',
         \A k \in 1..Len(bundles') :
           bundles'[k] = r \/ \E j \in 1..Len(bundles) : bundles'[k] = bundles[j]
  PROVE  Effect(m)
<1>1. PICK refs : refs = <<r>>
  OBVIOUS
<1>2. refs \in Seq(StoredBundles) /\ Len(refs) = 1 /\ refs[1] = r /\ Announce(refs)
  BY <1>1, SingletonSeq
<1>3. \A k \in 1..Len(refs) : Announced(refs[k], m)
  BY <1>2
<1>4. Announces(m)
  BY <1>2, <1>3 DEF Announces
<1>5. ASSUME NEW k \in 1..Len(bundles'),
             \E j \in 1..Len(bundles) : bundles'[k] = bundles[j]
      PROVE  Announced(bundles'[k], m)
  BY <1>5 DEF Announced, StoredAreValidated
<1> QED
  BY <1>4, <1>5 DEF Effect

\* The effect of a handler that announces nothing.
LEMMA EffectOfNone ==
  ASSUME NEW m, UNCHANGED bpaMail, StoredAreValidated',
         \A k \in 1..Len(bundles') : \E j \in 1..Len(bundles) : bundles'[k] = bundles[j]
  PROVE  Effect(m)
<1>1. ASSUME NEW k \in 1..Len(bundles')
      PROVE  Announced(bundles'[k], m)
  BY <1>1 DEF Announced, StoredAreValidated
<1> QED
  BY <1>1 DEF Effect, Announces

\* A bundle that is larger than what it can be split to has pieces.
LEMMA HasPieces ==
  ASSUME NEW p \in PrimaryBlocks, NEW t \in Nat, HeaderOf(p).mayFragment,
         HeaderOf(p).size > t, HeaderOf(p).minSize < t
  PROVE  HeaderOf(p).pieces # <<>>
<1>1. CASE p \in Bundles
  <2>1. HeaderOf(p) = Header[p] /\ Header[p] \in Headers
    BY <1>1, HeaderAssumption DEF HeaderOf
  <2>2. Header[p].size \in Nat /\ Header[p].minSize \in Nat
    BY <2>1 DEF Headers
  <2>3. Header[p].minSize < Header[p].size
    BY <2>1, <2>2
  <2> QED
    BY <1>1, <2>1, <2>3, HeaderAssumption
<1>2. CASE p \notin Bundles
  <2>1. HeaderOf(p).size = 0
    BY <1>2 DEF HeaderOf
  <2> QED
    BY <2>1
<1> QED
  BY <1>1, <1>2

-------------------------------------------------------------------------------
(* Initial states and handlers *)

\* A handler runs with no write under way and touches no file: what was safe stays
\* safe, what was gone stays gone.
LEMMA HandlerKeepsSafe ==
  ASSUME writes = <<>>, files' = files, torn' = torn, failed' = failed,
         finished' = finished, replaced \subseteq replaced', NEW p
  PROVE  /\ Safe(p) => Safe(p)'
         /\ Gone(p) => Gone(p)'
<1>1. Writing = {}
  <2>1. Len(writes) = 0
    OBVIOUS
  <2> QED BY <2>1 DEF Writing
<1> QED
  BY <1>1 DEF Safe, Gone, OnDisk

\* store_bundle: the new bundle is Received and needs no file yet.
LEMMA StoreInv ==
  ASSUME Inv, NEW m, MessageOK(m), NEW type, HandleStore(m, type)
  PROVE  Inv' /\ Effect(m)
<1> DEFINE sb == [pb |-> m.pb, state |-> "Received", min |-> FALSE,
                  data |-> [id |-> nextData, hops |-> HeaderOf(m.pb).hops]]
<1>1. /\ bundles \in Seq(StoredBundles) /\ nextData \in Nat \ {0}
      /\ m.pb \in PrimaryBlocks
  BY DEF Inv, StorageTypeOK, MessageOK
<1>2. sb \in StoredBundles
  BY <1>1, HeaderType DEF StoredBundles, Data, States
<1>3. /\ bundles' = Append(bundles, sb) /\ Announce(<<sb>>)
      /\ nextData' = nextData + 1
      /\ UNCHANGED <<files, writes, deletes, bsa, boot, crashes, historyVars>>
  BY DEF HandleStore
<1>4. sb.state = "Received"
  OBVIOUS
<1> HIDE DEF sb
<1>6. /\ bundles' \in Seq(StoredBundles) /\ Len(bundles') = Len(bundles) + 1
      /\ \A i \in 1..Len(bundles) : bundles'[i] = bundles[i]
      /\ bundles'[Len(bundles) + 1] = sb
  BY <1>1, <1>2, <1>3, AppendProperties
<1>7. StorageTypeOK'
  BY <1>1, <1>3, <1>6 DEF Inv, StorageTypeOK, historyVars
<1>8. StoredAreValidated'
  BY <1>1, <1>3, <1>4, <1>6, LenProperties DEF Inv, StoredAreValidated, historyVars
<1>9. (WritesAreValidated /\ FilesAreValidated /\ DeletesAreGone /\ BegunHaveFile
        /\ ValidatedAreSafe)'
  BY <1>3 DEF Inv, WritesAreValidated, FilesAreValidated, DeletesAreGone,
     BegunHaveFile, ValidatedAreSafe, Safe, Gone, OnDisk, Writing, historyVars
<1>10. Effect(m)
  <2>1. \A k \in 1..Len(bundles') :
          bundles'[k] = sb \/ \E j \in 1..Len(bundles) : bundles'[k] = bundles[j]
    BY <1>1, <1>6, LenProperties
  <2>2. Announced(sb, m)
    BY <1>4 DEF Announced
  <2> QED
    BY <1>2, <1>3, <1>8, <2>1, <2>2, EffectOfOne
<1> QED
  BY <1>7, <1>8, <1>9, <1>10 DEF Inv

\* The other parts of the invariant only depend on files, writes and history.
LEMMA FilesUntouched ==
  ASSUME Inv, UNCHANGED <<files, writes, deletes, historyVars>>
  PROVE  (/\ WritesAreValidated /\ FilesAreValidated /\ DeletesAreGone
          /\ BegunHaveFile /\ ValidatedAreSafe)'
BY DEF Inv, WritesAreValidated, FilesAreValidated, DeletesAreGone, BegunHaveFile,
   ValidatedAreSafe, Safe, Gone, OnDisk, Writing, historyVars

\* CanNotFragmentThatSmall: the bundle only learns its minimal size.
LEMMA TooSmallInv ==
  ASSUME Inv, NEW m, NEW i, HandleFragmentTooSmall(m, i)
  PROVE  Inv' /\ Effect(m)
<1> DEFINE sb == [bundles[i] EXCEPT !.min = TRUE]
<1>1. /\ bundles \in Seq(StoredBundles)
      /\ i \in 1..Len(bundles)
  BY DEF Inv, StorageTypeOK, HandleFragmentTooSmall, HandlesBundle, IsFirst
<1>2. bundles[i] \in StoredBundles
  BY <1>1, ElementOfSeq
<1>3. sb \in StoredBundles /\ sb.state = bundles[i].state /\ sb.pb = bundles[i].pb
  BY <1>2 DEF StoredBundles
<1>4. /\ bundles' = Append(Without(bundles, i), sb) /\ Announce(<<sb>>)
      /\ UNCHANGED <<files, writes, deletes, bsa, boot, nextData, crashes, historyVars>>
  BY DEF HandleFragmentTooSmall
<1> HIDE DEF sb
<1>6. /\ bundles' \in Seq(StoredBundles)
      /\ \A k \in 1..Len(bundles') :
           bundles'[k] = sb \/ \E j \in 1..Len(bundles) : bundles'[k] = bundles[j]
  <2> DEFINE t == Append(Without(bundles, i), sb)
  <2>1. /\ t \in Seq(StoredBundles)
        /\ \A k \in 1..Len(t) :
             t[k] = sb \/ \E j \in 1..Len(bundles) : t[k] = bundles[j]
    BY <1>1, <1>3, MovedType
  <2>2. bundles' = t
    BY <1>4
  <2> HIDE DEF t
  <2> QED
    BY <2>1, <2>2
<1>7. StorageTypeOK'
  BY <1>4, <1>6 DEF Inv, StorageTypeOK, historyVars
<1>8. StoredAreValidated'
  BY <1>1, <1>3, <1>4, <1>6 DEF Inv, StoredAreValidated, historyVars
<1>9. Announced(sb, m)
  BY <1>1, <1>3, <1>4 DEF Announced, Inv, StoredAreValidated, historyVars
<1>10. Effect(m)
  BY <1>3, <1>4, <1>6, <1>8, <1>9, EffectOfOne
<1> QED
  BY <1>4, <1>7, <1>8, <1>10, FilesUntouched DEF Inv

\* A failed assertion ends the agent with its bundles and spawned deletions.
LEMMA PanicInv ==
  ASSUME Inv, NEW m, NEW i, HandleFragmentPanic(m, i)
  PROVE  Inv' /\ Effect(m)
<1>1. /\ bundles' = <<>> /\ bsa' = "panicked"
      /\ deletes' \subseteq deletes
      /\ UNCHANGED <<bpaMail, files, writes, boot, nextData, crashes, historyVars>>
  BY DEF HandleFragmentPanic
<1>2. StorageTypeOK'
  BY <1>1, EmptySeq DEF Inv, StorageTypeOK, historyVars
<1>3. StoredAreValidated'
  BY <1>1 DEF StoredAreValidated
<1>4. (WritesAreValidated /\ FilesAreValidated /\ DeletesAreGone /\ BegunHaveFile
        /\ ValidatedAreSafe)'
  BY <1>1 DEF Inv, WritesAreValidated, FilesAreValidated, DeletesAreGone,
     BegunHaveFile, ValidatedAreSafe, Safe, Gone, OnDisk, Writing, historyVars
<1>5. Effect(m)
  <2>1. Len(bundles') = 0
    BY <1>1
  <2> QED
    BY <1>1, <1>3, <2>1, EffectOfNone
<1> QED
  BY <1>2, <1>3, <1>4, <1>5 DEF Inv

\* UpdateBundle to a final state removes the bundle and spawns the deletion.
LEMMA FinishedInv ==
  ASSUME Inv, NEW m, MessageOK(m), NEW i, HandleFinishedBundle(m, i)
  PROVE  Inv' /\ Effect(m)
<1>1. /\ bundles \in Seq(StoredBundles)
      /\ i \in 1..Len(bundles) /\ bundles[i].pb = m.pb
      /\ m.pb \in finished /\ m.pb \in PrimaryBlocks
  BY DEF Inv, StorageTypeOK, HandleFinishedBundle, HandlesBundle, IsFirst,
     Handles, MessageOK
<1>2. /\ bundles' = Without(bundles, i)
      /\ deletes' = deletes \cup {DeleteOf(m.pb)}
      /\ UNCHANGED <<bpaMail, files, writes, bsa, boot, nextData, crashes, historyVars>>
  BY <1>1 DEF HandleFinishedBundle
<1>3. /\ bundles' \in Seq(StoredBundles)
      /\ \A k \in 1..Len(bundles') : \E j \in 1..Len(bundles) : bundles'[k] = bundles[j]
  BY <1>1, <1>2, WithoutType
<1>4. DeleteOf(m.pb) \in Deletes /\ DeleteOf(m.pb).pb = m.pb
  BY <1>1 DEF DeleteOf, Deletes
<1>5. StorageTypeOK'
  BY <1>2, <1>3, <1>4 DEF Inv, StorageTypeOK, historyVars
<1>6. StoredAreValidated'
  BY <1>2, <1>3 DEF Inv, StoredAreValidated, historyVars
<1>7. DeletesAreGone'
  BY <1>1, <1>2, <1>4 DEF Inv, DeletesAreGone, Gone, historyVars
<1>8. (WritesAreValidated /\ FilesAreValidated /\ BegunHaveFile /\ ValidatedAreSafe)'
  BY <1>2 DEF Inv, WritesAreValidated, FilesAreValidated, BegunHaveFile,
     ValidatedAreSafe, Safe, Gone, OnDisk, Writing, historyVars
<1>9. Effect(m)
  BY <1>2, <1>3, <1>6, EffectOfNone
<1> QED
  BY <1>5, <1>6, <1>7, <1>8, <1>9 DEF Inv

\* UpdateBundle to Valid, DeliveryQueued or ForwardingQueued: the first time a
\* bundle becomes Valid it is written.
LEMMA UpdateInv ==
  ASSUME Inv, NEW m, MessageOK(m), NEW i, HandleUpdateBundle(m, i)
  PROVE  Inv' /\ Effect(m)
<1> DEFINE old == bundles[i]
           new == [old EXCEPT !.state = m.newState,
                              !.data = IF m.newHops = -1 THEN @
                                       ELSE [id |-> nextData, hops |-> m.newHops]]
           persist == m.newState = "Valid" /\ old.state # "Valid"
<1>1. /\ bundles \in Seq(StoredBundles) /\ nextData \in Nat \ {0}
      /\ i \in 1..Len(bundles) /\ old.pb = m.pb /\ writes = <<>>
      /\ m.type = "UpdateBundle"
      /\ m.newState \in {"Valid", "DeliveryQueued", "ForwardingQueued"}
      /\ m.newHops \in Nat \cup {-1}
      /\ m.newState # "Valid" => m.pb \in validated
  BY DEF Inv, StorageTypeOK, HandleUpdateBundle, HandlesBundle, IsFirst,
     Handles, MessageOK
<1>2. old \in StoredBundles
  BY <1>1, ElementOfSeq
<1>3. new \in StoredBundles /\ new.pb = m.pb /\ new.state = m.newState
  BY <1>1, <1>2 DEF StoredBundles, Data, States
<1>4. /\ writes' = IF persist THEN <<WriteOf(old)>> ELSE <<>>
      /\ validated' = IF persist THEN validated \cup {m.pb} ELSE validated
      /\ bundles' = Append(Without(bundles, i), new)
      /\ Announce(<<new>>)
      /\ nextData' = IF m.newHops = -1 THEN nextData ELSE nextData + 1
      /\ UNCHANGED <<files, deletes, bsa, boot, crashes, finished, replaced, torn,
                     failed, written>>
  BY <1>1 DEF HandleUpdateBundle
<1>5. WriteOf(old) \in Writes /\ WriteOf(old).pb = m.pb /\ ~WriteOf(old).begun
  BY <1>1, <1>2 DEF WriteOf, Writes, StoredBundles, Data
<1>6. m.pb \in validated'
  BY <1>1, <1>4 DEF Inv, StoredAreValidated
<1> HIDE DEF new
<1>8. /\ bundles' \in Seq(StoredBundles)
      /\ \A k \in 1..Len(bundles') :
           bundles'[k] = new \/ \E j \in 1..Len(bundles) : bundles'[k] = bundles[j]
  <2> DEFINE t == Append(Without(bundles, i), new)
  <2>1. /\ t \in Seq(StoredBundles)
        /\ \A k \in 1..Len(t) :
             t[k] = new \/ \E j \in 1..Len(bundles) : t[k] = bundles[j]
    BY <1>1, <1>3, MovedType
  <2>2. bundles' = t
    BY <1>4
  <2> HIDE DEF t
  <2> QED
    BY <2>1, <2>2
<1>9. /\ writes' \in Seq(Writes)
      /\ persist => Len(writes') = 1 /\ writes'[1] = WriteOf(old)
      /\ ~persist => Len(writes') = 0
  BY <1>4, <1>5, SingletonSeq, EmptySeq
<1>10. StorageTypeOK'
  <2>1. nextData' \in Nat \ {0} /\ validated' \in SUBSET PrimaryBlocks
    BY <1>1, <1>4 DEF Inv, StorageTypeOK, MessageOK
  <2> QED
    BY <1>4, <1>8, <1>9, <2>1 DEF Inv, StorageTypeOK
<1>11. StoredAreValidated'
  BY <1>3, <1>4, <1>6, <1>8 DEF Inv, StoredAreValidated
<1>12. WritesAreValidated' /\ BegunHaveFile'
  BY <1>5, <1>6, <1>9 DEF WritesAreValidated, BegunHaveFile
<1>13. FilesAreValidated' /\ DeletesAreGone'
  BY <1>4 DEF Inv, FilesAreValidated, DeletesAreGone, Gone
<1>14. ValidatedAreSafe'
  <2>1. \A p \in validated : Safe(p)'
    BY <1>1, <1>4, HandlerKeepsSafe DEF Inv, ValidatedAreSafe
  <2>2. persist => m.pb \in Writing'
    BY <1>5, <1>9 DEF Writing
  <2> QED
    BY <1>4, <2>1, <2>2 DEF ValidatedAreSafe, Safe
<1>15. Effect(m)
  <2>1. Announced(new, m)
    BY <1>1, <1>3, <1>6 DEF Announced
  <2> QED
    BY <1>3, <1>4, <1>8, <1>11, <2>1, EffectOfOne
<1> QED
  BY <1>10, <1>11, <1>12, <1>13, <1>14, <1>15 DEF Inv

\* FragmentBundle: all pieces are written before the file of the whole may go.
LEMMA FragmentInv ==
  ASSUME Inv, NEW m, MessageOK(m), NEW i, HandleFragmentBundle(m, i)
  PROVE  Inv' /\ Effect(m)
<1> DEFINE sb == bundles[i]
           ps == HeaderOf(sb.pb).pieces
           n == Len(ps)
           piece(k) == [pb |-> ps[k], state |-> "Valid", min |-> TRUE,
                        data |-> [id |-> nextData + k - 1, hops |-> sb.data.hops]]
           pieces == [k \in 1..n |-> piece(k)]
           ws == [k \in 1..n |-> WriteOf(pieces[n + 1 - k])]
<1>1. /\ bundles \in Seq(StoredBundles) /\ nextData \in Nat \ {0}
      /\ i \in 1..Len(bundles) /\ sb.pb = m.pb /\ writes = <<>>
      /\ m.pb \in PrimaryBlocks /\ ps # <<>>
  BY DEF Inv, StorageTypeOK, HandleFragmentBundle, HandlesBundle, IsFirst,
     Handles, MessageOK
<1>2. sb \in StoredBundles
  BY <1>1, ElementOfSeq
<1>3. ps \in Seq(PrimaryBlocks) /\ n \in Nat /\ \A k \in 1..n : ps[k] \in PrimaryBlocks
  BY <1>1, HeaderType, LenProperties, ElementOfSeq
<1>4. n > 0
  BY <1>1, <1>3, EmptySeq
<1>5. /\ bundles' = Without(bundles, i) \o pieces
      /\ writes' = ws
      /\ deletes' = deletes \cup {DeleteOf(m.pb)}
      /\ Announce(pieces)
      /\ nextData' = nextData + n
      /\ validated' = validated \cup {ps[k] : k \in 1..n}
      /\ replaced' = replaced \cup {<<m.pb, ps[k]>> : k \in 1..n}
      /\ UNCHANGED <<files, bsa, boot, crashes, finished, torn, failed, written>>
  <2>1. Len(pieces) = n
    BY <1>3
  <2> QED
    BY <1>1, <2>1 DEF HandleFragmentBundle
<1> HIDE DEF ps, n
<1>6. /\ pieces \in Seq(StoredBundles) /\ Len(pieces) = n
      /\ \A k \in 1..n : /\ pieces[k].pb = ps[k] /\ pieces[k] \in StoredBundles
                         /\ pieces[k].state = "Valid"
  <2>1. \A k \in 1..n : piece(k) \in StoredBundles
    BY <1>1, <1>2, <1>3 DEF StoredBundles, Data, States
  <2>2. pieces \in [1..n -> StoredBundles]
    BY <2>1
  <2>3. pieces \in Seq(StoredBundles) /\ Len(pieces) = n
    BY <1>3, <2>2, SeqDef
  <2> QED
    BY <2>1, <2>3
<1>7. /\ ws \in Seq(Writes) /\ Len(ws) = n
      /\ \A k \in 1..n : /\ ws[k].pb = ps[n + 1 - k]
                         /\ ~ws[k].begun
  <2> HIDE DEF pieces
  <2>1. \A k \in 1..n : n + 1 - k \in 1..n
    BY <1>3
  <2>2. \A k \in 1..n : /\ WriteOf(pieces[n + 1 - k]) \in Writes
                        /\ WriteOf(pieces[n + 1 - k]).pb = ps[n + 1 - k]
                        /\ ~WriteOf(pieces[n + 1 - k]).begun
    BY <1>6, <2>1 DEF WriteOf, Writes, StoredBundles, Data
  <2>3. ws \in [1..n -> Writes]
    BY <2>2
  <2>4. ws \in Seq(Writes) /\ Len(ws) = n
    BY <1>3, <2>3, SeqDef
  <2> QED
    BY <2>2, <2>4
<1> HIDE DEF pieces, ws
<1>9. /\ bundles' \in Seq(StoredBundles)
      /\ \A k \in 1..Len(bundles') :
           \/ \E j \in 1..n : bundles'[k] = pieces[j]
           \/ \E j \in 1..Len(bundles) : bundles'[k] = bundles[j]
  <2> DEFINE w == Without(bundles, i)
             t == w \o pieces
  <2>1. /\ w \in Seq(StoredBundles) /\ Len(w) \in Nat
        /\ \A k \in 1..Len(w) : \E j \in 1..Len(bundles) : w[k] = bundles[j]
    BY <1>1, WithoutType, LenProperties
  <2> HIDE DEF w
  <2>2. /\ t \in Seq(StoredBundles)
        /\ Len(t) = Len(w) + n
        /\ \A k \in 1..(Len(w) + n) :
             t[k] = IF k <= Len(w) THEN w[k] ELSE pieces[k - Len(w)]
    BY <1>6, <2>1, ConcatProperties
  <2>3. bundles' = t
    BY <1>5 DEF w
  <2> HIDE DEF t
  <2>4. ASSUME NEW k \in 1..Len(t)
        PROVE  \/ \E j \in 1..n : t[k] = pieces[j]
               \/ \E j \in 1..Len(bundles) : t[k] = bundles[j]
    <3>0. k \in Nat /\ Len(w) \in Nat /\ k \in 1..(Len(w) + n)
      BY <1>3, <2>1, <2>2, <2>4
    <3>1. CASE k <= Len(w)
      BY <3>0, <2>1, <2>2, <3>1
    <3>2. CASE k > Len(w)
      <4>1. k - Len(w) \in 1..n /\ t[k] = pieces[k - Len(w)]
        BY <1>3, <2>1, <2>2, <2>4, <3>2
      <4> QED BY <4>1
    <3>3. k <= Len(w) \/ k > Len(w)
      BY <3>0
    <3> QED BY <3>1, <3>2, <3>3
  <2> QED
    BY <2>2, <2>3, <2>4
<1>10. DeleteOf(m.pb) \in Deletes /\ DeleteOf(m.pb).pb = m.pb
  BY <1>1 DEF DeleteOf, Deletes
<1>11. StorageTypeOK'
  <2>1. /\ nextData' \in Nat \ {0} /\ validated' \in SUBSET PrimaryBlocks
        /\ replaced' \in SUBSET (PrimaryBlocks \X PrimaryBlocks)
    BY <1>1, <1>3, <1>5 DEF Inv, StorageTypeOK
  <2> QED
    BY <1>5, <1>7, <1>9, <1>10, <2>1 DEF Inv, StorageTypeOK
<1>12. StoredAreValidated'
  <2>1. \A j \in 1..n : pieces[j].pb \in validated'
    BY <1>5, <1>6
  <2>2. \A j \in 1..Len(bundles) :
          bundles[j].state # "Received" => bundles[j].pb \in validated'
    BY <1>5 DEF Inv, StoredAreValidated
  <2>3. ASSUME NEW k \in 1..Len(bundles'), bundles'[k].state # "Received"
        PROVE  bundles'[k].pb \in validated'
    BY <1>9, <2>1, <2>2, <2>3
  <2> QED
    BY <2>3 DEF StoredAreValidated
<1>13. WritesAreValidated' /\ BegunHaveFile'
  <2>1. \A k \in 1..n : n + 1 - k \in 1..n
    BY <1>3
  <2> QED
    BY <1>5, <1>7, <2>1 DEF WritesAreValidated, BegunHaveFile
<1>14. FilesAreValidated'
  BY <1>5 DEF Inv, FilesAreValidated
<1>15. DeletesAreGone'
  <2>1. <<m.pb, ps[1]>> \in replaced'
    BY <1>3, <1>4, <1>5
  <2>2. \A r \in replaced : r \in replaced'
    BY <1>5
  <2> QED
    BY <1>5, <1>10, <2>1, <2>2 DEF Inv, DeletesAreGone, Gone
<1>16. ValidatedAreSafe'
  <2>1. \A p \in validated : Safe(p)'
    <3>1. replaced \subseteq replaced'
      BY <1>5
    <3> QED
      BY <1>1, <1>5, <3>1, HandlerKeepsSafe DEF Inv, ValidatedAreSafe
  <2>2. \A k \in 1..n : ps[k] \in Writing'
    <3> TAKE k \in 1..n
    <3>1. n + 1 - k \in 1..n /\ n + 1 - (n + 1 - k) = k
      BY <1>3
    <3>2. ws[n + 1 - k].pb = ps[k]
      BY <1>7, <3>1
    <3> QED
      BY <1>5, <1>7, <3>1, <3>2 DEF Writing
  <2> QED
    BY <1>5, <2>1, <2>2 DEF ValidatedAreSafe, Safe
<1>17. Effect(m)
  <2>1. \A k \in 1..n : Announced(pieces[k], m)
    BY <1>5, <1>6 DEF Announced
  <2>2. Announces(m)
    BY <1>5, <1>6, <2>1 DEF Announces
  <2>3. ASSUME NEW k \in 1..Len(bundles'),
               \E j \in 1..Len(bundles) : bundles'[k] = bundles[j]
        PROVE  Announced(bundles'[k], m)
    BY <1>12, <2>3 DEF Announced, StoredAreValidated
  <2>4. \A k \in 1..Len(bundles') : Announced(bundles'[k], m)
    BY <1>9, <2>1, <2>3
  <2> QED
    BY <2>2, <2>4 DEF Effect
<1> QED
  BY <1>11, <1>12, <1>13, <1>14, <1>15, <1>16, <1>17 DEF Inv

\* Picking elements of a sequence in order gives a sequence of its elements.
LEMMA PickType ==
  ASSUME NEW S, NEW s \in Seq(S), NEW K \in SUBSET (1..Len(s)), NEW f \in InOrder(K)
  PROVE  /\ Pick(s, f) \in Seq(S)
         /\ \A k \in 1..Len(Pick(s, f)) : \E j \in 1..Len(s) : Pick(s, f)[k] = s[j]
<1> DEFINE n == Cardinality(K)
<1>1. n \in Nat
  <2>1. Len(s) \in Int
    BY LenProperties
  <2>2. IsFiniteSet(1..Len(s))
    BY <2>1, FS_Interval
  <2>3. IsFiniteSet(K)
    BY <2>2, FS_Subset
  <2> QED
    BY <2>3, FS_CardinalityType
<1>2. f \in [1..n -> K]
  BY DEF InOrder
<1> HIDE DEF n
<1>3. \A k \in 1..n : f[k] \in 1..Len(s) /\ s[f[k]] \in S
  BY <1>2, ElementOfSeq
<1>4. DOMAIN f = 1..n /\ Pick(s, f) = [k \in 1..n |-> s[f[k]]]
  BY <1>2 DEF Pick
<1>5. Pick(s, f) \in [1..n -> S]
  BY <1>3, <1>4
<1>6. Pick(s, f) \in Seq(S) /\ Len(Pick(s, f)) = n
  BY <1>1, <1>5, SeqDef
<1> QED
  BY <1>3, <1>4, <1>6

\* When fragments cover a bundle, there is one that starts at offset 0.
LEMMA FirstFragmentExists ==
  ASSUME NEW p \in PrimaryBlocks, HeaderOf(p).fragment, NEW F,
         CanReassemble(HeaderOf(p).whole, F)
  PROVE  FirstFragment(F) \in F
<1>1. p \in Bundles
  BY DEF HeaderOf
<1>2. Header[p] \in Headers /\ HeaderOf(p) = Header[p]
  BY <1>1, HeaderAssumption DEF HeaderOf
<1>3. Header[p].whole \in Bundles
  BY <1>2 DEF Headers
<1>4. 0 \in HeaderOf(HeaderOf(p).whole).span
  BY <1>1, <1>2, <1>3, HeaderAssumption DEF HeaderOf
<1>5. \E f \in F : 0 \in HeaderOf(f.pb).span
  BY <1>4 DEF CanReassemble
<1> QED
  BY <1>5 DEF FirstFragment

\* UpdateBundle to DefragmentationPending: either the fragments are replaced by the
\* bundle, which is written first, or they only change places.
LEMMA DefragmentInv ==
  ASSUME Inv, NEW m, MessageOK(m), NEW i, HandleDefragmentBundle(m, i)
  PROVE  Inv' /\ Effect(m)
<1> DEFINE whole == HeaderOf(bundles[i].pb).whole
           stored == Append(Without(bundles, i), bundles[i])
           parts == {k \in 1..Len(stored) : /\ HeaderOf(stored[k].pb).fragment
                                            /\ HeaderOf(stored[k].pb).whole = whole}
           others == 1..Len(stored) \ parts
           fragments == {stored[k] : k \in parts}
           sb == [pb |-> whole, state |-> "Valid", min |-> FALSE,
                  data |-> [id |-> nextData, hops |-> FirstFragment(fragments).data.hops]]
<1>1. /\ bundles \in Seq(StoredBundles) /\ nextData \in Nat \ {0}
      /\ i \in 1..Len(bundles) /\ bundles[i].pb = m.pb /\ writes = <<>>
      /\ m.pb \in PrimaryBlocks /\ HeaderOf(m.pb).fragment
  BY DEF Inv, StorageTypeOK, HandleDefragmentBundle, HandlesBundle, IsFirst,
     Handles, MessageOK
<1>2. bundles[i] \in StoredBundles /\ whole \in PrimaryBlocks
  BY <1>1, ElementOfSeq, HeaderType
<1>3. /\ stored \in Seq(StoredBundles)
      /\ \A k \in 1..Len(stored) : \E j \in 1..Len(bundles) : stored[k] = bundles[j]
  BY <1>1, <1>2, MovedType
<1>4. UNCHANGED <<files, bsa, boot, crashes, finished, torn, failed, written>>
  BY DEF HandleDefragmentBundle
<1>5. PICK rest \in InOrder(others), taken \in InOrder(parts) :
        \/ /\ CanReassemble(whole, fragments)
           /\ bundles' = Append(Pick(stored, rest), sb)
           /\ writes' = <<WriteOf(sb)>>
           /\ deletes' = deletes \cup {DeleteOf(f.pb) : f \in fragments}
           /\ Announce(<<sb>>)
           /\ nextData' = nextData + 1
           /\ validated' = validated \cup {whole}
           /\ replaced' = replaced \cup {<<f.pb, whole>> : f \in fragments}
        \/ /\ ~CanReassemble(whole, fragments)
           /\ bundles' = Pick(stored, rest) \o Pick(stored, taken)
           /\ UNCHANGED <<writes, deletes, bpaMail, nextData, validated, replaced>>
  BY DEF HandleDefragmentBundle
<1>6. parts \subseteq 1..Len(stored) /\ others \subseteq 1..Len(stored)
  OBVIOUS
<1>7. fragments \subseteq StoredBundles
  BY <1>3, ElementOfSeq
<1>8. CanReassemble(whole, fragments) => FirstFragment(fragments) \in fragments
  BY <1>1, FirstFragmentExists
<1> DEFINE a == Pick(stored, rest)
           b == Pick(stored, taken)
<1> HIDE DEF whole, stored, parts, others, fragments
<1>9. /\ a \in Seq(StoredBundles) /\ b \in Seq(StoredBundles)
      /\ \A k \in 1..Len(a) : \E j \in 1..Len(stored) : a[k] = stored[j]
      /\ \A k \in 1..Len(b) : \E j \in 1..Len(stored) : b[k] = stored[j]
  BY <1>3, <1>5, <1>6, PickType
<1> HIDE DEF a, b
<1>10. /\ Len(a) \in Nat /\ Len(b) \in Nat
       /\ \A k \in 1..Len(a) : \E j \in 1..Len(bundles) : a[k] = bundles[j]
       /\ \A k \in 1..Len(b) : \E j \in 1..Len(bundles) : b[k] = bundles[j]
  <2>1. Len(a) \in Nat /\ Len(b) \in Nat
    BY <1>9, LenProperties
  <2>2. \A k \in 1..Len(a) : \E j \in 1..Len(bundles) : a[k] = bundles[j]
    <3> TAKE k \in 1..Len(a)
    <3>1. PICK l \in 1..Len(stored) : a[k] = stored[l]
      BY <1>9
    <3>2. PICK j \in 1..Len(bundles) : stored[l] = bundles[j]
      BY <1>3, <3>1
    <3> QED
      BY <3>1, <3>2
  <2>3. \A k \in 1..Len(b) : \E j \in 1..Len(bundles) : b[k] = bundles[j]
    <3> TAKE k \in 1..Len(b)
    <3>1. PICK l \in 1..Len(stored) : b[k] = stored[l]
      BY <1>9
    <3>2. PICK j \in 1..Len(bundles) : stored[l] = bundles[j]
      BY <1>3, <3>1
    <3> QED
      BY <3>1, <3>2
  <2> QED
    BY <2>1, <2>2, <2>3
<1>11. CASE CanReassemble(whole, fragments)
  <2>1. /\ bundles' = Append(a, sb) /\ writes' = <<WriteOf(sb)>>
        /\ deletes' = deletes \cup {DeleteOf(f.pb) : f \in fragments}
        /\ Announce(<<sb>>) /\ nextData' = nextData + 1
        /\ validated' = validated \cup {whole}
        /\ replaced' = replaced \cup {<<f.pb, whole>> : f \in fragments}
    BY <1>5, <1>11 DEF a
  <2>2. sb \in StoredBundles /\ sb.pb = whole /\ sb.state = "Valid"
    BY <1>1, <1>2, <1>7, <1>8, <1>11 DEF StoredBundles, Data, States
  <2>3. WriteOf(sb) \in Writes /\ WriteOf(sb).pb = whole /\ ~WriteOf(sb).begun
    BY <2>2 DEF WriteOf, Writes, StoredBundles, Data
  <2> HIDE DEF sb
  <2>5. /\ bundles' \in Seq(StoredBundles) /\ Len(bundles') = Len(a) + 1
        /\ \A k \in 1..Len(a) : bundles'[k] = a[k]
        /\ bundles'[Len(a) + 1] = sb
    BY <1>9, <2>1, <2>2, AppendProperties
  <2>6. writes' \in Seq(Writes) /\ Len(writes') = 1 /\ writes'[1] = WriteOf(sb)
    BY <2>1, <2>3, SingletonSeq
  <2>7. /\ deletes' \in SUBSET Deletes
        /\ \A d \in deletes' : d \in deletes \/ \E f \in fragments : d.pb = f.pb
    BY <1>7, <2>1 DEF Inv, StorageTypeOK, DeleteOf, Deletes, StoredBundles
  <2>8. StorageTypeOK'
    <3>1. /\ nextData' \in Nat \ {0} /\ validated' \in SUBSET PrimaryBlocks
          /\ replaced' \in SUBSET (PrimaryBlocks \X PrimaryBlocks)
      BY <1>1, <1>2, <1>7, <2>1 DEF Inv, StorageTypeOK, StoredBundles, whole
    <3> QED
      BY <1>4, <2>5, <2>6, <2>7, <3>1 DEF Inv, StorageTypeOK
  <2>9. StoredAreValidated'
    <3>1. whole \in validated' /\ validated \subseteq validated'
      BY <2>1
    <3>2. \A k \in 1..Len(bundles') :
            bundles'[k] = sb \/ \E j \in 1..Len(bundles) : bundles'[k] = bundles[j]
      BY <1>10, <2>5, SMTT(30)
    <3> QED
      BY <2>2, <3>1, <3>2 DEF Inv, StoredAreValidated
  <2>10. WritesAreValidated' /\ BegunHaveFile'
    BY <2>1, <2>3, <2>6 DEF WritesAreValidated, BegunHaveFile
  <2>11. FilesAreValidated'
    BY <1>4, <2>1 DEF Inv, FilesAreValidated
  <2>12. DeletesAreGone'
    <3>1. \A f \in fragments : <<f.pb, whole>> \in replaced'
      BY <2>1
    <3>2. \A d \in deletes : Gone(d.pb)'
      BY <1>4, <2>1 DEF Inv, DeletesAreGone, Gone
    <3>3. \A f \in fragments : Gone(f.pb)'
      BY <3>1 DEF Gone
    <3> QED
      BY <2>7, <3>2, <3>3 DEF DeletesAreGone
  <2>13. ValidatedAreSafe'
    <3>1. \A p \in validated : Safe(p)'
      <4>1. replaced \subseteq replaced'
        BY <2>1
      <4> QED
        BY <1>1, <1>4, <4>1, HandlerKeepsSafe DEF Inv, ValidatedAreSafe
    <3>2. whole \in Writing'
      BY <2>3, <2>6 DEF Writing
    <3> QED
      BY <2>1, <3>1, <3>2 DEF ValidatedAreSafe, Safe
  <2>14. Effect(m)
    <3>1. Announced(sb, m)
      BY <2>1, <2>2 DEF Announced
    <3>2. \A k \in 1..Len(bundles') :
            bundles'[k] = sb \/ \E j \in 1..Len(bundles) : bundles'[k] = bundles[j]
      BY <1>10, <2>5, SMTT(30)
    <3> QED
      BY <2>1, <2>2, <2>9, <3>1, <3>2, EffectOfOne
  <2> QED
    BY <2>8, <2>9, <2>10, <2>11, <2>12, <2>13, <2>14 DEF Inv
<1>12. CASE ~CanReassemble(whole, fragments)
  <2>1. /\ bundles' = a \o b
        /\ UNCHANGED <<writes, deletes, bpaMail, nextData, validated, replaced>>
    BY <1>5, <1>12 DEF a, b
  <2>2. /\ bundles' \in Seq(StoredBundles)
        /\ Len(bundles') = Len(a) + Len(b)
        /\ \A k \in 1..(Len(a) + Len(b)) :
             bundles'[k] = IF k <= Len(a) THEN a[k] ELSE b[k - Len(a)]
    BY <1>9, <2>1, ConcatProperties
  <2>3. StorageTypeOK'
    BY <1>4, <2>1, <2>2 DEF Inv, StorageTypeOK
  <2>4. StoredAreValidated' /\ Effect(m)
    <3>1. ASSUME NEW k \in 1..Len(bundles')
          PROVE  \E j \in 1..Len(bundles) : bundles'[k] = bundles[j]
      <4>1. k \in Nat /\ k \in 1..(Len(a) + Len(b))
        BY <1>10, <2>2, <3>1
      <4>2. CASE k <= Len(a)
        <5>1. k \in 1..Len(a) /\ bundles'[k] = a[k]
          BY <1>10, <2>2, <4>1, <4>2
        <5> QED
          BY <1>10, <5>1
      <4>3. CASE k > Len(a)
        <5>1. k - Len(a) \in 1..Len(b) /\ bundles'[k] = b[k - Len(a)]
          BY <1>10, <2>2, <4>1, <4>3
        <5> QED
          BY <1>10, <5>1
      <4>4. k <= Len(a) \/ k > Len(a)
        BY <1>10, <4>1
      <4> QED
        BY <4>2, <4>3, <4>4
    <3>2. StoredAreValidated'
      BY <2>1, <3>1 DEF Inv, StoredAreValidated
    <3> QED
      BY <2>1, <3>1, <3>2, EffectOfNone
  <2> QED
    BY <1>4, <2>1, <2>3, <2>4, FilesUntouched DEF Inv, historyVars
<1> QED
  BY <1>11, <1>12

\* A message about a bundle the agent no longer holds changes nothing.
LEMMA StutterInv ==
  ASSUME Inv, UNCHANGED <<storageVars, historyVars>>
  PROVE  Inv'
<1>1. UNCHANGED <<storageVars, historyVars>>
  OBVIOUS
<1>2. StorageTypeOK' /\ StoredAreValidated'
  BY <1>1 DEF Inv, StorageTypeOK, StoredAreValidated, storageVars, historyVars
<1> QED
  BY <1>1, <1>2, FilesUntouched DEF Inv, storageVars

\* Whatever message of the contract the agent handles, the invariant is kept.
LEMMA HandleInv ==
  ASSUME Inv, NEW m, MessageOK(m), HandleStorageMessage(m)
  PROVE  Inv' /\ Effect(m)
<1>1. HandleStorageMessage(m)
  OBVIOUS
<1>2. MessageOK(m)
  OBVIOUS
<1>3. CASE HandleStoreReceivedBundle(m) \/ HandleStoreNewBundle(m)
  BY <1>2, <1>3, StoreInv DEF HandleStoreReceivedBundle, HandleStoreNewBundle
<1>4. CASE \/ HandleUnknownBundle(m, "FragmentBundle")
           \/ HandleUnknownBundle(m, "UpdateBundle")
  <2>1. UNCHANGED <<bpaMail, storageVars, historyVars>>
    BY <1>4 DEF HandleUnknownBundle
  <2>2. Inv'
    BY <2>1, StutterInv
  <2>3. bundles' = bundles /\ UNCHANGED bpaMail /\ StoredAreValidated'
    BY <2>1, <2>2 DEF Inv, storageVars
  <2> QED
    BY <2>2, <2>3, EffectOfNone
<1>5. CASE \E i \in 1..Len(bundles) : HandleFragmentBundle(m, i)
  BY <1>2, <1>5, FragmentInv
<1>6. CASE \E i \in 1..Len(bundles) : HandleFragmentTooSmall(m, i)
  BY <1>6, TooSmallInv
<1>7. CASE \E i \in 1..Len(bundles) : HandleFragmentPanic(m, i)
  BY <1>7, PanicInv
<1>8. CASE \E i \in 1..Len(bundles) : HandleUpdateBundle(m, i)
  BY <1>2, <1>8, UpdateInv
<1>9. CASE \E i \in 1..Len(bundles) : HandleFinishedBundle(m, i)
  BY <1>2, <1>9, FinishedInv
<1>10. CASE \E i \in 1..Len(bundles) : HandleDefragmentBundle(m, i)
  BY <1>2, <1>10, DefragmentInv
<1> QED
  BY <1>1, <1>3, <1>4, <1>5, <1>6, <1>7, <1>8, <1>9, <1>10 DEF HandleStorageMessage

-------------------------------------------------------------------------------
(* The file system *)

\* Creating or completing a file keeps the directory finite and well-typed.
LEMMA PutFileType ==
  ASSUME files \in SUBSET Files, IsFiniteSet(files), NEW w \in Writes, NEW c \in BOOLEAN
  PROVE  PutFile(w, c) \in SUBSET Files /\ IsFiniteSet(PutFile(w, c))
<1> DEFINE kept == {f \in files : f.pb # w.pb}
           new == [pb |-> w.pb, hops |-> w.hops, complete |-> c]
<1>1. PutFile(w, c) = kept \cup {new}
  BY DEF PutFile
<1>2. new \in Files
  BY DEF Writes, Files
<1>3. kept \subseteq files
  OBVIOUS
<1> HIDE DEF kept, new
<1>4. IsFiniteSet(kept)
  BY <1>3, FS_Subset
<1>5. IsFiniteSet(kept \cup {new})
  BY <1>4, FS_AddElement
<1> QED
  BY <1>1, <1>2, <1>3, <1>5

\* The file written is there, and no other file changes.
LEMMA PutFileHas ==
  ASSUME NEW w, NEW c
  PROVE  /\ \E f \in PutFile(w, c) : f.pb = w.pb /\ f.complete = c
         /\ \A f \in files : f.pb # w.pb => f \in PutFile(w, c)
         /\ \A f \in PutFile(w, c) : f \in files \/ f.pb = w.pb
<1> DEFINE new == [pb |-> w.pb, hops |-> w.hops, complete |-> c]
<1>1. PutFile(w, c) = {f \in files : f.pb # w.pb} \cup {new}
  BY DEF PutFile
<1>2. new.pb = w.pb /\ new.complete = c
  OBVIOUS
<1> HIDE DEF new
<1> QED
  BY <1>1, <1>2

\* The next write is the first element of the stack; the others are its tail.
LEMMA HeadOfWrites ==
  ASSUME writes \in Seq(Writes), writes # <<>>
  PROVE  /\ Head(writes) \in Writes /\ Head(writes) = writes[1]
         /\ Len(writes) \in Nat /\ 1 \in 1..Len(writes)
         /\ Tail(writes) \in Seq(Writes) /\ Len(Tail(writes)) = Len(writes) - 1
         /\ \A k \in 1..(Len(writes) - 1) : Tail(writes)[k] = writes[k + 1]
<1>1. Len(writes) \in Nat /\ Len(writes) # 0
  BY LenProperties, EmptySeq
<1>2. /\ Head(writes) = writes[1] /\ Tail(writes) \in Seq(Writes)
      /\ Len(Tail(writes)) = Len(writes) - 1
      /\ \A k \in 1..(Len(writes) - 1) : Tail(writes)[k] = writes[k + 1]
  BY HeadTailProperties
<1>3. 1 \in 1..Len(writes)
  BY <1>1
<1>4. writes[1] \in Writes
  BY <1>3, ElementOfSeq
<1> QED
  BY <1>1, <1>2, <1>3, <1>4

\* What is left to write when the first write is over.
LEMMA TailWriting ==
  ASSUME writes \in Seq(Writes), writes # <<>>, writes' = Tail(writes)
  PROVE  /\ \A k \in 1..Len(writes') : \E j \in 1..Len(writes) : writes'[k] = writes[j]
         /\ \A p \in Writing : p = Head(writes).pb \/ p \in Writing'
<1>1. /\ Len(writes) \in Nat /\ Head(writes) = writes[1]
      /\ Len(writes') = Len(writes) - 1
      /\ \A k \in 1..(Len(writes) - 1) : writes'[k] = writes[k + 1]
  BY HeadOfWrites
<1>2. ASSUME NEW k \in 1..Len(writes')
      PROVE  \E j \in 1..Len(writes) : writes'[k] = writes[j]
  <2>1. k + 1 \in 1..Len(writes) /\ writes'[k] = writes[k + 1]
    BY <1>1, <1>2
  <2> QED
    BY <2>1
<1>3. ASSUME NEW j \in 1..Len(writes)
      PROVE  writes[j].pb = Head(writes).pb \/ writes[j].pb \in Writing'
  <2>1. CASE j = 1
    BY <1>1, <2>1
  <2>2. CASE j # 1
    <3>1. j - 1 \in 1..Len(writes') /\ writes'[j - 1] = writes[j]
      BY <1>1, <1>3, <2>2
    <3> QED
      BY <3>1 DEF Writing
  <2> QED
    BY <2>1, <2>2
<1> QED
  BY <1>2, <1>3 DEF Writing

\* File::create: the file of the bundle is torn, but its write is still pending.
LEMMA BeginWriteInv ==
  ASSUME Inv, BeginWrite
  PROVE  Inv'
<1>0. PICK h : h = Head(writes)
  OBVIOUS
<1>1. /\ files \in SUBSET Files /\ IsFiniteSet(files)
      /\ writes \in Seq(Writes) /\ writes # <<>>
      /\ files' = PutFile(h, FALSE) /\ writes' = [writes EXCEPT ![1].begun = TRUE]
      /\ UNCHANGED <<bpaMail, bundles, deletes, bsa, boot, nextData, crashes, historyVars>>
  BY <1>0 DEF Inv, StorageTypeOK, BeginWrite
<1>2. /\ h \in Writes /\ h = writes[1] /\ Len(writes) \in Nat /\ 1 \in 1..Len(writes)
  BY <1>0, <1>1, HeadOfWrites
<1>3. files' \in SUBSET Files /\ IsFiniteSet(files')
  BY <1>1, <1>2, PutFileType
<1>4. /\ \A f \in files : f.pb # h.pb => f \in files'
      /\ \E f \in files' : f.pb = h.pb
      /\ \A f \in files' : f \in files \/ f.pb = h.pb
  BY <1>1, PutFileHas
<1>5. /\ writes' \in Seq(Writes) /\ Len(writes') = Len(writes)
      /\ \A k \in 1..Len(writes) : writes'[k].pb = writes[k].pb
      /\ \A k \in 1..Len(writes) : k # 1 => writes'[k] = writes[k]
  <2> DEFINE w == [writes[1] EXCEPT !.begun = TRUE]
  <2>1. w \in Writes /\ w.pb = writes[1].pb
    BY <1>2 DEF Writes
  <2>2. writes' = [writes EXCEPT ![1] = w]
    BY <1>1
  <2> HIDE DEF w
  <2>3. /\ writes' \in Seq(Writes) /\ Len(writes') = Len(writes)
        /\ \A k \in 1..Len(writes) : writes'[k] = IF k = 1 THEN w ELSE writes[k]
    <3> DEFINE t == [writes EXCEPT ![1] = w]
    <3>1. /\ t \in Seq(Writes) /\ Len(t) = Len(writes)
          /\ \A k \in 1..Len(writes) : t[k] = IF k = 1 THEN w ELSE writes[k]
      BY <1>1, <1>2, <2>1, ExceptSeq
    <3>2. writes' = t
      BY <2>2
    <3> HIDE DEF t
    <3> QED
      BY <3>1, <3>2
  <2> QED
    BY <2>1, <2>3
<1>6. StorageTypeOK'
  BY <1>1, <1>3, <1>5 DEF Inv, StorageTypeOK, historyVars
<1>7. StoredAreValidated' /\ WritesAreValidated' /\ DeletesAreGone'
  BY <1>1, <1>5 DEF Inv, StoredAreValidated, WritesAreValidated, DeletesAreGone, Gone,
     historyVars
<1>8. h.pb \in validated
  BY <1>2 DEF Inv, WritesAreValidated
<1>9. FilesAreValidated'
  BY <1>1, <1>4, <1>8 DEF Inv, FilesAreValidated, historyVars
<1>10. BegunHaveFile'
  <2>1. \A p : (\E f \in files : f.pb = p) => \E f \in files' : f.pb = p
    BY <1>4
  <2>2. ASSUME NEW k \in 1..Len(writes'), writes'[k].begun
        PROVE  Gone(writes[k].pb) \/ \E f \in files' : f.pb = writes[k].pb
    <3>1. CASE k = 1
      BY <1>2, <1>4, <3>1
    <3>2. CASE k # 1
      <4>1. k \in 1..Len(writes) /\ writes[k].begun
        BY <1>5, <2>2, <3>2
      <4> QED
        BY <2>1, <4>1 DEF Inv, BegunHaveFile
    <3> QED
      BY <3>1, <3>2
  <2>3. \A k \in 1..Len(writes') : writes'[k].pb = writes[k].pb
    BY <1>5
  <2>4. finished' = finished /\ replaced' = replaced
    BY <1>1 DEF historyVars
  <2>5. ASSUME NEW k \in 1..Len(writes'), writes'[k].begun
        PROVE  \/ writes'[k].pb \in finished' \/ \E r \in replaced' : r[1] = writes'[k].pb
               \/ \E f \in files' : f.pb = writes'[k].pb
    BY <2>2, <2>3, <2>4, <2>5 DEF Gone
  <2> QED
    BY <2>5 DEF BegunHaveFile, Gone
<1>11. ValidatedAreSafe'
  <2>1. Writing' = Writing /\ h.pb \in Writing
    BY <1>2, <1>5 DEF Writing
  <2>2. \A p : OnDisk(p) => OnDisk(p)' \/ p = h.pb
    BY <1>4 DEF OnDisk
  <2> QED
    BY <1>1, <2>1, <2>2 DEF Inv, ValidatedAreSafe, Safe, historyVars
<1> QED
  BY <1>6, <1>7, <1>9, <1>10, <1>11 DEF Inv

\* The end of a write completes the file, unless a deletion took it.
LEMMA EndWriteInv ==
  ASSUME Inv, EndWrite
  PROVE  Inv'
<1>0. PICK h : h = Head(writes)
  OBVIOUS
<1>1. /\ files \in SUBSET Files /\ IsFiniteSet(files)
      /\ writes \in Seq(Writes) /\ writes # <<>> /\ h.begun
      /\ files' = IF \E f \in files : f.pb = h.pb THEN PutFile(h, TRUE) ELSE files
      /\ writes' = Tail(writes) /\ written' = written \cup {h.pb}
      /\ UNCHANGED <<bpaMail, bundles, deletes, bsa, boot, nextData, crashes,
                     validated, finished, replaced, torn, failed>>
  BY <1>0 DEF Inv, StorageTypeOK, EndWrite
<1>2. h \in Writes /\ h = writes[1] /\ 1 \in 1..Len(writes) /\ writes' \in Seq(Writes)
  BY <1>0, <1>1, HeadOfWrites
<1>3. /\ \A k \in 1..Len(writes') : \E j \in 1..Len(writes) : writes'[k] = writes[j]
      /\ \A p \in Writing : p = h.pb \/ p \in Writing'
  BY <1>0, <1>1, TailWriting
<1>4. files' \in SUBSET Files /\ IsFiniteSet(files')
  <2>1. PutFile(h, TRUE) \in SUBSET Files /\ IsFiniteSet(PutFile(h, TRUE))
    BY <1>1, <1>2, PutFileType
  <2> QED
    BY <1>1, <2>1
<1>5. /\ \A f \in files : f.pb # h.pb => f \in files'
      /\ (\E f \in files : f.pb = h.pb) => \E f \in files' : f.pb = h.pb /\ f.complete
      /\ \A f \in files' : f \in files \/ f.pb = h.pb
  <2>1. /\ \E f \in PutFile(h, TRUE) : f.pb = h.pb /\ f.complete = TRUE
        /\ \A f \in files : f.pb # h.pb => f \in PutFile(h, TRUE)
        /\ \A f \in PutFile(h, TRUE) : f \in files \/ f.pb = h.pb
    BY PutFileHas
  <2> QED
    BY <1>1, <2>1
<1>6. h.pb \in validated /\ h.pb \in PrimaryBlocks
  BY <1>2 DEF Inv, WritesAreValidated, Writes
<1>7. StorageTypeOK'
  BY <1>1, <1>2, <1>4, <1>6 DEF Inv, StorageTypeOK
<1>8. StoredAreValidated' /\ DeletesAreGone' /\ FilesAreValidated'
  BY <1>1, <1>5, <1>6 DEF Inv, StoredAreValidated, DeletesAreGone, Gone, FilesAreValidated
<1>9. WritesAreValidated'
  BY <1>1, <1>3 DEF Inv, WritesAreValidated
<1>10. \A p : (\E f \in files : f.pb = p) => \E f \in files' : f.pb = p
  BY <1>5
<1>11. BegunHaveFile'
  <2>1. ASSUME NEW k \in 1..Len(writes'), writes'[k].begun
        PROVE  Gone(writes'[k].pb) \/ \E f \in files' : f.pb = writes'[k].pb
    <3>1. PICK j \in 1..Len(writes) : writes'[k] = writes[j]
      BY <1>3
    <3> QED
      BY <1>10, <2>1, <3>1 DEF Inv, BegunHaveFile
  <2> QED
    BY <1>1, <2>1 DEF BegunHaveFile, Gone
<1>12. ValidatedAreSafe'
  <2>1. Gone(h.pb) \/ OnDisk(h.pb)'
    <3>1. Gone(h.pb) \/ \E f \in files : f.pb = h.pb
      BY <1>1, <1>2 DEF Inv, BegunHaveFile
    <3> QED
      BY <1>5, <3>1 DEF OnDisk
  <2>2. \A p : OnDisk(p) => OnDisk(p)' \/ p = h.pb
    BY <1>5 DEF OnDisk
  <2> QED
    BY <1>1, <1>3, <2>1, <2>2 DEF Inv, ValidatedAreSafe, Safe, Gone
<1> QED
  BY <1>7, <1>8, <1>9, <1>11, <1>12 DEF Inv

\* A failed write is remembered as failed.
LEMMA FailWriteInv ==
  ASSUME Inv, FailWrite
  PROVE  Inv'
<1>0. PICK h : h = Head(writes)
  OBVIOUS
<1>1. /\ writes \in Seq(Writes) /\ writes # <<>>
      /\ writes' = Tail(writes) /\ failed' = failed \cup {h.pb}
      /\ UNCHANGED <<bpaMail, bundles, files, deletes, bsa, boot, nextData, crashes,
                     validated, finished, replaced, torn, written>>
  BY <1>0 DEF Inv, StorageTypeOK, FailWrite
<1>2. h \in Writes /\ writes' \in Seq(Writes)
  BY <1>0, <1>1, HeadOfWrites
<1>3. /\ \A k \in 1..Len(writes') : \E j \in 1..Len(writes) : writes'[k] = writes[j]
      /\ \A p \in Writing : p = h.pb \/ p \in Writing'
  BY <1>0, <1>1, TailWriting
<1>4. StorageTypeOK'
  BY <1>1, <1>2 DEF Inv, StorageTypeOK, Writes
<1>5. StoredAreValidated' /\ DeletesAreGone' /\ FilesAreValidated'
  BY <1>1 DEF Inv, StoredAreValidated, DeletesAreGone, Gone, FilesAreValidated
<1>6. WritesAreValidated' /\ BegunHaveFile'
  BY <1>1, <1>3 DEF Inv, WritesAreValidated, BegunHaveFile, Gone
<1>7. ValidatedAreSafe'
  BY <1>1, <1>3 DEF Inv, ValidatedAreSafe, Safe, OnDisk
<1> QED
  BY <1>4, <1>5, <1>6, <1>7 DEF Inv

\* Polling starts deletions and changes no file.
LEMMA PollDeletesInv ==
  ASSUME Inv, PollDeletes
  PROVE  Inv'
<1>1. /\ deletes' = {[d EXCEPT !.phase = "running"] : d \in deletes}
      /\ UNCHANGED <<bpaMail, bundles, files, writes, bsa, boot, nextData, crashes,
                     historyVars>>
  BY DEF PollDeletes
<1>2. /\ deletes' \in SUBSET Deletes
      /\ \A d \in deletes' : \E e \in deletes : d.pb = e.pb
  BY <1>1 DEF Inv, StorageTypeOK, Deletes
<1>3. StorageTypeOK'
  BY <1>1, <1>2 DEF Inv, StorageTypeOK, historyVars
<1>4. DeletesAreGone'
  BY <1>1, <1>2 DEF Inv, DeletesAreGone, Gone, historyVars
<1>5. (StoredAreValidated /\ WritesAreValidated /\ FilesAreValidated /\ BegunHaveFile
        /\ ValidatedAreSafe)'
  BY <1>1 DEF Inv, StoredAreValidated, WritesAreValidated, FilesAreValidated,
     BegunHaveFile, ValidatedAreSafe, Safe, Gone, OnDisk, Writing, historyVars
<1> QED
  BY <1>3, <1>4, <1>5 DEF Inv

\* A deletion only takes the file of a bundle that is gone.
LEMMA RunDeleteInv ==
  ASSUME Inv, NEW d \in deletes, RunDelete(d)
  PROVE  Inv'
<1>1. /\ files' = {f \in files : f.pb # d.pb} \/ files' = files
      /\ deletes' = deletes \ {d}
      /\ UNCHANGED <<bpaMail, bundles, writes, bsa, boot, nextData, crashes, historyVars>>
  BY DEF RunDelete
<1>2. files' \subseteq files /\ \A f \in files : f.pb # d.pb => f \in files'
  BY <1>1
<1>3. StorageTypeOK'
  <2>1. IsFiniteSet(files')
    BY <1>2, FS_Subset DEF Inv, StorageTypeOK
  <2> QED
    BY <1>1, <1>2, <2>1 DEF Inv, StorageTypeOK, historyVars
<1>4. (StoredAreValidated /\ WritesAreValidated /\ FilesAreValidated /\ DeletesAreGone)'
  BY <1>1, <1>2 DEF Inv, StoredAreValidated, WritesAreValidated, FilesAreValidated,
     DeletesAreGone, Gone, historyVars
<1>5. Gone(d.pb)
  BY DEF Inv, DeletesAreGone
<1>6. BegunHaveFile'
  BY <1>1, <1>2, <1>5 DEF Inv, BegunHaveFile, Gone, historyVars
<1>7. ValidatedAreSafe'
  BY <1>1, <1>2, <1>5 DEF Inv, ValidatedAreSafe, Safe, Gone, OnDisk, Writing, historyVars
<1> QED
  BY <1>3, <1>4, <1>6, <1>7 DEF Inv

-------------------------------------------------------------------------------
(* Stop and start *)

\* A listing of the directory gives a sequence of Valid bundles.
LEMMA LoadedType ==
  ASSUME Inv, NEW s \in Listings, NEW n \in Nat, NEW c \in {0, 1}
  PROVE  LET loaded == [i \in 1..Len(s) |-> LoadedBundle(s[i], IF c = 0 THEN 0 ELSE n + i - 1)]
         IN  /\ loaded \in Seq(StoredBundles)
             /\ \A i \in 1..Len(loaded) :
                  loaded[i].state = "Valid" /\ \E f \in files : loaded[i].pb = f.pb
<1> DEFINE loaded == [i \in 1..Len(s) |-> LoadedBundle(s[i], IF c = 0 THEN 0 ELSE n + i - 1)]
<1>1. IsFiniteSet(files) /\ files \subseteq Files
  BY DEF Inv, StorageTypeOK
<1>2. Cardinality(files) \in Nat
  BY <1>1, FS_CardinalityType
<1>3. s \in [1..Cardinality(files) -> files]
  BY DEF Listings
<1>4. s \in Seq(files)
  BY <1>2, <1>3, SeqDef
<1>5. Len(s) \in Nat /\ \A i \in 1..Len(s) : s[i] \in files
  BY <1>4, LenProperties, ElementOfSeq
<1>6. ASSUME NEW i \in 1..Len(s)
      PROVE  /\ loaded[i] \in StoredBundles /\ loaded[i].pb = s[i].pb
             /\ loaded[i].state = "Valid"
  <2>1. s[i] \in Files
    BY <1>1, <1>5
  <2>2. (IF c = 0 THEN 0 ELSE n + i - 1) \in Nat
    BY <1>5
  <2>3. loaded[i] = LoadedBundle(s[i], IF c = 0 THEN 0 ELSE n + i - 1)
    OBVIOUS
  <2> QED
    BY <2>1, <2>2, <2>3 DEF LoadedBundle, Files, StoredBundles, Data, States
<1>7. loaded \in [1..Len(s) -> StoredBundles]
  BY <1>6
<1> HIDE DEF loaded
<1>8. loaded \in Seq(StoredBundles) /\ Len(loaded) = Len(s)
  BY <1>5, <1>7, SeqDef, LenProperties
<1>9. \A i \in 1..Len(loaded) :
        loaded[i].state = "Valid" /\ \E f \in files : loaded[i].pb = f.pb
  BY <1>5, <1>6, <1>8
<1> QED
  BY <1>8, <1>9 DEF loaded

\* The agent main starts only announces what is on disk.
LEMMA TriggerLoadingInv ==
  ASSUME Inv, TriggerLoading
  PROVE  Inv'
<1>1. /\ boot' = "running"
      /\ UNCHANGED <<bundles, files, writes, deletes, bsa, nextData, crashes, historyVars>>
  BY DEF TriggerLoading
<1>3. StorageTypeOK' /\ StoredAreValidated'
  BY <1>1 DEF Inv, StorageTypeOK, StoredAreValidated, historyVars
<1> QED
  BY <1>1, <1>3, FilesUntouched DEF Inv

\* The agent the others talk to loads what is on disk as Valid.
LEMMA StartAgentInv ==
  ASSUME Inv, StartAgent
  PROVE  Inv'
<1>1. UNCHANGED <<files, writes, deletes, boot, crashes, historyVars>>
  BY DEF StartAgent
<1>2. nextData \in Nat \ {0} /\ Cardinality(files) \in Nat
  BY FS_CardinalityType DEF Inv, StorageTypeOK
<1>3. CASE /\ bsa' = "panicked"
           /\ UNCHANGED <<bundles, bpaMail, nextData>>
  <2>1. StorageTypeOK' /\ StoredAreValidated'
    BY <1>1, <1>3 DEF Inv, StorageTypeOK, StoredAreValidated, historyVars
  <2> QED
    BY <1>1, <2>1, FilesUntouched DEF Inv
<1>4. CASE /\ \E s \in Listings :
                LET loaded == [i \in 1..Len(s) |-> LoadedBundle(s[i], nextData + i - 1)]
                IN  bundles' = loaded /\ Announce(loaded)
           /\ bsa' = "up"
           /\ nextData' = nextData + Cardinality(files)
  <2>1. PICK s \in Listings :
          LET loaded == [i \in 1..Len(s) |-> LoadedBundle(s[i], nextData + i - 1)]
          IN  bundles' = loaded /\ Announce(loaded)
    BY <1>4
  <2> DEFINE loaded == [i \in 1..Len(s) |-> LoadedBundle(s[i], nextData + i - 1)]
  <2>2. /\ loaded \in Seq(StoredBundles)
        /\ \A i \in 1..Len(loaded) : \E f \in files : loaded[i].pb = f.pb
    <3> DEFINE l == [i \in 1..Len(s) |->
                       LoadedBundle(s[i], IF 1 = 0 THEN 0 ELSE nextData + i - 1)]
    <3>1. /\ l \in Seq(StoredBundles)
          /\ \A i \in 1..Len(l) : \E f \in files : l[i].pb = f.pb
      BY <1>2, LoadedType
    <3>2. l = loaded
      OBVIOUS
    <3> QED
      BY <3>1, <3>2
  <2>3. bundles' = loaded /\ Announce(loaded)
    BY <2>1
  <2> HIDE DEF loaded
  <2>5. StorageTypeOK'
    BY <1>1, <1>2, <1>4, <2>2, <2>3 DEF Inv, StorageTypeOK, historyVars
  <2>6. StoredAreValidated'
    BY <1>1, <2>2, <2>3 DEF Inv, StoredAreValidated, FilesAreValidated, historyVars
  <2> QED
    BY <1>1, <2>5, <2>6, FilesUntouched DEF Inv
<1> QED
  BY <1>3, <1>4 DEF StartAgent

\* What is loaded is announced.
LEMMA LoadingAnnounces ==
  ASSUME Inv, NEW m, NEW s \in Listings, NEW n \in Nat, NEW c \in {0, 1},
         NEW loaded, loaded = [i \in 1..Len(s) |-> LoadedBundle(s[i], IF c = 0 THEN 0 ELSE n + i - 1)],
         Announce(loaded), UNCHANGED validated
  PROVE  Announces(m) /\ \A k \in 1..Len(loaded) : Announced(loaded[k], m)
<1>1. /\ loaded \in Seq(StoredBundles)
      /\ \A i \in 1..Len(loaded) :
           loaded[i].state = "Valid" /\ \E f \in files : loaded[i].pb = f.pb
  BY LoadedType, ZenonT(40)
<1>2. ASSUME NEW k \in 1..Len(loaded)
      PROVE  Announced(loaded[k], m)
  <2>1. PICK r : r = loaded[k]
    OBVIOUS
  <2>2. r.state = "Valid" /\ \E f \in files : r.pb = f.pb
    BY <1>1, <2>1
  <2>3. validated' = validated
    OBVIOUS
  <2>4. r.pb \in validated'
    BY <2>2, <2>3 DEF Inv, FilesAreValidated
  <2>5. Announced(r, m)
    BY <2>2, <2>4, Zenon DEF Announced
  <2> QED
    BY <2>1, <2>5, Zenon
<1> QED
  BY <1>1, <1>2 DEF Announces

\* A start announces what it loads.
LEMMA StartEffect ==
  ASSUME Inv, Inv', NEW m, StartStep
  PROVE  Effect(m)
<1>1. CASE TriggerLoading
  <2>1. UNCHANGED <<bundles, validated>>
    BY <1>1 DEF TriggerLoading, historyVars
  <2>2. \A k \in 1..Len(bundles') : Announced(bundles'[k], m)
    BY <2>1 DEF Announced, Inv, StoredAreValidated
  <2>3. CASE UNCHANGED bpaMail
    BY <2>2, <2>3 DEF Effect, Announces
  <2>4. CASE \E s \in Listings : Announce([i \in 1..Len(s) |-> LoadedBundle(s[i], 0)])
    <3>1. PICK s \in Listings : Announce([i \in 1..Len(s) |-> LoadedBundle(s[i], 0)])
      BY <2>4
    <3>2. PICK l : l = [i \in 1..Len(s) |-> LoadedBundle(s[i], 0)]
      OBVIOUS
    <3>3. l = [i \in 1..Len(s) |-> LoadedBundle(s[i], IF 0 = 0 THEN 0 ELSE 0 + i - 1)]
      BY <3>2
    <3>4. Announce(l)
      BY <3>1, <3>2
    <3>5. Announces(m)
      BY <2>1, <3>3, <3>4, LoadingAnnounces
    <3> QED
      BY <2>2, <3>5 DEF Effect
  <2> QED
    BY <1>1, <2>3, <2>4 DEF TriggerLoading
<1>2. CASE StartAgent
  <2>1. UNCHANGED validated /\ nextData \in Nat
    BY <1>2 DEF StartAgent, historyVars, Inv, StorageTypeOK
  <2>2. CASE UNCHANGED <<bundles, bpaMail>>
    BY <2>2, EffectOfNone DEF Inv
  <2>3. CASE \E s \in Listings :
               LET loaded == [i \in 1..Len(s) |-> LoadedBundle(s[i], nextData + i - 1)]
               IN  bundles' = loaded /\ Announce(loaded)
    <3>1. PICK s \in Listings :
            LET loaded == [i \in 1..Len(s) |-> LoadedBundle(s[i], nextData + i - 1)]
            IN  bundles' = loaded /\ Announce(loaded)
      BY <2>3
    <3>2. PICK l : l = [i \in 1..Len(s) |-> LoadedBundle(s[i], nextData + i - 1)]
      OBVIOUS
    <3>3. l = [i \in 1..Len(s) |-> LoadedBundle(s[i], IF 1 = 0 THEN 0 ELSE nextData + i - 1)]
      BY <3>2
    <3>4. Announce(l) /\ bundles' = l
      BY <3>1, <3>2
    <3>5. Announces(m) /\ \A k \in 1..Len(l) : Announced(l[k], m)
      BY <2>1, <3>3, <3>4, LoadingAnnounces
    <3> QED
      BY <3>4, <3>5 DEF Effect
  <2> QED
    BY <1>2, <2>2, <2>3 DEF StartAgent
<1> QED
  BY <1>1, <1>2 DEF StartStep

\* After a crash only the files are left; a write under way leaves a torn file.
LEMMA CrashInv ==
  ASSUME Inv, Crash
  PROVE  Inv'
<1>1. /\ crashes' = crashes + 1 /\ crashes < MaxCrashes
      /\ bpaMail' = <<>> /\ bundles' = <<>> /\ writes' = <<>> /\ deletes' = {}
      /\ bsa' = "unstarted" /\ boot' = "starting"
      /\ torn' = torn \cup Writing
      /\ UNCHANGED <<files, nextData, validated, finished, replaced, failed, written>>
  BY DEF Crash
<1>2. Writing \subseteq PrimaryBlocks
  <2>1. \A i \in 1..Len(writes) : writes[i] \in Writes
    BY ElementOfSeq DEF Inv, StorageTypeOK
  <2> QED
    BY <2>1 DEF Writing, Writes
<1>3. crashes' \in 0..MaxCrashes
  BY <1>1, StorageAssumption DEF Inv, StorageTypeOK
<1>4. StorageTypeOK'
  BY <1>1, <1>2, <1>3, EmptySeq DEF Inv, StorageTypeOK
<1>5. (StoredAreValidated /\ WritesAreValidated /\ BegunHaveFile /\ DeletesAreGone
        /\ FilesAreValidated)'
  BY <1>1 DEF Inv, StoredAreValidated, WritesAreValidated, BegunHaveFile,
     DeletesAreGone, FilesAreValidated
<1>6. ValidatedAreSafe'
  BY <1>1 DEF Inv, ValidatedAreSafe, Safe, OnDisk
<1> QED
  BY <1>4, <1>5, <1>6 DEF Inv

\* The agent starts with nothing.
LEMMA InitInv ==
  ASSUME StorageInit
  PROVE  Inv
<1> USE DEF StorageInit
<1>1. StorageTypeOK
  BY EmptySeq, FS_EmptySet, StorageAssumption DEF StorageTypeOK
<1>2. Len(bundles) = 0 /\ Len(writes) = 0
  OBVIOUS
<1> QED
  BY <1>1, <1>2 DEF Inv, StoredAreValidated, WritesAreValidated, FilesAreValidated,
     DeletesAreGone, BegunHaveFile, ValidatedAreSafe

\* Whatever the disk does.
LEMMA FileStepInv ==
  ASSUME Inv, FileStep
  PROVE  Inv'
<1>1. CASE \E d \in deletes : RunDelete(d)
  BY <1>1, RunDeleteInv
<1> QED
  BY <1>1, BeginWriteInv, EndWriteInv, FailWriteInv, PollDeletesInv DEF FileStep

\* What others do: bundles are delivered, acknowledged or given up.
LEMMA OthersInv ==
  ASSUME Inv, UNCHANGED <<storageVars, validated, replaced, torn, failed, written>>,
         finished \subseteq finished', finished' \subseteq PrimaryBlocks
  PROVE  Inv'
<1>1. StorageTypeOK'
  BY DEF Inv, StorageTypeOK, storageVars
<1>2. (StoredAreValidated /\ WritesAreValidated /\ FilesAreValidated /\ DeletesAreGone
        /\ BegunHaveFile)'
  BY DEF Inv, StoredAreValidated, WritesAreValidated, FilesAreValidated,
     DeletesAreGone, BegunHaveFile, Gone, storageVars
<1>3. ValidatedAreSafe'
  BY DEF Inv, ValidatedAreSafe, Safe, OnDisk, Writing, storageVars
<1> QED
  BY <1>1, <1>2, <1>3 DEF Inv

\* The invariant is enough.
LEMMA SafeBundles ==
  ASSUME Inv
  PROVE  Durable
BY DEF Inv, Durable, StoredAreValidated, ValidatedAreSafe

-------------------------------------------------------------------------------
(* The inductive invariant: HandoverIsCrashSafe speaks of a bundle and one of     *)
(* those it was replaced by, but the file goes for all of them at once.  What a   *)
(* bundle can be replaced by follows from its header, because those for other     *)
(* nodes are only split and those for this node only reassembled; it can then be  *)
(* said of every bundle, replaced or not, whether all of them were written.       *)

Successors(p) ==
  IF Local(p) THEN {HeaderOf(p).whole}
  ELSE {HeaderOf(p).pieces[k] : k \in 1..Len(HeaderOf(p).pieces)}

Settled(q) == q \in written \/ q \in failed

HandedOver(p) == p \in finished \/ \A q \in Successors(p) : Settled(q)

ReplacedBySuccessors == \A r \in replaced : r[2] \in Successors(r[1])

\* A deletion is not polled before the successors of its bundle are written.
DeletesWait ==
  \A d \in deletes :
    \/ HandedOver(d.pb)
    \/ d.phase = "spawned" /\ \A q \in Successors(d.pb) : Settled(q) \/ q \in Writing

\* Only a deletion can take the file of a write that has begun.
BegunHasFile ==
  \A i \in 1..Len(writes) :
    writes[i].begun => HandedOver(writes[i].pb) \/ \E f \in files : f.pb = writes[i].pb

Kept(p) == OnDisk(p) \/ p \in Writing \/ p \in torn \/ p \in failed \/ HandedOver(p)

KeptUntilHandover == \A p \in validated : Kept(p)

HInv == ReplacedBySuccessors /\ DeletesWait /\ BegunHasFile /\ KeptUntilHandover

\* Fragments are for the node the whole bundle is for.
LEMMA SameDest ==
  ASSUME NEW p \in PrimaryBlocks, HeaderOf(p).fragment
  PROVE  Local(p) <=> Local(HeaderOf(p).whole)
<1>1. p \in Bundles
  BY DEF HeaderOf
<1>2. HeaderOf(p) = Header[p] /\ Header[p] \in Headers
  BY <1>1, HeaderAssumption DEF HeaderOf
<1>3. Header[p].whole \in Bundles
  BY <1>2 DEF Headers
<1>4. HeaderOf(Header[p].whole) = Header[Header[p].whole]
  BY <1>3 DEF HeaderOf
<1> QED
  BY <1>1, <1>2, <1>4, HeaderAssumption DEF Local

-------------------------------------------------------------------------------
(* Handlers *)

\* What was handed over stays so.
LEMMA StaysHandedOver ==
  ASSUME finished \subseteq finished', written \subseteq written', failed \subseteq failed',
         NEW p, HandedOver(p)
  PROVE  HandedOver(p)'
<1>1. \A q : Settled(q) => Settled(q)'
  BY DEF Settled
<1> QED
  BY <1>1 DEF HandedOver

\* A handler runs with no write under way: every spawned deletion has been waited
\* for, and whatever the handler replaces it writes first.
LEMMA HandlerStep ==
  ASSUME HInv, writes = <<>>, UNCHANGED <<files, finished, torn, failed, written>>,
         replaced \subseteq replaced',
         \A r \in replaced' : r \in replaced \/ r[2] \in Successors(r[1]),
         \A d \in deletes' :
           \/ d \in deletes \/ d.pb \in finished
           \/ d.phase = "spawned" /\ \A q \in Successors(d.pb) : q \in Writing',
         \A p \in validated' : p \in validated \/ p \in Writing',
         \A i \in 1..Len(writes') : ~writes'[i].begun
  PROVE  HInv'
<1>1. Writing = {}
  BY DEF Writing
<1>2. \A p : HandedOver(p) => HandedOver(p)'
  BY StaysHandedOver
<1>3. ReplacedBySuccessors'
  BY DEF HInv, ReplacedBySuccessors
<1>4. \A d \in deletes : HandedOver(d.pb)
  BY <1>1 DEF HInv, DeletesWait, HandedOver
<1>5. \A p \in finished : HandedOver(p)'
  BY DEF HandedOver
<1>6. DeletesWait'
  BY <1>2, <1>4, <1>5 DEF DeletesWait
<1>7. BegunHasFile'
  BY DEF BegunHasFile
<1>8. ASSUME NEW p \in validated PROVE Kept(p)'
  BY <1>1, <1>2 DEF HInv, KeptUntilHandover, Kept, OnDisk
<1>9. KeptUntilHandover'
  BY <1>8 DEF KeptUntilHandover, Kept
<1> QED
  BY <1>3, <1>6, <1>7, <1>9 DEF HInv

\* FragmentBundle: the pieces are the successors of a bundle for another node.
LEMMA FragmentStep ==
  ASSUME Inv, HInv, NEW m, MessageOK(m), NEW i, HandleFragmentBundle(m, i)
  PROVE  HInv'
<1>1. /\ writes = <<>> /\ m.type = "FragmentBundle" /\ bundles[i].pb = m.pb
  BY DEF HandleFragmentBundle, HandlesBundle, Handles, IsFirst
<1>2. ~Local(m.pb) /\ m.pb \in PrimaryBlocks
  BY <1>1 DEF MessageOK
<1>3. PICK ps : ps = HeaderOf(m.pb).pieces
  OBVIOUS
<1>4. PICK n : n = Len(ps)
  OBVIOUS
<1>5. n \in Nat /\ Successors(m.pb) = {ps[k] : k \in 1..n}
  BY <1>2, <1>3, <1>4, HeaderType, LenProperties DEF Successors
<1> DEFINE piece(k) == [pb |-> ps[k], state |-> "Valid", min |-> TRUE,
                        data |-> [id |-> nextData + k - 1, hops |-> bundles[i].data.hops]]
           pieces == [k \in 1..n |-> piece(k)]
<1>6. /\ writes' = [k \in 1..n |-> WriteOf(pieces[n + 1 - k])]
      /\ deletes' = deletes \cup {DeleteOf(m.pb)}
      /\ validated' = validated \cup {ps[k] : k \in 1..n}
      /\ replaced' = replaced \cup {<<m.pb, ps[k]>> : k \in 1..n}
      /\ UNCHANGED <<files, finished, torn, failed, written>>
  BY <1>1, <1>3, <1>4 DEF HandleFragmentBundle
<1>7. /\ Len(writes') = n
      /\ \A k \in 1..n : writes'[k].pb = ps[n + 1 - k] /\ ~writes'[k].begun
  <2>1. \A k \in 1..n : n + 1 - k \in 1..n
    BY <1>5
  <2>2. Len(writes') = n
    BY <1>5, <1>6
  <2>3. \A k \in 1..n : WriteOf(pieces[k]).pb = ps[k] /\ ~WriteOf(pieces[k]).begun
    BY DEF WriteOf
  <2> HIDE DEF pieces
  <2> QED
    BY <1>6, <2>1, <2>2, <2>3
<1> HIDE DEF pieces
<1>8. \A q \in Successors(m.pb) : q \in Writing'
  <2>1. ASSUME NEW k \in 1..n PROVE ps[k] \in Writing'
    <3>1. n + 1 - k \in 1..n /\ n + 1 - (n + 1 - k) = k
      BY <1>5
    <3>2. writes'[n + 1 - k].pb = ps[k]
      BY <1>7, <3>1
    <3> QED
      BY <1>7, <3>1, <3>2 DEF Writing
  <2> QED
    BY <1>5, <2>1
<1>9. DeleteOf(m.pb).pb = m.pb /\ DeleteOf(m.pb).phase = "spawned"
  BY DEF DeleteOf
<1>10. \A d \in deletes' :
         \/ d \in deletes
         \/ d.phase = "spawned" /\ \A q \in Successors(d.pb) : q \in Writing'
  BY <1>6, <1>8, <1>9
<1>11. replaced \subseteq replaced'
  BY <1>6
<1>12. ASSUME NEW r \in replaced', r \notin replaced PROVE r[2] \in Successors(r[1])
  <2>1. PICK k \in 1..n : r = <<m.pb, ps[k]>>
    BY <1>6, <1>12
  <2> QED
    BY <1>5, <2>1
<1>13. \A p \in validated' : p \in validated \/ p \in Writing'
  BY <1>5, <1>6, <1>8
<1> QED
  BY <1>1, <1>6, <1>7, <1>10, <1>11, <1>12, <1>13, HandlerStep

\* Reassembly: the whole bundle is the successor of fragments for this node.
LEMMA DefragmentStep ==
  ASSUME Inv, HInv, NEW m, MessageOK(m), NEW i, HandleDefragmentBundle(m, i)
  PROVE  HInv'
<1> DEFINE whole == HeaderOf(bundles[i].pb).whole
           stored == Append(Without(bundles, i), bundles[i])
           parts == {k \in 1..Len(stored) : /\ HeaderOf(stored[k].pb).fragment
                                            /\ HeaderOf(stored[k].pb).whole = whole}
           fragments == {stored[k] : k \in parts}
           sb == [pb |-> whole, state |-> "Valid", min |-> FALSE,
                  data |-> [id |-> nextData, hops |-> FirstFragment(fragments).data.hops]]
<1>1. /\ writes = <<>> /\ m.type = "UpdateBundle" /\ bundles[i].pb = m.pb
      /\ m.newState = "DefragmentationPending" /\ i \in 1..Len(bundles)
      /\ bundles \in Seq(StoredBundles)
  BY DEF HandleDefragmentBundle, HandlesBundle, Handles, IsFirst, Inv, StorageTypeOK
<1>2. Local(m.pb) /\ m.pb \in PrimaryBlocks /\ HeaderOf(m.pb).fragment
  BY <1>1 DEF MessageOK
<1>3. /\ UNCHANGED <<files, finished, torn, failed, written>>
      /\ \/ /\ writes' = <<WriteOf(sb)>>
            /\ deletes' = deletes \cup {DeleteOf(f.pb) : f \in fragments}
            /\ validated' = validated \cup {whole}
            /\ replaced' = replaced \cup {<<f.pb, whole>> : f \in fragments}
         \/ UNCHANGED <<writes, deletes, validated, replaced>>
  BY DEF HandleDefragmentBundle
<1>4. ASSUME NEW f \in fragments PROVE Successors(f.pb) = {whole}
  <2>1. stored \in Seq(StoredBundles)
    BY <1>1, MovedType, ElementOfSeq
  <2>2. /\ f \in StoredBundles
        /\ HeaderOf(f.pb).fragment /\ HeaderOf(f.pb).whole = whole
    BY <2>1, ElementOfSeq
  <2>3. f.pb \in PrimaryBlocks
    BY <2>2 DEF StoredBundles
  <2>4. Local(whole)
    BY <1>1, <1>2, SameDest
  <2> QED
    BY <2>2, <2>3, <2>4, SameDest DEF Successors
<1>5. /\ WriteOf(sb).pb = whole /\ ~WriteOf(sb).begun
  BY DEF WriteOf
<1> HIDE DEF whole, fragments, sb
<1>6. CASE UNCHANGED <<writes, deletes, validated, replaced>>
  <2>1. \A k \in 1..Len(writes') : ~writes'[k].begun
    BY <1>1, <1>6
  <2> QED
    BY <1>1, <1>3, <1>6, <2>1, HandlerStep
<1>7. CASE /\ writes' = <<WriteOf(sb)>>
           /\ deletes' = deletes \cup {DeleteOf(f.pb) : f \in fragments}
           /\ validated' = validated \cup {whole}
           /\ replaced' = replaced \cup {<<f.pb, whole>> : f \in fragments}
  <2>1. Len(writes') = 1 /\ writes'[1].pb = whole /\ ~writes'[1].begun
    BY <1>5, <1>7
  <2>2. whole \in Writing' /\ \A k \in 1..Len(writes') : ~writes'[k].begun
    BY <2>1 DEF Writing
  <2>3. ASSUME NEW d \in deletes', d \notin deletes
        PROVE  d.phase = "spawned" /\ \A q \in Successors(d.pb) : q \in Writing'
    <3>1. PICK f \in fragments : d = DeleteOf(f.pb)
      BY <1>7, <2>3
    <3>2. d.pb = f.pb /\ d.phase = "spawned"
      BY <3>1 DEF DeleteOf
    <3> QED
      BY <1>4, <2>2, <3>2
  <2>4. ASSUME NEW r \in replaced', r \notin replaced
        PROVE  r[2] \in Successors(r[1])
    <3>1. PICK f \in fragments : r = <<f.pb, whole>>
      BY <1>7, <2>4
    <3> QED
      BY <1>4, <3>1
  <2> QED
    BY <1>1, <1>3, <1>7, <2>2, <2>3, <2>4, HandlerStep
<1> QED
  BY <1>3, <1>6, <1>7

\* Whatever message of the contract the agent handles, nothing is lost.
LEMMA HandleStep ==
  ASSUME Inv, HInv, NEW m, MessageOK(m), HandleStorageMessage(m)
  PROVE  HInv'
<1>1. HandleStorageMessage(m)
  OBVIOUS
<1>2. MessageOK(m)
  OBVIOUS
<1>3. writes = <<>>
  BY <1>1 DEF HandleStorageMessage, HandleStoreReceivedBundle, HandleStoreNewBundle,
     HandleStore, HandleUnknownBundle, HandleFragmentBundle, HandleFragmentTooSmall,
     HandleFragmentPanic, HandleUpdateBundle, HandleFinishedBundle,
     HandleDefragmentBundle, HandlesBundle, Handles
<1>4. CASE /\ UNCHANGED <<files, writes, historyVars>>
           /\ \A d \in deletes' : d \in deletes \/ d.pb \in finished
  <2>1. \A k \in 1..Len(writes') : ~writes'[k].begun
    BY <1>3, <1>4
  <2> QED
    BY <1>3, <1>4, <2>1, HandlerStep DEF historyVars
<1>5. CASE HandleStoreReceivedBundle(m) \/ HandleStoreNewBundle(m)
  BY <1>4, <1>5 DEF HandleStoreReceivedBundle, HandleStoreNewBundle, HandleStore
<1>6. CASE \/ HandleUnknownBundle(m, "FragmentBundle")
           \/ HandleUnknownBundle(m, "UpdateBundle")
  BY <1>4, <1>6 DEF HandleUnknownBundle, storageVars
<1>7. ASSUME NEW i, HandleFragmentTooSmall(m, i) \/ HandleFragmentPanic(m, i) PROVE HInv'
  BY <1>4, <1>7 DEF HandleFragmentTooSmall, HandleFragmentPanic
<1>8. ASSUME NEW i, HandleFinishedBundle(m, i) PROVE HInv'
  <2>1. /\ bundles[i].pb = m.pb /\ m.pb \in finished
        /\ deletes' = deletes \cup {DeleteOf(m.pb)} /\ DeleteOf(m.pb).pb = m.pb
        /\ UNCHANGED <<files, writes, historyVars>>
    BY <1>2, <1>8 DEF HandleFinishedBundle, HandlesBundle, Handles, IsFirst, MessageOK,
       DeleteOf
  <2> QED
    BY <1>4, <2>1
<1>9. ASSUME NEW i, HandleUpdateBundle(m, i) PROVE HInv'
  <2>1. PICK w : w = WriteOf(bundles[i])
    OBVIOUS
  <2>2. w.pb = bundles[i].pb /\ ~w.begun
    BY <2>1 DEF WriteOf
  <2>3. /\ UNCHANGED <<files, deletes, finished, replaced, torn, failed, written>>
        /\ \/ writes' = <<w>> /\ validated' = validated \cup {bundles[i].pb}
           \/ writes' = <<>> /\ validated' = validated
    BY <1>9, <2>1 DEF HandleUpdateBundle
  <2>4. CASE writes' = <<w>> /\ validated' = validated \cup {bundles[i].pb}
    <3>1. Len(writes') = 1 /\ writes'[1] = w
      BY <2>4
    <3>2. w.pb \in Writing' /\ \A k \in 1..Len(writes') : ~writes'[k].begun
      BY <2>2, <3>1 DEF Writing
    <3> QED
      BY <1>3, <2>2, <2>3, <2>4, <3>2, HandlerStep
  <2>5. CASE writes' = <<>> /\ validated' = validated
    <3>1. \A k \in 1..Len(writes') : ~writes'[k].begun
      BY <2>5
    <3> QED
      BY <1>3, <2>3, <2>5, <3>1, HandlerStep
  <2> QED
    BY <2>3, <2>4, <2>5
<1> QED
  BY <1>1, <1>5, <1>6, <1>7, <1>8, <1>9, FragmentStep, DefragmentStep
     DEF HandleStorageMessage

-------------------------------------------------------------------------------
(* The file system, stop and start *)

\* File::create tears a file whose write is still pending.
LEMMA BeginWriteStep ==
  ASSUME Inv, HInv, BeginWrite
  PROVE  HInv'
<1>0. PICK h : h = Head(writes)
  OBVIOUS
<1>1. /\ writes \in Seq(Writes) /\ writes # <<>>
      /\ files' = PutFile(h, FALSE) /\ writes' = [writes EXCEPT ![1].begun = TRUE]
      /\ UNCHANGED <<deletes, validated, finished, replaced, torn, failed, written>>
  BY <1>0 DEF Inv, StorageTypeOK, BeginWrite, historyVars
<1>2. /\ h \in Writes /\ h = writes[1] /\ Len(writes) \in Nat /\ 1 \in 1..Len(writes)
  BY <1>0, <1>1, HeadOfWrites
<1>3. /\ \A f \in files : f.pb # h.pb => f \in files'
      /\ \E f \in files' : f.pb = h.pb
  BY <1>1, PutFileHas
<1>4. /\ Len(writes') = Len(writes)
      /\ \A k \in 1..Len(writes) : writes'[k].pb = writes[k].pb
      /\ \A k \in 1..Len(writes) : k # 1 => writes'[k] = writes[k]
  <2> DEFINE w == [writes[1] EXCEPT !.begun = TRUE]
             t == [writes EXCEPT ![1] = w]
  <2>1. w \in Writes /\ w.pb = writes[1].pb
    BY <1>2 DEF Writes
  <2>2. writes' = t
    BY <1>1
  <2> HIDE DEF w
  <2>3. /\ Len(t) = Len(writes)
        /\ \A k \in 1..Len(writes) : t[k] = IF k = 1 THEN w ELSE writes[k]
    BY <1>1, <1>2, <2>1, ExceptSeq
  <2> HIDE DEF t
  <2> QED
    BY <2>1, <2>2, <2>3
<1>5. Writing' = Writing /\ h.pb \in Writing
  BY <1>2, <1>4 DEF Writing
<1>6. \A p : HandedOver(p)' <=> HandedOver(p)
  BY <1>1 DEF HandedOver, Settled
<1>7. ReplacedBySuccessors' /\ DeletesWait'
  BY <1>1, <1>5, <1>6 DEF HInv, ReplacedBySuccessors, DeletesWait, Settled
<1>8. ASSUME NEW k \in 1..Len(writes'), writes'[k].begun, NEW p, p = writes'[k].pb
      PROVE  HandedOver(p)' \/ \E f \in files' : f.pb = p
  <2>1. CASE k = 1
    BY <1>2, <1>3, <1>4, <1>8, <2>1
  <2>2. CASE k # 1
    <3>1. k \in 1..Len(writes) /\ writes[k].begun /\ writes[k].pb = p
      BY <1>4, <1>8, <2>2
    <3>2. HandedOver(p) \/ \E f \in files : f.pb = p
      BY <3>1 DEF HInv, BegunHasFile
    <3> QED
      BY <1>3, <1>6, <3>2
  <2> QED
    BY <2>1, <2>2
<1>9. BegunHasFile'
  BY <1>8 DEF BegunHasFile
<1>10. KeptUntilHandover'
  <2>1. \A p : OnDisk(p) => OnDisk(p)' \/ p = h.pb
    BY <1>3 DEF OnDisk
  <2> QED
    BY <1>1, <1>5, <1>6, <2>1 DEF HInv, KeptUntilHandover, Kept
<1> QED
  BY <1>7, <1>9, <1>10 DEF HInv

\* A write that is over, completed or failed.
LEMMA OverStep ==
  ASSUME Inv, HInv, writes # <<>>, writes' = Tail(writes), NEW h, h = Head(writes),
         UNCHANGED <<deletes, validated, finished, replaced, torn>>,
         written \subseteq written', failed \subseteq failed',
         h.pb \in written' \cup failed',
         \A f \in files : f.pb # h.pb => f \in files',
         \A p : (\E f \in files : f.pb = p) => \E f \in files' : f.pb = p,
         Kept(h.pb)'
  PROVE  HInv'
<1>1. writes \in Seq(Writes)
  BY DEF Inv, StorageTypeOK
<1>2. /\ \A k \in 1..Len(writes') : \E j \in 1..Len(writes) : writes'[k] = writes[j]
      /\ \A p \in Writing : p = h.pb \/ p \in Writing'
  BY <1>1, TailWriting
<1>3. \A q : Settled(q) => Settled(q)'
  BY DEF Settled
<1>4. \A p : HandedOver(p) => HandedOver(p)'
  BY StaysHandedOver
<1>5. Settled(h.pb)'
  BY DEF Settled
<1>6. ReplacedBySuccessors'
  BY DEF HInv, ReplacedBySuccessors
<1>7. DeletesWait'
  BY <1>2, <1>3, <1>4, <1>5 DEF HInv, DeletesWait
<1>8. ASSUME NEW k \in 1..Len(writes'), writes'[k].begun, NEW p, p = writes'[k].pb
      PROVE  HandedOver(p)' \/ \E f \in files' : f.pb = p
  <2>1. PICK j \in 1..Len(writes) : writes[j] = writes'[k]
    BY <1>2
  <2>2. HandedOver(p) \/ \E f \in files : f.pb = p
    BY <1>8, <2>1 DEF HInv, BegunHasFile
  <2> QED
    BY <1>4, <2>2
<1>9. BegunHasFile'
  BY <1>8 DEF BegunHasFile
<1>10. ASSUME NEW p \in validated PROVE Kept(p)'
  <2>1. CASE p = h.pb
    BY <2>1
  <2>2. CASE p # h.pb
    <3>1. OnDisk(p) => OnDisk(p)'
      BY <2>2 DEF OnDisk
    <3> QED
      BY <1>2, <1>4, <2>2, <3>1 DEF HInv, KeptUntilHandover, Kept
  <2> QED
    BY <2>1, <2>2
<1> QED
  BY <1>6, <1>7, <1>9, <1>10 DEF HInv, KeptUntilHandover

\* The end of a write completes the file, unless a deletion took it.
LEMMA EndWriteStep ==
  ASSUME Inv, HInv, EndWrite
  PROVE  HInv'
<1>0. PICK h : h = Head(writes)
  OBVIOUS
<1>1. /\ writes \in Seq(Writes) /\ writes # <<>> /\ h.begun
      /\ files' = IF \E f \in files : f.pb = h.pb THEN PutFile(h, TRUE) ELSE files
      /\ writes' = Tail(writes) /\ written' = written \cup {h.pb}
      /\ UNCHANGED <<deletes, validated, finished, replaced, torn, failed>>
  BY <1>0 DEF Inv, StorageTypeOK, EndWrite
<1>2. h = writes[1] /\ 1 \in 1..Len(writes)
  BY <1>0, <1>1, HeadOfWrites
<1>3. /\ \A f \in files : f.pb # h.pb => f \in files'
      /\ (\E f \in files : f.pb = h.pb) => \E f \in files' : f.pb = h.pb /\ f.complete
  <2>1. /\ \E f \in PutFile(h, TRUE) : f.pb = h.pb /\ f.complete = TRUE
        /\ \A f \in files : f.pb # h.pb => f \in PutFile(h, TRUE)
    BY PutFileHas
  <2> QED
    BY <1>1, <2>1
<1>4. \A p : HandedOver(p) => HandedOver(p)'
  BY <1>1, StaysHandedOver
<1>5. Kept(h.pb)'
  <2>1. HandedOver(h.pb) \/ \E f \in files : f.pb = h.pb
    BY <1>1, <1>2 DEF HInv, BegunHasFile
  <2> QED
    BY <1>3, <1>4, <2>1 DEF Kept, OnDisk
<1>6. \A p : (\E f \in files : f.pb = p) => \E f \in files' : f.pb = p
  BY <1>3
<1> QED
  BY <1>0, <1>1, <1>3, <1>5, <1>6, OverStep

\* A failed write is remembered as failed.
LEMMA FailWriteStep ==
  ASSUME Inv, HInv, FailWrite
  PROVE  HInv'
<1>0. PICK h : h = Head(writes)
  OBVIOUS
<1>1. /\ writes # <<>> /\ writes' = Tail(writes) /\ failed' = failed \cup {h.pb}
      /\ UNCHANGED <<files, deletes, validated, finished, replaced, torn, written>>
  BY <1>0 DEF FailWrite
<1>2. Kept(h.pb)'
  BY <1>1 DEF Kept
<1> QED
  BY <1>0, <1>1, <1>2, OverStep

\* Deletions are polled when no write is left, so all they wait for is written.
LEMMA PollDeletesStep ==
  ASSUME Inv, HInv, PollDeletes
  PROVE  HInv'
<1>1. /\ writes = <<>> /\ deletes' = {[d EXCEPT !.phase = "running"] : d \in deletes}
      /\ UNCHANGED <<files, writes, validated, finished, replaced, torn, failed, written>>
  BY DEF PollDeletes, historyVars
<1>2. Writing = {} /\ Writing' = {}
  BY <1>1 DEF Writing
<1>3. \A d \in deletes' : \E c \in deletes : d.pb = c.pb
  BY <1>1 DEF Inv, StorageTypeOK, Deletes
<1>4. \A p : HandedOver(p) <=> HandedOver(p)'
  BY <1>1 DEF HandedOver, Settled
<1>5. \A d \in deletes : HandedOver(d.pb)
  BY <1>2 DEF HInv, DeletesWait, HandedOver
<1>6. DeletesWait'
  BY <1>3, <1>4, <1>5 DEF DeletesWait
<1>7. ReplacedBySuccessors' /\ BegunHasFile'
  BY <1>1 DEF HInv, ReplacedBySuccessors, BegunHasFile
<1>8. KeptUntilHandover'
  BY <1>1, <1>2, <1>4 DEF HInv, KeptUntilHandover, Kept, OnDisk
<1> QED
  BY <1>6, <1>7, <1>8 DEF HInv

\* A deletion takes the file of a bundle that is handed over.
LEMMA RunDeleteStep ==
  ASSUME Inv, HInv, NEW d \in deletes, RunDelete(d)
  PROVE  HInv'
<1>1. /\ files' = {f \in files : f.pb # d.pb} \/ files' = files
      /\ deletes' = deletes \ {d} /\ d.phase = "running"
      /\ UNCHANGED <<writes, validated, finished, replaced, torn, failed, written>>
  BY DEF RunDelete, historyVars
<1>2. \A f \in files : f.pb # d.pb => f \in files'
  BY <1>1
<1>3. HandedOver(d.pb)
  BY <1>1 DEF HInv, DeletesWait
<1>4. \A p : HandedOver(p) <=> HandedOver(p)'
  BY <1>1 DEF HandedOver, Settled
<1>5. Writing' = Writing
  BY <1>1 DEF Writing
<1>6. ReplacedBySuccessors' /\ DeletesWait'
  BY <1>1, <1>4, <1>5 DEF HInv, ReplacedBySuccessors, DeletesWait, Settled
<1>7. ASSUME NEW k \in 1..Len(writes'), writes'[k].begun, NEW p, p = writes'[k].pb
      PROVE  HandedOver(p)' \/ \E f \in files' : f.pb = p
  <2>1. HandedOver(p) \/ \E f \in files : f.pb = p
    BY <1>1, <1>7 DEF HInv, BegunHasFile
  <2> QED
    BY <1>2, <1>3, <1>4, <2>1
<1>8. BegunHasFile'
  BY <1>7 DEF BegunHasFile
<1>9. KeptUntilHandover'
  <2>1. \A p : OnDisk(p) => OnDisk(p)' \/ p = d.pb
    BY <1>2 DEF OnDisk
  <2> QED
    BY <1>1, <1>3, <1>4, <1>5, <2>1 DEF HInv, KeptUntilHandover, Kept
<1> QED
  BY <1>6, <1>8, <1>9 DEF HInv

\* Loading, announcements and finished bundles touch no file.
LEMMA OtherStep ==
  ASSUME HInv, UNCHANGED <<files, writes, deletes, validated, replaced, torn, failed, written>>,
         finished \subseteq finished'
  PROVE  HInv'
<1>1. \A p : HandedOver(p) => HandedOver(p)'
  BY StaysHandedOver
<1>2. Writing' = Writing
  BY DEF Writing
<1>3. ReplacedBySuccessors'
  BY DEF HInv, ReplacedBySuccessors
<1>4. DeletesWait'
  BY <1>1, <1>2 DEF HInv, DeletesWait, Settled
<1>5. ASSUME NEW k \in 1..Len(writes'), writes'[k].begun, NEW p, p = writes'[k].pb
      PROVE  HandedOver(p)' \/ \E f \in files' : f.pb = p
  BY <1>1, <1>5 DEF HInv, BegunHasFile
<1>6. BegunHasFile'
  BY <1>5 DEF BegunHasFile
<1>7. KeptUntilHandover'
  BY <1>1, <1>2 DEF HInv, KeptUntilHandover, Kept, OnDisk
<1> QED
  BY <1>3, <1>4, <1>6, <1>7 DEF HInv

\* A crash forgets the deletions, and a write that was under way leaves a torn file.
LEMMA CrashStep ==
  ASSUME HInv, Crash
  PROVE  HInv'
<1>1. /\ writes' = <<>> /\ deletes' = {} /\ torn' = torn \cup Writing
      /\ UNCHANGED <<files, validated, finished, replaced, failed, written>>
  BY DEF Crash
<1>2. \A p : HandedOver(p) <=> HandedOver(p)'
  BY <1>1 DEF HandedOver, Settled
<1>3. ReplacedBySuccessors' /\ DeletesWait' /\ BegunHasFile'
  BY <1>1 DEF HInv, ReplacedBySuccessors, DeletesWait, BegunHasFile
<1>4. KeptUntilHandover'
  BY <1>1, <1>2 DEF HInv, KeptUntilHandover, Kept, OnDisk
<1> QED
  BY <1>3, <1>4 DEF HInv

\* The agent starts with nothing to lose.
LEMMA InitHandover ==
  ASSUME StorageInit
  PROVE  HInv
<1>1. Len(writes) = 0
  BY DEF StorageInit
<1> QED
  BY <1>1 DEF StorageInit, HInv, ReplacedBySuccessors, DeletesWait, BegunHasFile,
     KeptUntilHandover

\* Whatever the disk does.
LEMMA FileStepStep ==
  ASSUME Inv, HInv, FileStep
  PROVE  HInv'
<1>1. CASE \E d \in deletes : RunDelete(d)
  BY <1>1, RunDeleteStep
<1> QED
  BY <1>1, BeginWriteStep, EndWriteStep, FailWriteStep, PollDeletesStep DEF FileStep

\* The invariant is enough.
LEMMA SafeHandover ==
  ASSUME HInv
  PROVE  HandoverIsCrashSafe
BY DEF HInv, HandoverIsCrashSafe, ReplacedBySuccessors, KeptUntilHandover, Kept,
   HandedOver, Settled

-------------------------------------------------------------------------------
(* What is stored, by its primary block *)

Pbs(s) == {s[i].pb : i \in 1..Len(s)}

Held == Pbs(bundles)

Deleting == {d.pb : d \in deletes}

\* A listing of a finite set without repetitions has all of it.
LEMMA Onto ==
  ASSUME NEW K, IsFiniteSet(K), NEW f \in [1..Cardinality(K) -> K],
         \A j, k \in 1..Cardinality(K) : f[j] = f[k] => j = k
  PROVE  \A x \in K : \E k \in 1..Cardinality(K) : f[k] = x
<1>1. PICK n : n = Cardinality(K)
  OBVIOUS
<1>2. n \in Nat
  BY <1>1, FS_CardinalityType
<1>3. IsFiniteSet(1..n) /\ Cardinality(1..n) = n
  <2>1. /\ IsFiniteSet(1..n)
        /\ Cardinality(1..n) = IF 1 > n THEN 0 ELSE n - 1 + 1
    BY <1>2, FS_Interval
  <2> QED
    BY <1>2, <2>1
<1>4. f \in Injection(1..n, K)
  BY <1>1 DEF Injection, IsInjective
<1>5. f \in Surjection(1..n, K)
  BY <1>1, <1>3, <1>4, FS_Injection
<1> QED
  BY <1>1, <1>5 DEF Surjection

\* The primary blocks of a sequence that grows by one element.
LEMMA PbsAppend ==
  ASSUME NEW S, NEW s \in Seq(S), NEW x \in S
  PROVE  Pbs(Append(s, x)) = Pbs(s) \cup {x.pb}
<1>1. PICK t : t = Append(s, x)
  OBVIOUS
<1>2. PICK n \in Nat : n = Len(s)
  BY LenProperties
<1>3. Len(t) = n + 1 /\ (\A i \in 1..n : t[i] = s[i]) /\ t[n + 1] = x
  BY <1>1, <1>2, AppendProperties
<1>4. ASSUME NEW p \in Pbs(t)
      PROVE  p \in Pbs(s) \cup {x.pb}
  <2>1. PICK i \in 1..(n + 1) : p = t[i].pb
    BY <1>3, <1>4 DEF Pbs
  <2>2. i = n + 1 \/ i \in 1..n
    BY <1>2
  <2> QED
    BY <1>2, <1>3, <2>1, <2>2 DEF Pbs
<1>5. ASSUME NEW p \in Pbs(s) \cup {x.pb}
      PROVE  p \in Pbs(t)
  <2>1. CASE p = x.pb
    <3>1. n + 1 \in 1..Len(t) /\ t[n + 1].pb = p
      BY <1>2, <1>3, <2>1
    <3> QED
      BY <3>1 DEF Pbs
  <2>2. CASE p \in Pbs(s)
    <3>1. PICK i \in 1..n : p = s[i].pb
      BY <1>2, <2>2 DEF Pbs
    <3>2. i \in 1..Len(t) /\ t[i].pb = p
      BY <1>2, <1>3, <3>1
    <3> QED
      BY <3>2 DEF Pbs
  <2> QED
    BY <1>5, <2>1, <2>2
<1> QED
  BY <1>1, <1>4, <1>5

\* The primary blocks of two sequences in a row.
LEMMA PbsConcat ==
  ASSUME NEW S, NEW s \in Seq(S), NEW t \in Seq(S)
  PROVE  Pbs(s \o t) = Pbs(s) \cup Pbs(t)
<1>1. PICK u : u = s \o t
  OBVIOUS
<1>2. PICK n \in Nat : n = Len(s)
  BY LenProperties
<1>3. PICK l \in Nat : l = Len(t)
  BY LenProperties
<1>4. /\ Len(u) = n + l /\ (\A i \in 1..n : u[i] = s[i])
      /\ \A i \in 1..l : u[n + i] = t[i]
  BY <1>1, <1>2, <1>3, ConcatProperties
<1>5. ASSUME NEW p \in Pbs(u)
      PROVE  p \in Pbs(s) \cup Pbs(t)
  <2>1. PICK i \in 1..(n + l) : p = u[i].pb
    BY <1>4, <1>5 DEF Pbs
  <2>2. CASE i \in 1..n
    <3>1. s[i].pb = p
      BY <1>4, <2>1, <2>2
    <3> QED
      BY <1>2, <2>2, <3>1 DEF Pbs
  <2>3. CASE i \notin 1..n
    <3>1. PICK k \in 1..l : k = i - n /\ n + k = i
      BY <1>2, <1>3, <2>3, SMTT(30)
    <3>2. t[k].pb = p
      BY <1>4, <2>1, <3>1
    <3> QED
      BY <1>3, <3>2 DEF Pbs
  <2> QED
    BY <2>2, <2>3
<1>6. ASSUME NEW p \in Pbs(s)
      PROVE  p \in Pbs(u)
  <2>1. PICK i \in 1..n : p = s[i].pb
    BY <1>2, <1>6 DEF Pbs
  <2>2. i \in 1..Len(u) /\ u[i].pb = p
    BY <1>2, <1>3, <1>4, <2>1
  <2> QED
    BY <2>2 DEF Pbs
<1>7. ASSUME NEW p \in Pbs(t)
      PROVE  p \in Pbs(u)
  <2>1. PICK i \in 1..l : p = t[i].pb
    BY <1>3, <1>7 DEF Pbs
  <2>2. n + i \in 1..Len(u) /\ u[n + i].pb = p
    BY <1>2, <1>3, <1>4, <2>1
  <2> QED
    BY <2>2 DEF Pbs
<1> QED
  BY <1>1, <1>5, <1>6, <1>7

\* One element is taken out; others may have its primary block.
LEMMA PbsWithout ==
  ASSUME NEW S, NEW s \in Seq(S), NEW i \in 1..Len(s)
  PROVE  /\ Pbs(Without(s, i)) \subseteq Pbs(s)
         /\ Pbs(s) \ {s[i].pb} \subseteq Pbs(Without(s, i))
<1> DEFINE l == SubSeq(s, 1, i - 1)
           r == SubSeq(s, i + 1, Len(s))
<1>0. Len(s) \in Nat /\ i \in 1..Len(s)
  BY LenProperties
<1>1. /\ l \in Seq(S) /\ Len(l) = i - 1
      /\ \A k \in 1..(i - 1) : l[k] = s[k]
  BY <1>0, SubSeqProperties, SMT
<1>2. /\ r \in Seq(S) /\ Len(r) = Len(s) - i
      /\ \A k \in 1..(Len(s) - i) : r[k] = s[i + k]
  BY <1>0, SubSeqProperties, SMT
<1>3. Without(s, i) = l \o r
  BY DEF Without
<1> HIDE DEF l, r
<1>4. Pbs(Without(s, i)) = Pbs(l) \cup Pbs(r)
  BY <1>1, <1>2, <1>3, PbsConcat
<1>5. Pbs(l) = {s[k].pb : k \in 1..(i - 1)}
  <2>1. PICK a : a = 1..(i - 1)
    OBVIOUS
  <2>2. Pbs(l) = {l[k].pb : k \in a} /\ \A k \in a : l[k] = s[k]
    BY <1>1, <2>1 DEF Pbs
  <2> QED
    BY <2>1, <2>2
<1>6. Pbs(r) = {s[i + k].pb : k \in 1..(Len(s) - i)}
  <2>1. PICK a : a = 1..(Len(s) - i) /\ a = 1..Len(r)
    BY <1>2
  <2>2. Pbs(r) = {r[k].pb : k \in a}
    BY <2>1, Zenon DEF Pbs
  <2>3. \A k \in a : r[k] = s[i + k]
    BY <1>2, <2>1
  <2> QED
    BY <2>1, <2>2, <2>3
<1>7. Pbs(l) \subseteq Pbs(s)
  <2>1. \A k \in 1..(i - 1) : k \in 1..Len(s)
    BY <1>0
  <2> QED
    BY <1>5, <2>1 DEF Pbs
<1>8. Pbs(r) \subseteq Pbs(s)
  <2>1. \A k \in 1..(Len(s) - i) : i + k \in 1..Len(s)
    BY <1>0
  <2> QED
    BY <1>6, <2>1 DEF Pbs
<1>9. ASSUME NEW p \in Pbs(s), p # s[i].pb
      PROVE  p \in Pbs(l) \cup Pbs(r)
  <2>1. PICK k \in 1..Len(s) : p = s[k].pb
    BY <1>9 DEF Pbs
  <2>2. CASE k \in 1..(i - 1)
    BY <1>5, <2>1, <2>2
  <2>3. CASE k \notin 1..(i - 1)
    <3>1. k # i
      BY <1>9, <2>1
    <3>2. k - i \in 1..(Len(s) - i) /\ i + (k - i) = k
      BY <1>0, <2>3, <3>1
    <3> QED
      BY <1>6, <2>1, <3>2
  <2> QED
    BY <2>2, <2>3
<1> QED
  BY <1>4, <1>7, <1>8, <1>9

\* The primary blocks at some of the indices.
LEMMA PbsPick ==
  ASSUME NEW S, NEW s \in Seq(S), NEW K \in SUBSET (1..Len(s)), NEW f \in InOrder(K)
  PROVE  Pbs(Pick(s, f)) = {s[k].pb : k \in K}
<1>1. PICK n : n = Cardinality(K)
  OBVIOUS
<1>2. IsFiniteSet(K) /\ n \in Nat
  <2>1. Len(s) \in Int
    BY LenProperties
  <2>2. IsFiniteSet(1..Len(s))
    BY <2>1, FS_Interval
  <2>3. IsFiniteSet(K)
    BY <2>2, FS_Subset
  <2> QED
    BY <1>1, <2>3, FS_CardinalityType
<1>3. f \in [1..n -> K] /\ \A j, k \in 1..n : j < k => f[j] < f[k]
  BY <1>1 DEF InOrder
<1>4. ASSUME NEW j \in 1..n, NEW k \in 1..n, f[j] = f[k]
      PROVE  j = k
  <2>1. f[j] \in Int /\ f[k] \in Int
    <3>1. \A x \in K : x \in Int
      OBVIOUS
    <3> QED
      BY <1>3, <3>1
  <2>2. ~(j < k) /\ ~(k < j)
    BY <1>3, <1>4, <2>1
  <2> QED
    BY <2>2
<1>5. \A x \in K : \E k \in 1..n : f[k] = x
  BY <1>1, <1>2, <1>3, <1>4, Onto
<1>6. PICK t : t = Pick(s, f)
  OBVIOUS
<1>7. t = [k \in 1..n |-> s[f[k]]] /\ Len(t) = n
  <2>1. DOMAIN f = 1..n
    BY <1>3
  <2>2. t = [k \in 1..n |-> s[f[k]]]
    BY <1>6, <2>1 DEF Pick
  <2>3. \A k \in 1..n : s[f[k]] \in S
    BY <1>3, ElementOfSeq
  <2>4. t \in [1..n -> S]
    BY <2>2, <2>3
  <2> QED
    <3>1. t \in Seq(S)
      BY <1>2, <2>4, SeqDef
    <3>2. Len(t) \in Nat /\ 1..Len(t) = 1..n
      BY <2>4, <3>1, LenProperties
    <3> QED
      BY <1>2, <2>2, <3>2
<1>8. Pbs(t) = {s[f[k]].pb : k \in 1..n}
  BY <1>7 DEF Pbs
<1>9. ASSUME NEW k \in 1..n
      PROVE  s[f[k]].pb \in {s[x].pb : x \in K}
  <2>1. f[k] \in K
    BY <1>3
  <2> QED
    BY <2>1, Zenon
<1>10. ASSUME NEW x \in K
       PROVE  s[x].pb \in {s[f[k]].pb : k \in 1..n}
  <2>1. PICK k \in 1..n : f[k] = x
    BY <1>5
  <2> QED
    BY <2>1, Zenon
<1>11. {s[f[k]].pb : k \in 1..n} = {s[x].pb : x \in K}
  <2>1. PICK A, B : A = {s[f[k]].pb : k \in 1..n} /\ B = {s[x].pb : x \in K}
    OBVIOUS
  <2>2. ASSUME NEW a \in A
        PROVE  a \in B
    <3>1. PICK k \in 1..n : a = s[f[k]].pb
      BY <2>1, Zenon
    <3> QED
      BY <1>9, <2>1, <3>1, Zenon
  <2>3. ASSUME NEW b \in B
        PROVE  b \in A
    <3>1. PICK x \in K : b = s[x].pb
      BY <2>1, Zenon
    <3> QED
      BY <1>10, <2>1, <3>1, Zenon
  <2>4. A = B
    BY <2>2, <2>3
  <2> QED
    BY <2>1, <2>4, Zenon
<1> QED
  BY <1>6, <1>8, <1>11, Zenon

\* A bundle is stored.
LEMMA StoreHeld ==
  ASSUME Inv, NEW m, MessageOK(m), NEW type, HandleStore(m, type)
  PROVE  /\ Held' = Held \cup {m.pb}
         /\ \E r \in StoredBundles : Announce(<<r>>) /\ r.pb = m.pb
<1>1. PICK r : /\ r = [pb |-> m.pb, state |-> "Received", min |-> FALSE,
                       data |-> [id |-> nextData, hops |-> HeaderOf(m.pb).hops]]
               /\ bundles' = Append(bundles, r) /\ Announce(<<r>>)
  BY DEF HandleStore
<1>2. bundles \in Seq(StoredBundles) /\ nextData \in Nat /\ m.pb \in PrimaryBlocks
  BY DEF Inv, StorageTypeOK, MessageOK
<1>3. r \in StoredBundles /\ r.pb = m.pb
  BY <1>1, <1>2, HeaderType DEF StoredBundles, Data, States
<1>4. Pbs(Append(bundles, r)) = Pbs(bundles) \cup {r.pb}
  BY <1>2, <1>3, PbsAppend
<1> QED
  BY <1>1, <1>3, <1>4 DEF Held

\* A bundle is taken out and put back at the end.
LEMMA MovedHeld ==
  ASSUME Inv, NEW i \in 1..Len(bundles), NEW r \in StoredBundles, r.pb = bundles[i].pb,
         bundles' = Append(Without(bundles, i), r)
  PROVE  Held' = Held
<1>1. bundles \in Seq(StoredBundles)
  BY DEF Inv, StorageTypeOK
<1>2. PICK w : w = Without(bundles, i)
  OBVIOUS
<1>3. /\ w \in Seq(StoredBundles) /\ Pbs(w) \subseteq Pbs(bundles)
      /\ Pbs(bundles) \ {r.pb} \subseteq Pbs(w)
  BY <1>1, <1>2, WithoutType, PbsWithout
<1>4. Pbs(bundles') = Pbs(w) \cup {r.pb}
  BY <1>2, <1>3, PbsAppend
<1>5. r.pb \in Pbs(bundles)
  BY DEF Pbs
<1> QED
  BY <1>3, <1>4, <1>5 DEF Held

\* The bundle is put back with its minimal size.
LEMMA TooSmallHeld ==
  ASSUME Inv, NEW m, NEW i, HandleFragmentTooSmall(m, i)
  PROVE  /\ Held' = Held
         /\ \E r \in StoredBundles : Announce(<<r>>) /\ r.pb = m.pb
<1>1. PICK r : /\ r = [bundles[i] EXCEPT !.min = TRUE] /\ Announce(<<r>>)
               /\ bundles' = Append(Without(bundles, i), r)
  BY DEF HandleFragmentTooSmall
<1>2. i \in 1..Len(bundles) /\ bundles[i].pb = m.pb /\ bundles \in Seq(StoredBundles)
  BY DEF HandleFragmentTooSmall, HandlesBundle, IsFirst, Inv, StorageTypeOK
<1>3. bundles[i] \in StoredBundles
  BY <1>2, ElementOfSeq
<1>4. r \in StoredBundles /\ r.pb = m.pb
  BY <1>1, <1>2, <1>3 DEF StoredBundles
<1>5. Held' = Held
  BY <1>1, <1>2, <1>4, MovedHeld
<1> QED
  BY <1>1, <1>4, <1>5

\* The bundle is put back in its new state.
LEMMA UpdateHeld ==
  ASSUME Inv, NEW m, MessageOK(m), NEW i, HandleUpdateBundle(m, i)
  PROVE  /\ Held' = Held /\ deletes' = deletes
         /\ writes' = <<>> \/ (Len(writes') = 1 /\ writes'[1].pb = m.pb)
         /\ m.pb \in Held
         /\ \E r \in StoredBundles : Announce(<<r>>) /\ r.pb = m.pb
<1>1. PICK r : /\ r = [bundles[i] EXCEPT !.state = m.newState,
                                         !.data = IF m.newHops = -1 THEN @
                                                  ELSE [id |-> nextData, hops |-> m.newHops]]
               /\ Announce(<<r>>)
               /\ bundles' = Append(Without(bundles, i), r)
  BY DEF HandleUpdateBundle
<1>2. /\ i \in 1..Len(bundles) /\ bundles[i].pb = m.pb /\ bundles \in Seq(StoredBundles)
      /\ nextData \in Nat /\ m.newState \in {"Valid", "DeliveryQueued", "ForwardingQueued"}
      /\ m.newHops \in Nat \cup {-1}
  BY DEF HandleUpdateBundle, HandlesBundle, Handles, IsFirst, Inv, StorageTypeOK, MessageOK
<1>3. bundles[i] \in StoredBundles
  BY <1>2, ElementOfSeq
<1>4. r \in StoredBundles /\ r.pb = m.pb
  BY <1>1, <1>2, <1>3 DEF StoredBundles, Data, States
<1>5. Held' = Held
  BY <1>1, <1>2, <1>4, MovedHeld
<1>6. m.pb \in Held
  BY <1>2 DEF Held, Pbs
<1>7. deletes' = deletes /\ (writes' = <<>> \/ writes' = <<WriteOf(bundles[i])>>)
  BY DEF HandleUpdateBundle
<1>8. PICK w : w = WriteOf(bundles[i]) /\ w.pb = m.pb
  <2>1. WriteOf(bundles[i]).pb = m.pb
    BY <1>2 DEF WriteOf
  <2> QED
    BY <2>1
<1>9. writes' = <<>> \/ (Len(writes') = 1 /\ writes'[1] = w)
  BY <1>7, <1>8
<1> QED
  BY <1>1, <1>4, <1>5, <1>6, <1>7, <1>8, <1>9

\* One copy of the bundle goes, and its file will.
LEMMA FinishedHeld ==
  ASSUME Inv, NEW m, NEW i, HandleFinishedBundle(m, i)
  PROVE  /\ Held' \subseteq Held /\ Held \ {m.pb} \subseteq Held'
         /\ Deleting' = Deleting \cup {m.pb}
<1>1. /\ i \in 1..Len(bundles) /\ bundles[i].pb = m.pb /\ bundles \in Seq(StoredBundles)
      /\ bundles' = Without(bundles, i) /\ deletes' = deletes \cup {DeleteOf(m.pb)}
  BY DEF HandleFinishedBundle, HandlesBundle, IsFirst, Inv, StorageTypeOK
<1>2. DeleteOf(m.pb).pb = m.pb
  BY DEF DeleteOf
<1>3. Deleting' = Deleting \cup {m.pb}
  BY <1>1, <1>2 DEF Deleting
<1> QED
  BY <1>1, <1>3, PbsWithout DEF Held

\* A bundle is replaced by its pieces.
LEMMA FragmentHeld ==
  ASSUME Inv, NEW m, MessageOK(m), NEW i, HandleFragmentBundle(m, i)
  PROVE  \E P : /\ Held' \subseteq Held \cup P /\ (Held \ {m.pb}) \cup P \subseteq Held'
                /\ Deleting' = Deleting \cup {m.pb} /\ Writing' = P
                /\ \E refs \in Seq(StoredBundles) : Announce(refs) /\ Pbs(refs) = P
                /\ \E r \in replaced' : r[1] = m.pb
<1>1. /\ bundles \in Seq(StoredBundles) /\ nextData \in Nat \ {0}
      /\ i \in 1..Len(bundles) /\ bundles[i].pb = m.pb
      /\ m.pb \in PrimaryBlocks /\ HeaderOf(m.pb).pieces # <<>>
  BY DEF Inv, StorageTypeOK, HandleFragmentBundle, HandlesBundle, IsFirst, Handles, MessageOK
<1>2. PICK ps : ps = HeaderOf(m.pb).pieces
  OBVIOUS
<1>3. PICK n : n = Len(ps)
  OBVIOUS
<1>4. ps \in Seq(PrimaryBlocks) /\ n \in Nat /\ \A k \in 1..n : ps[k] \in PrimaryBlocks
  BY <1>1, <1>2, <1>3, HeaderType, LenProperties, ElementOfSeq
<1>5. n > 0
  BY <1>1, <1>2, <1>3, <1>4, EmptySeq
<1>6. bundles[i] \in StoredBundles
  BY <1>1, ElementOfSeq
<1> DEFINE piece(k) == [pb |-> ps[k], state |-> "Valid", min |-> TRUE,
                        data |-> [id |-> nextData + k - 1, hops |-> bundles[i].data.hops]]
           pieces == [k \in 1..n |-> piece(k)]
           ws == [k \in 1..n |-> WriteOf(pieces[n + 1 - k])]
<1>7. /\ bundles' = Without(bundles, i) \o pieces
      /\ writes' = ws
      /\ deletes' = deletes \cup {DeleteOf(m.pb)}
      /\ Announce(pieces)
      /\ replaced' = replaced \cup {<<m.pb, ps[k]>> : k \in 1..n}
  <2>1. Len(pieces) = n
    BY <1>4
  <2> QED
    BY <1>1, <1>2, <1>3, <2>1 DEF HandleFragmentBundle
<1>8. PICK P : P = {ps[k] : k \in 1..n}
  OBVIOUS
<1>9. /\ pieces \in Seq(StoredBundles) /\ Len(pieces) = n
      /\ \A k \in 1..n : pieces[k].pb = ps[k]
  <2>1. \A k \in 1..n : piece(k) \in StoredBundles
    BY <1>1, <1>4, <1>6 DEF StoredBundles, Data, States
  <2>2. pieces \in [1..n -> StoredBundles]
    BY <2>1
  <2>3. pieces \in Seq(StoredBundles) /\ Len(pieces) = n
    BY <1>4, <2>2, SeqDef
  <2> QED
    BY <2>1, <2>3
<1>10. ws = [k \in 1..n |-> WriteOf(pieces[n + 1 - k])]
  OBVIOUS
<1> HIDE DEF pieces, ws
<1>11. Pbs(pieces) = P
  BY <1>8, <1>9 DEF Pbs
<1>12. Writing' = P
  <2>1. \A k \in 1..n : n + 1 - k \in 1..n /\ n + 1 - (n + 1 - k) = k
    BY <1>4
  <2>2. Len(ws) = n /\ \A k \in 1..n : ws[k] = WriteOf(pieces[n + 1 - k])
    BY <1>4, <1>10
  <2>3. ASSUME NEW k \in 1..n
        PROVE  ws[k].pb = ps[n + 1 - k]
    <3>1. PICK j \in 1..n : j = n + 1 - k
      BY <2>1
    <3>2. ws[k] = WriteOf(pieces[j]) /\ pieces[j].pb = ps[j]
      BY <1>9, <2>2, <3>1
    <3>3. WriteOf(pieces[j]).pb = pieces[j].pb
      BY DEF WriteOf
    <3> QED
      BY <3>1, <3>2, <3>3
  <2>4. Writing' = {ws[k].pb : k \in 1..n}
    BY <1>7, <2>2 DEF Writing
  <2>5. \A p \in Writing' : p \in P
    BY <1>8, <2>1, <2>3, <2>4
  <2>6. ASSUME NEW k \in 1..n
        PROVE  ps[k] \in Writing'
    <3>1. PICK j \in 1..n : j = n + 1 - k /\ n + 1 - j = k
      BY <2>1
    <3> QED
      BY <2>3, <2>4, <3>1
  <2> QED
    BY <1>8, <2>5, <2>6
<1>13. PICK w : w = Without(bundles, i)
  OBVIOUS
<1>14. /\ w \in Seq(StoredBundles) /\ Pbs(w) \subseteq Pbs(bundles)
       /\ Pbs(bundles) \ {m.pb} \subseteq Pbs(w)
  BY <1>1, <1>13, WithoutType, PbsWithout
<1>15. Held' = Pbs(w) \cup P
  BY <1>7, <1>9, <1>11, <1>13, <1>14, PbsConcat DEF Held
<1>16. DeleteOf(m.pb).pb = m.pb
  BY DEF DeleteOf
<1>17. Deleting' = Deleting \cup {m.pb}
  BY <1>7, <1>16 DEF Deleting
<1>18. PICK r : r = <<m.pb, ps[1]>>
  OBVIOUS
<1>19. r \in replaced' /\ r[1] = m.pb
  <2>1. 1 \in 1..n
    BY <1>4, <1>5
  <2> QED
    BY <1>7, <1>18, <2>1
<1>20. Held' \subseteq Held \cup P /\ (Held \ {m.pb}) \cup P \subseteq Held'
  BY <1>14, <1>15 DEF Held
<1> QED
  BY <1>7, <1>9, <1>11, <1>12, <1>17, <1>19, <1>20

\* The stored fragments of the bundle w, and whether they leave no gap.
FragmentsOf(w) == {p \in Held : HeaderOf(p).fragment /\ HeaderOf(p).whole = w}

Complete(w) == UNION {HeaderOf(p).span : p \in FragmentsOf(w)} = HeaderOf(w).span

\* Fragments are replaced by the bundle, or change places.
LEMMA DefragmentHeld ==
  ASSUME Inv, NEW m, MessageOK(m), NEW i, HandleDefragmentBundle(m, i),
         NEW w, w = HeaderOf(m.pb).whole
  PROVE  \/ /\ Held' = (Held \ FragmentsOf(w)) \cup {w}
            /\ Deleting' = Deleting \cup FragmentsOf(w) /\ Writing' = {w}
            /\ \E r \in StoredBundles : Announce(<<r>>) /\ r.pb = w
         \/ /\ ~Complete(w) /\ Held' = Held
            /\ UNCHANGED <<writes, deletes, bpaMail>>
<1> DEFINE stored == Append(Without(bundles, i), bundles[i])
           parts == {k \in 1..Len(stored) : /\ HeaderOf(stored[k].pb).fragment
                                            /\ HeaderOf(stored[k].pb).whole = w}
           others == 1..Len(stored) \ parts
           fragments == {stored[k] : k \in parts}
           sb == [pb |-> w, state |-> "Valid", min |-> FALSE,
                  data |-> [id |-> nextData, hops |-> FirstFragment(fragments).data.hops]]
<1>1. /\ bundles \in Seq(StoredBundles) /\ nextData \in Nat \ {0}
      /\ i \in 1..Len(bundles) /\ bundles[i].pb = m.pb
      /\ m.pb \in PrimaryBlocks /\ HeaderOf(m.pb).fragment
  BY DEF Inv, StorageTypeOK, HandleDefragmentBundle, HandlesBundle, IsFirst, Handles, MessageOK
<1>2. bundles[i] \in StoredBundles /\ w \in PrimaryBlocks
  BY <1>1, ElementOfSeq, HeaderType
<1>3. /\ stored \in Seq(StoredBundles)
      /\ \A k \in 1..Len(stored) : \E j \in 1..Len(bundles) : stored[k] = bundles[j]
  BY <1>1, <1>2, MovedType
<1>4. Pbs(stored) = Held
  <2>1. PICK v : v = Without(bundles, i)
    OBVIOUS
  <2>2. /\ v \in Seq(StoredBundles) /\ Pbs(v) \subseteq Pbs(bundles)
        /\ Pbs(bundles) \ {m.pb} \subseteq Pbs(v)
    BY <1>1, <2>1, WithoutType, PbsWithout
  <2>3. Pbs(stored) = Pbs(v) \cup {m.pb}
    BY <1>1, <1>2, <2>1, <2>2, PbsAppend
  <2>4. m.pb \in Pbs(bundles)
    BY <1>1 DEF Pbs
  <2> QED
    BY <2>2, <2>3, <2>4 DEF Held
<1>5. PICK rest \in InOrder(others), taken \in InOrder(parts) :
        \/ /\ CanReassemble(w, fragments)
           /\ bundles' = Append(Pick(stored, rest), sb)
           /\ writes' = <<WriteOf(sb)>>
           /\ deletes' = deletes \cup {DeleteOf(f.pb) : f \in fragments}
           /\ Announce(<<sb>>)
        \/ /\ ~CanReassemble(w, fragments)
           /\ bundles' = Pick(stored, rest) \o Pick(stored, taken)
           /\ UNCHANGED <<writes, deletes, bpaMail>>
  BY <1>1 DEF HandleDefragmentBundle
<1>6. parts \subseteq 1..Len(stored) /\ others = 1..Len(stored) \ parts
  OBVIOUS
<1>7. \A k \in 1..Len(stored) :
        k \in parts <=> HeaderOf(stored[k].pb).fragment /\ HeaderOf(stored[k].pb).whole = w
  OBVIOUS
<1>8. fragments = {stored[k] : k \in parts} /\ fragments \subseteq StoredBundles
  BY <1>3, ElementOfSeq
<1>9. CanReassemble(w, fragments) => FirstFragment(fragments) \in fragments
  BY <1>1, FirstFragmentExists
<1> HIDE DEF stored, parts, others, fragments
<1>10. Held = {stored[k].pb : k \in 1..Len(stored)}
  BY <1>4 DEF Pbs
<1>11. {stored[k].pb : k \in parts} = FragmentsOf(w)
  BY <1>6, <1>7, <1>10 DEF FragmentsOf
<1>12. {stored[k].pb : k \in others} = Held \ FragmentsOf(w)
  <2>1. ASSUME NEW k \in others
        PROVE  stored[k].pb \in Held \ FragmentsOf(w)
    BY <1>6, <1>7, <1>10, <2>1 DEF FragmentsOf
  <2>2. ASSUME NEW p \in Held, p \notin FragmentsOf(w)
        PROVE  p \in {stored[k].pb : k \in others}
    <3>1. PICK k \in 1..Len(stored) : p = stored[k].pb
      BY <1>10
    <3>2. k \notin parts
      BY <1>7, <2>2, <3>1 DEF FragmentsOf
    <3> QED
      BY <1>6, <3>1, <3>2
  <2> QED
    BY <2>1, <2>2
<1>13. {f.pb : f \in fragments} = FragmentsOf(w)
  BY <1>8, <1>11
<1>14. CanReassemble(w, fragments) <=> Complete(w)
  <2>1. {HeaderOf(f.pb).span : f \in fragments} = {HeaderOf(p).span : p \in FragmentsOf(w)}
    BY <1>13
  <2> QED
    BY <2>1 DEF CanReassemble, Complete
<1>15. PICK a, b : a = Pick(stored, rest) /\ b = Pick(stored, taken)
  OBVIOUS
<1>16. /\ a \in Seq(StoredBundles) /\ b \in Seq(StoredBundles)
       /\ Pbs(a) = Held \ FragmentsOf(w) /\ Pbs(b) = FragmentsOf(w)
  <2>1. parts \in SUBSET (1..Len(stored)) /\ others \in SUBSET (1..Len(stored))
    BY <1>6
  <2>2. Pbs(Pick(stored, rest)) = {stored[k].pb : k \in others}
    BY <1>3, <2>1, PbsPick
  <2>3. Pbs(Pick(stored, taken)) = {stored[k].pb : k \in parts}
    BY <1>3, <2>1, PbsPick
  <2>4. a \in Seq(StoredBundles) /\ b \in Seq(StoredBundles)
    BY <1>3, <1>15, <2>1, PickType
  <2> QED
    BY <1>11, <1>12, <1>15, <2>2, <2>3, <2>4
<1>17. CASE CanReassemble(w, fragments)
  <2>1. /\ bundles' = Append(a, sb) /\ writes' = <<WriteOf(sb)>>
        /\ deletes' = deletes \cup {DeleteOf(f.pb) : f \in fragments}
        /\ Announce(<<sb>>)
    BY <1>5, <1>15, <1>17
  <2>2. sb \in StoredBundles /\ sb.pb = w
    BY <1>1, <1>2, <1>8, <1>9, <1>17 DEF StoredBundles, Data, States
  <2> HIDE DEF sb
  <2>3. PICK x : x = WriteOf(sb)
    OBVIOUS
  <2>4. x.pb = w
    BY <2>2, <2>3 DEF WriteOf
  <2>5. Len(writes') = 1 /\ writes'[1] = x
    BY <2>1, <2>3
  <2>6. Writing' = {w}
    BY <2>4, <2>5 DEF Writing
  <2>7. Held' = (Held \ FragmentsOf(w)) \cup {w}
    BY <1>16, <2>1, <2>2, PbsAppend DEF Held
  <2>8. Deleting' = Deleting \cup FragmentsOf(w)
    <3>1. deletes' = deletes \cup {DeleteOf(p) : p \in FragmentsOf(w)}
      BY <1>13, <2>1
    <3>2. \A p \in FragmentsOf(w) : DeleteOf(p).pb = p
      BY DEF DeleteOf
    <3> QED
      BY <3>1, <3>2 DEF Deleting
  <2> QED
    BY <2>1, <2>2, <2>6, <2>7, <2>8
<1>18. CASE ~CanReassemble(w, fragments)
  <2>1. bundles' = a \o b /\ UNCHANGED <<writes, deletes, bpaMail>>
    BY <1>5, <1>15, <1>18
  <2>2. Held' = (Held \ FragmentsOf(w)) \cup FragmentsOf(w)
    BY <1>16, <2>1, PbsConcat DEF Held
  <2>3. FragmentsOf(w) \subseteq Held
    BY DEF FragmentsOf
  <2> QED
    BY <1>14, <1>18, <2>1, <2>2, <2>3
<1> QED
  BY <1>17, <1>18

\* Everything on disk is loaded.
LEMMA StartHeld ==
  ASSUME Inv, StartAgent, bsa' = "up"
  PROVE  /\ Held' = {f.pb : f \in files}
         /\ \E refs \in Seq(StoredBundles) : Announce(refs) /\ Pbs(refs) = Held'
<1>1. PICK s \in Listings :
        LET loaded == [i \in 1..Len(s) |-> LoadedBundle(s[i], nextData + i - 1)]
        IN  bundles' = loaded /\ Announce(loaded)
  BY DEF StartAgent
<1>2. PICK l : l = [i \in 1..Len(s) |-> LoadedBundle(s[i], nextData + i - 1)]
  OBVIOUS
<1>3. Announce(l) /\ bundles' = l
  BY <1>1, <1>2
<1>4. IsFiniteSet(files) /\ nextData \in Nat
  BY DEF Inv, StorageTypeOK
<1>5. l \in Seq(StoredBundles)
  <2>1. l = [i \in 1..Len(s) |-> LoadedBundle(s[i], IF 1 = 0 THEN 0 ELSE nextData + i - 1)]
    BY <1>2
  <2> QED
    BY <1>4, <2>1, LoadedType
<1>6. PICK n : n = Cardinality(files)
  OBVIOUS
<1>7. /\ n \in Nat /\ s \in [1..n -> files]
      /\ \A i, j \in 1..n : s[i] = s[j] => i = j
  BY <1>4, <1>6, FS_CardinalityType DEF Listings
<1>8. \A f \in files : \E i \in 1..n : s[i] = f
  BY <1>4, <1>6, <1>7, Onto
<1>9. Len(s) = n
  <2>1. s \in Seq(files)
    BY <1>7, SeqDef
  <2>2. Len(s) \in Nat /\ 1..Len(s) = 1..n
    BY <1>7, <2>1, LenProperties
  <2> QED
    BY <1>7, <2>2
<1>10. Len(l) = n /\ \A i \in 1..n : l[i].pb = s[i].pb
  <2>1. Len(l) \in Nat /\ 1..Len(l) = 1..n
    BY <1>2, <1>5, <1>9, LenProperties
  <2>2. Len(l) = n
    BY <1>7, <2>1
  <2>3. ASSUME NEW i \in 1..n
        PROVE  l[i].pb = s[i].pb
    <3>1. l[i] = LoadedBundle(s[i], nextData + i - 1)
      BY <1>2, <1>9
    <3> QED
      BY <3>1 DEF LoadedBundle
  <2> QED
    BY <2>2, <2>3
<1>11. Pbs(l) = {l[i].pb : i \in 1..n}
  BY <1>10 DEF Pbs
<1>12. Pbs(l) = {f.pb : f \in files}
  BY <1>7, <1>8, <1>10, <1>11
<1> QED
  BY <1>3, <1>5, <1>12 DEF Held

-------------------------------------------------------------------------------
(* Files of bundles that are no longer stored *)

\* Every file belongs to a stored bundle or is about to be deleted, and only stored
\* bundles are written.
NothingLeft ==
  /\ bsa = "up" => (\A f \in files : f.pb \in Held \cup Deleting) /\ Writing \subseteq Held
  /\ bsa = "unstarted" => writes = <<>> /\ deletes = {}

\* There is no file at first.
LEMMA InitLeft ==
  ASSUME StorageInit
  PROVE  NothingLeft
BY DEF StorageInit, NothingLeft

\* A handler deletes the file of what it removes, and writes what it stores.
LEMMA HandleLeft ==
  ASSUME Inv, NothingLeft, NEW m, MessageOK(m), HandleStorageMessage(m)
  PROVE  NothingLeft'
<1>1. /\ bsa = "up" /\ bsa' \in {"up", "panicked"} /\ writes = <<>> /\ files' = files
  BY DEF HandleStorageMessage, HandleStoreReceivedBundle, HandleStoreNewBundle,
     HandleStore, HandleUnknownBundle, HandleFragmentBundle, HandleFragmentTooSmall,
     HandleFragmentPanic, HandleUpdateBundle, HandleFinishedBundle,
     HandleDefragmentBundle, HandlesBundle, Handles, storageVars
<1>2. (\A f \in files : f.pb \in Held \cup Deleting) /\ Writing = {}
  <2>1. Len(writes) = 0
    BY <1>1
  <2> QED
    BY <1>1, <2>1 DEF NothingLeft, Writing
<1>3. ASSUME Held \cup Deleting \subseteq Held' \cup Deleting', Writing' \subseteq Held'
      PROVE  NothingLeft'
  BY <1>1, <1>2, <1>3 DEF NothingLeft
<1>4. CASE writes' = <<>> /\ Held \subseteq Held' /\ deletes' = deletes
  <2>1. Writing' = {} /\ Deleting' = Deleting
    BY <1>4 DEF Writing, Deleting
  <2> QED
    BY <1>3, <1>4, <2>1
<1>5. CASE HandleStoreReceivedBundle(m) \/ HandleStoreNewBundle(m)
  <2>1. Held' = Held \cup {m.pb}
    BY <1>5, StoreHeld DEF HandleStoreReceivedBundle, HandleStoreNewBundle
  <2>2. UNCHANGED <<writes, deletes>>
    BY <1>5 DEF HandleStoreReceivedBundle, HandleStoreNewBundle, HandleStore
  <2> QED
    BY <1>1, <1>4, <2>1, <2>2
<1>6. CASE HandleUnknownBundle(m, "FragmentBundle") \/ HandleUnknownBundle(m, "UpdateBundle")
  <2>1. UNCHANGED <<bundles, writes, deletes>>
    BY <1>6 DEF HandleUnknownBundle, storageVars
  <2>2. Held' = Held
    BY <2>1 DEF Held, Pbs
  <2> QED
    BY <1>1, <1>4, <2>1, <2>2
<1>7. ASSUME NEW i, HandleFragmentBundle(m, i) PROVE NothingLeft'
  <2>1. PICK P : /\ (Held \ {m.pb}) \cup P \subseteq Held'
                 /\ Deleting' = Deleting \cup {m.pb} /\ Writing' = P
    BY <1>7, FragmentHeld
  <2> QED
    BY <1>3, <2>1
<1>8. ASSUME NEW i, HandleFragmentTooSmall(m, i) PROVE NothingLeft'
  <2>1. Held' = Held
    BY <1>8, TooSmallHeld
  <2>2. UNCHANGED <<writes, deletes>>
    BY <1>8 DEF HandleFragmentTooSmall
  <2> QED
    BY <1>1, <1>4, <2>1, <2>2
<1>9. ASSUME NEW i, HandleFragmentPanic(m, i) PROVE NothingLeft'
  BY <1>9 DEF HandleFragmentPanic, NothingLeft
<1>10. ASSUME NEW i, HandleUpdateBundle(m, i) PROVE NothingLeft'
  <2>1. /\ Held' = Held /\ deletes' = deletes /\ m.pb \in Held
        /\ writes' = <<>> \/ (Len(writes') = 1 /\ writes'[1].pb = m.pb)
    BY <1>10, UpdateHeld
  <2>2. CASE writes' = <<>>
    BY <1>4, <2>1, <2>2
  <2>3. CASE Len(writes') = 1 /\ writes'[1].pb = m.pb
    <3>1. Writing' = {m.pb} /\ Deleting' = Deleting
      BY <2>1, <2>3 DEF Writing, Deleting
    <3> QED
      BY <1>3, <2>1, <3>1
  <2> QED
    BY <2>1, <2>2, <2>3
<1>11. ASSUME NEW i, HandleFinishedBundle(m, i) PROVE NothingLeft'
  <2>1. Held \ {m.pb} \subseteq Held' /\ Deleting' = Deleting \cup {m.pb}
    BY <1>11, FinishedHeld
  <2>2. writes' = <<>>
    BY <1>1, <1>11 DEF HandleFinishedBundle
  <2>3. Writing' = {}
    BY <2>2 DEF Writing
  <2> QED
    BY <1>3, <2>1, <2>3
<1>12. ASSUME NEW i, HandleDefragmentBundle(m, i) PROVE NothingLeft'
  <2>1. PICK w : w = HeaderOf(m.pb).whole
    OBVIOUS
  <2>2. CASE /\ Held' = (Held \ FragmentsOf(w)) \cup {w}
             /\ Deleting' = Deleting \cup FragmentsOf(w) /\ Writing' = {w}
    BY <1>3, <2>2
  <2>3. CASE Held' = Held /\ UNCHANGED <<writes, deletes>>
    BY <1>1, <1>4, <2>3
  <2> QED
    BY <1>12, <2>1, <2>2, <2>3, DefragmentHeld
<1> QED
  BY <1>5, <1>6, <1>7, <1>8, <1>9, <1>10, <1>11, <1>12 DEF HandleStorageMessage

\* Only stored bundles get a file, and only a deletion ends a deletion.
LEMMA FileStepLeft ==
  ASSUME Inv, NothingLeft, ~DiskFaults, FileStep
  PROVE  NothingLeft'
<1>1. Held' = Held /\ bsa' = bsa
  BY DEF FileStep, BeginWrite, EndWrite, FailWrite, PollDeletes, RunDelete, Held
<1>2. writes \in Seq(Writes)
  BY DEF Inv, StorageTypeOK
<1>3. CASE BeginWrite
  <2>1. PICK h : h = Head(writes)
    OBVIOUS
  <2>2. writes # <<>> /\ 1 \in 1..Len(writes) /\ writes[1] = h
    BY <1>2, <1>3, <2>1, HeadTailProperties, EmptySeq DEF BeginWrite
  <2>3. /\ \A f \in files' : f \in files \/ f.pb = h.pb
        /\ deletes' = deletes /\ writes' = [writes EXCEPT ![1].begun = TRUE]
    BY <1>3, <2>1 DEF BeginWrite, PutFile
  <2>4. h.pb \in Writing
    BY <2>2 DEF Writing
  <2>5. Writing' = Writing
    <3>1. Len(writes') = Len(writes) /\ \A k \in 1..Len(writes) : writes'[k].pb = writes[k].pb
      BY <1>2, <2>2, <2>3
    <3> QED
      BY <3>1 DEF Writing
  <2> QED
    BY <1>1, <2>2, <2>3, <2>4, <2>5 DEF NothingLeft, Deleting
<1>4. CASE EndWrite
  <2>1. PICK h : h = Head(writes)
    OBVIOUS
  <2>2. writes # <<>> /\ 1 \in 1..Len(writes) /\ writes[1] = h
    BY <1>2, <1>4, <2>1, HeadTailProperties, EmptySeq DEF EndWrite
  <2>3. /\ \A f \in files' : f \in files \/ f.pb = h.pb
        /\ deletes' = deletes /\ writes' = Tail(writes)
    BY <1>4, <2>1 DEF EndWrite, PutFile
  <2>4. h.pb \in Writing
    BY <2>2 DEF Writing
  <2>5. Writing' \subseteq Writing
    <3>1. \A k \in 1..Len(writes') : \E j \in 1..Len(writes) : writes'[k] = writes[j]
      BY <1>2, <2>2, <2>3, TailWriting
    <3> QED
      BY <3>1 DEF Writing
  <2> QED
    BY <1>1, <2>2, <2>3, <2>4, <2>5 DEF NothingLeft, Deleting
<1>5. CASE FailWrite
  BY <1>5 DEF FailWrite
<1>6. CASE PollDeletes
  <2>1. Deleting' = Deleting
    <3>1. deletes' = {[d EXCEPT !.phase = "running"] : d \in deletes} /\ deletes \subseteq Deletes
      BY <1>6 DEF PollDeletes, Inv, StorageTypeOK
    <3>2. \A d \in deletes : [d EXCEPT !.phase = "running"].pb = d.pb
      BY <3>1 DEF Deletes
    <3> QED
      BY <3>1, <3>2 DEF Deleting
  <2> QED
    BY <1>1, <1>6, <2>1 DEF PollDeletes, NothingLeft, Writing
<1>7. CASE \E d \in deletes : RunDelete(d)
  <2>1. PICK d \in deletes : RunDelete(d)
    BY <1>7
  <2>2. /\ files' = {f \in files : f.pb # d.pb} /\ deletes' = deletes \ {d}
        /\ writes' = writes
    BY <2>1 DEF RunDelete
  <2>3. Deleting \ {d.pb} \subseteq Deleting'
    BY <2>2 DEF Deleting
  <2> QED
    BY <1>1, <2>2, <2>3 DEF NothingLeft, Writing
<1> QED
  BY <1>3, <1>4, <1>5, <1>6, <1>7 DEF FileStep

\* Every file is loaded, or the agent does not come up.
LEMMA StartLeft ==
  ASSUME Inv, NothingLeft, StartStep
  PROVE  NothingLeft'
<1>1. CASE TriggerLoading
  BY <1>1 DEF TriggerLoading, NothingLeft, Held, Deleting, Writing
<1>2. CASE StartAgent
  <2>1. bsa = "unstarted" /\ bsa' \in {"up", "panicked"} /\ UNCHANGED <<files, writes, deletes>>
    BY <1>2 DEF StartAgent
  <2>2. CASE bsa' = "up"
    <3>1. Held' = {f.pb : f \in files}
      BY <1>2, <2>2, StartHeld
    <3>2. Writing' = {}
      BY <2>1 DEF NothingLeft, Writing
    <3> QED
      BY <2>1, <2>2, <3>1, <3>2 DEF NothingLeft
  <2> QED
    BY <2>1, <2>2 DEF NothingLeft
<1> QED
  BY <1>1, <1>2 DEF StartStep

\* After a crash the agent has not started.
LEMMA CrashLeft ==
  ASSUME Crash
  PROVE  NothingLeft'
BY DEF Crash, NothingLeft

\* Nobody else touches files or bundles.
LEMMA OthersLeft ==
  ASSUME NothingLeft, UNCHANGED storageVars
  PROVE  NothingLeft'
BY DEF NothingLeft, storageVars, Held, Deleting, Writing
===============================================================================

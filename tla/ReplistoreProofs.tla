--------------------------- MODULE ReplistoreProofs ---------------------------
(***************************************************************************)
(* What the replistore run checks on small scenarios, proved for every set *)
(* of requests, buckets, keys, contents and scenarios: the types, that no  *)
(* object dangles, that acknowledged puts last, that readers are told what *)
(* was so, and that the events sent are the changes made.                  *)
(***************************************************************************)
EXTENDS Replistore, TLAPS, FiniteSetTheorems, SequenceTheorems, WellFoundedInduction

-------------------------------------------------------------------------------
(* The inductive invariant.  The blob of an object is safe because the deletion   *)
(* that removes it has first removed the object, and nobody but the one put of    *)
(* the content wrote it: metadata name the request that wrote them, a request     *)
(* changes its bucket once, under a version no other request gets, and whoever    *)
(* holds metadata to delete the blob of has a later version than their writer.    *)

Readers == {"head_object", "get_object", "delete_object"}
Maybe == Metas \cup {NoMeta}

Procs == [status : {"idle", "running", "done", "lost"}, at : Nat, code : Codes,
          meta : Maybe, version : Nat, todo : SUBSET Names,
          items : (SUBSET Items) \cup (SUBSET Buckets), began : Nat]

Stores == [objects : SUBSET Keys, meta : [Keys -> Maybe], version : Nat]

ScenarioInv == scenario \in Scenarios

ProcInv == proc \in [Requests -> Procs]

StateInv ==
  /\ buckets \subseteq Buckets
  /\ stores \in [Buckets -> Stores]
  /\ actors \in [Buckets -> {"none", "running", "dead"}]
  /\ blobs \subseteq Contents /\ tmp \subseteq Requests
  /\ client \in {"running", "dead"}
  /\ events \in Seq(Events) /\ submitted \subseteq Events
  /\ log \in [Buckets -> Seq(Changes)]
  /\ crashes \in 0..MaxCrashes

\* Where a request is in its program, and what it has done by then.
Control(r) ==
  LET p == proc[r]
      op == Ask(r).op
  IN
  /\ p.status = "idle" => p = NewProc
  /\ p.status \in {"running", "lost"} =>
       /\ HasBody(r) /\ op # "get_bucket_location"
       /\ p.at \in DOMAIN Program(op) /\ p.code = "none"
  /\ op \notin {"put_object", "delete_object"} => p.version = 0
  /\ op = "put_object" =>
       /\ p.status = "running" => (p.version # 0 <=> p.at = 7)
       /\ p.code = "ok" => p.version # 0
  /\ op = "delete_object" /\ p.status = "running" => (p.version # 0 <=> p.at >= 6)
  /\ op # "list_buckets" => p.items \subseteq Items
  /\ p.meta # NoMeta => op \in Readers

\* A request that has made its change has the version the change got.
Committed(r) ==
  LET b == Bucket(r) IN
  proc[r].version # 0 =>
    /\ proc[r].version \in DOMAIN log[b]
    /\ log[b][proc[r].version] = ChangeOf(r)

VersionsInv ==
  /\ \A b \in Buckets : stores[b].version = Len(log[b])
  /\ \A r \in Requests : Committed(r)
  /\ \A r, q \in Requests :
       Bucket(r) = Bucket(q) /\ proc[r].version = proc[q].version /\ proc[r].version # 0
         => r = q

\* The metadata m were written for object k of bucket b by a put.
Written(m, b, k) ==
  LET w == m.writer IN
    /\ w \in Requests /\ proc[w].version # 0
    /\ Ask(w).op = "put_object" /\ Bucket(w) = b /\ Ask(w).key = k
    /\ m = PutOf(w).meta

SourceInv ==
  /\ \A b \in Buckets : \A k \in Keys :
       stores[b].meta[k] # NoMeta => Written(stores[b].meta[k], b, k)
  /\ \A r \in Requests :
       proc[r].meta # NoMeta =>
         /\ Written(proc[r].meta, Bucket(r), Ask(r).key)
         /\ proc[r].version # 0 => proc[proc[r].meta.writer].version < proc[r].version

\* An object that is there is the one its last change has put.
NewestInv ==
  \A b \in Buckets : \A k \in stores[b].objects :
    /\ stores[b].meta[k] # NoMeta
    /\ \A i \in DOMAIN log[b] :
         i > proc[stores[b].meta[k].writer].version => ~Touches(log[b][i], k)

\* What a put has written is there until a later change touches it.
LastsInv ==
  \A r \in Requests :
    LET b == Bucket(r)
        k == Ask(r).key
    IN
    Ask(r).op = "put_object" /\ proc[r].version # 0 =>
      \/ \E w \in proc[r].version + 1 .. Len(log[b]) : Touches(log[b][w], k)
      \/ k \in stores[b].objects /\ stores[b].meta[k] = PutOf(r).meta

\* The blobs of objects and of puts on their way are there.
BlobsInv ==
  /\ NoDanglingObject
  /\ \A r \in Requests :
       Ask(r).op = "put_object" /\ proc[r].status = "running" /\ proc[r].at \in {5, 6}
         => Ask(r).content \in blobs \/ Shared(Ask(r).content)

\* The log tells the metadata of every object.
LogInv ==
  \A b \in Buckets : \A k \in Keys :
    MetaAfter(b, k, Len(log[b])) =
      IF k \in stores[b].objects THEN stores[b].meta[k] ELSE NoMeta

\* The metadata of object k were m at some moment of request r.
Was(r, k, m) ==
  \E v \in proc[r].began .. Len(log[Bucket(r)]) : MetaAfter(Bucket(r), k, v) = m

AllWere(r) == \A i \in proc[r].items : Was(r, i.key, i.meta)
Listed(r) ==
  \A k \in Keys : \/ Was(r, k, NoMeta) \/ k \in proc[r].todo
                  \/ \E i \in proc[r].items : i.key = k

\* What a reader has found was so at some moment of its request; what it is about
\* to read in the table of metadata was so, even when the object is gone by then.
Reading(r) ==
  LET p == proc[r]
      op == Ask(r).op
      k == Ask(r).key
      table == stores[Bucket(r)].meta
      running == p.status = "running"
  IN
  /\ p.began <= Len(log[Bucket(r)])
  /\ op \in Readers /\ running /\ p.at = 4 => Was(r, k, table[k])
  /\ op \in Readers /\ running /\ p.at > 4 =>
       Was(r, k, p.meta) /\ p.items = {Item(k, p.meta)}
  /\ op = "list_objects" /\ k = <<>> /\ running /\ p.at < 4 => p.items = {}
  /\ op = "list_objects" /\ k = <<>> /\ running /\ p.at = 4 =>
       /\ \A x \in p.todo : x \in Keys /\ Was(r, x, table[x])
       /\ AllWere(r) /\ Listed(r)
  /\ op \in {"head_object", "get_object"} /\ p.code = "ok" => AllWere(r)
  /\ op = "list_objects" /\ k = <<>> /\ p.code = "ok" =>
       AllWere(r) /\ Listed(r) /\ p.todo = {}
  /\ p.code = "NoSuchKey" => Was(r, k, NoMeta)

Announcing(r) ==
  /\ proc[r].status = "running"
  /\ \/ Ask(r).op = "put_object" /\ proc[r].at = 7
     \/ Ask(r).op = "delete_object" /\ proc[r].at = 6

\* Events are distinct, are changes, and are not yet those of a request that has
\* still to send its own.
EventsInv ==
  /\ \A i, j \in DOMAIN events : events[i] = events[j] => i = j
  /\ \A i \in DOMAIN events : events[i] \notin submitted
  /\ \A e \in Events :
       e \in submitted \/ (\E i \in DOMAIN events : events[i] = e) =>
         /\ e.version \in DOMAIN log[e.bucket] /\ log[e.bucket][e.version] = e.change
         /\ \A r \in Requests : Announcing(r) => ReplicateEvent(r) # e

Inv ==
  /\ ScenarioInv /\ ProcInv /\ StateInv
  /\ \A r \in Requests : Control(r)
  /\ VersionsInv /\ SourceInv /\ NewestInv /\ LastsInv /\ BlobsInv /\ LogInv
  /\ \A r \in Requests : Reading(r)
  /\ EventsInv

-------------------------------------------------------------------------------
(* Lemmas about the data *)

\* What a request asks for has its type.
LEMMA AskType ==
  ASSUME ScenarioInv, NEW r \in Requests
  PROVE  /\ Ask(r) \in Asks /\ Ask(r).op \in Operations /\ Bucket(r) \in Buckets
         /\ Ask(r).key \in Keys \cup {<<>>} /\ Ask(r).content \in Contents \cup {NoBody}
         /\ Ask(r).op \in Readers \cup {"put_object"} => Ask(r).key \in Keys
<1>1. scenario \in [ask : [Requests -> Asks], buckets : SUBSET Buckets,
                    faults : SUBSET Faults]
  BY ReplistoreAssumption DEF ScenarioInv
<1>2. Ask(r) \in Asks
  BY <1>1 DEF Ask
<1>3. Ask(r).op \in Readers \cup {"put_object"} => Ask(r).key \in Keys
  BY ReplistoreAssumption DEF ScenarioInv, Ask, Readers
<1> QED
  BY <1>2, <1>3 DEF Asks, Bucket

\* The programs of the operations.
LEMMA Programs ==
  /\ Program("list_buckets") = ListBuckets
  /\ Program("create_bucket") = CreateBucket
  /\ Program("head_bucket") = HeadBucket
  /\ Program("list_objects") = ListObject
  /\ Program("head_object") = HeadObject
  /\ Program("get_object") = GetObject
  /\ Program("put_object") = PutObject
  /\ Program("delete_object") = DeleteObject
  /\ Program("event") = EventReplicationReceived
BY Zenon DEF Program

\* The codes of the errors.
LEMMA S3Codes ==
  /\ S3Code("BucketAlreadyExists") = "BucketAlreadyExists"
  /\ S3Code("BucketNotFound") = "NoSuchBucket"
  /\ S3Code("ObjectNotFound") = "NoSuchKey"
  /\ S3Code("BlobDoesNotExist") = "NoSuchKey"
  /\ S3Code("StoreError") = "InternalError"
  /\ S3Code("Io") = "InternalError"
  /\ S3Code("BlobRead") = "InternalError"
  /\ S3Code("MailboxError") = "InternalError"
BY Zenon DEF S3Code

\* The step a program is at tells the operation and the place.
LEMMA Where ==
  ASSUME NEW op \in Operations \ {"get_bucket_location"}, NEW i \in DOMAIN Program(op),
         NEW step, Program(op)[i] = step
  PROVE  /\ step = "list_buckets" => op = "list_buckets" /\ i = 1
         /\ step = "check_new" => op = "create_bucket" /\ i = 1
         /\ step = "set_bucket" => op = "create_bucket" /\ i = 2
         /\ step = "bucket" => op \notin {"list_buckets", "create_bucket"} /\ i = 1
         /\ step = "open" =>
              op \notin {"list_buckets", "create_bucket", "head_bucket"} /\ i = 2
         /\ step = "lookup" => op \in Readers /\ i = 3
         /\ step = "meta" => op \in Readers /\ i = 4
         /\ step = "list" => op = "list_objects" /\ i = 3
         /\ step = "list_meta" => op = "list_objects" /\ i = 4
         /\ step = "upload" => op = "put_object" /\ i = 3
         /\ step = "rename" => op = "put_object" /\ i = 4
         /\ step = "stat" => op = "put_object" /\ i = 5
         /\ step = "commit_put" => op = "put_object" /\ i = 6
         /\ step = "announce" => \/ op = "put_object" /\ i = 7
                                 \/ op = "delete_object" /\ i = 6
         /\ step = "commit_delete" => op = "delete_object" /\ i = 5
         /\ step = "stat_blob" => \/ op = "get_object" /\ i = 5
                                  \/ op = "delete_object" /\ i = 7
         /\ step = "open_blob" => op = "get_object" /\ i = 6
         /\ step = "remove_blob" => op = "delete_object" /\ i = 8
         /\ step = "compare" => op = "event" /\ i = 3
<1>1. CASE op \in {"list_buckets", "create_bucket", "head_bucket", "event"}
  BY <1>1, Programs DEF ListBuckets, CreateBucket, HeadBucket, EventReplicationReceived,
              Readers
<1>2. CASE op \in {"list_objects", "head_object"}
  BY <1>2, Programs DEF ListObject, HeadObject, Readers
<1>3. CASE op = "get_object"
  BY <1>3, Programs DEF GetObject, Readers
<1>4. CASE op = "put_object"
  BY <1>4, Programs DEF PutObject, Readers
<1>5. CASE op = "delete_object"
  BY <1>5, Programs DEF DeleteObject, Readers
<1> QED
  BY <1>1, <1>2, <1>3, <1>4, <1>5 DEF Operations

\* The lengths of the programs.
LEMMA Lengths ==
  ASSUME NEW op \in Operations \ {"get_bucket_location"}
  PROVE  /\ DOMAIN Program(op) = 1..Len(Program(op)) /\ Len(Program(op)) \in Nat
         /\ op \notin {"list_buckets", "create_bucket", "head_bucket"} => Len(Program(op)) > 2
         /\ op \in {"list_buckets", "head_bucket"} => Len(Program(op)) = 1
         /\ op = "create_bucket" => Len(Program(op)) = 2
         /\ op = "event" => Len(Program(op)) = 3
         /\ op \in {"list_objects", "head_object"} => Len(Program(op)) = 4
         /\ op = "get_object" => Len(Program(op)) = 6
         /\ op = "put_object" => Len(Program(op)) = 7
         /\ op = "delete_object" => Len(Program(op)) = 8
<1>1. CASE op = "list_buckets"
  BY <1>1, Programs DEF ListBuckets
<1>2. CASE op = "create_bucket"
  BY <1>2, Programs DEF CreateBucket
<1>3. CASE op = "head_bucket"
  BY <1>3, Programs DEF HeadBucket
<1>4. CASE op = "event"
  BY <1>4, Programs DEF EventReplicationReceived
<1>5. CASE op = "list_objects"
  BY <1>5, Programs DEF ListObject
<1>6. CASE op = "head_object"
  BY <1>6, Programs DEF HeadObject
<1>7. CASE op = "get_object"
  BY <1>7, Programs DEF GetObject
<1>8. CASE op = "put_object"
  BY <1>8, Programs DEF PutObject
<1>9. CASE op = "delete_object"
  BY <1>9, Programs DEF DeleteObject
<1> QED
  BY <1>1, <1>2, <1>3, <1>4, <1>5, <1>6, <1>7, <1>8, <1>9 DEF Operations

LastStep(op, i) ==
  \/ op \in {"list_buckets", "head_bucket"} /\ i = 1
  \/ op = "create_bucket" /\ i = 2
  \/ op = "event" /\ i = 3
  \/ op \in {"list_objects", "head_object"} /\ i = 4
  \/ op = "get_object" /\ i = 6
  \/ op = "put_object" /\ i = 7
  \/ op = "delete_object" /\ i = 8

\* A step of a program is the last one, or another follows it.
LEMMA Follows ==
  ASSUME NEW op \in Operations \ {"get_bucket_location"}, NEW i \in DOMAIN Program(op)
  PROVE  /\ LastStep(op, i) => i = Len(Program(op))
         /\ ~LastStep(op, i) => i # Len(Program(op)) /\ i + 1 \in DOMAIN Program(op)
<1>1. i \in 1..Len(Program(op))
  BY Lengths
<1>2. i = Len(Program(op)) <=> LastStep(op, i)
  BY Lengths DEF LastStep, Operations
<1> QED
  BY <1>1, <1>2, Lengths

\* A name is its own prefix, and the empty name is one of all.
LEMMA SelfPrefix ==
  ASSUME NEW k \in Keys
  PROVE  IsPrefix(k, k) /\ k \in Under(k) /\ k \in Under(<<>>) /\ Remainder(<<>>, k) = k
<1>1. k \in Seq(STRING) /\ <<>> \in Seq(STRING) /\ Len(<<>>) = 0
  BY ReplistoreAssumption
<1>2. Len(k) \in Nat /\ k = [i \in 1..Len(k) |-> k[i]]
  BY <1>1, LenProperties
<1>3. SubSeq(k, 1, Len(k)) = k
  BY <1>1, <1>2, SubSeqFull
<1>4. SubSeq(<<>>, 1, 0) = SubSeq(k, 1, 0)
  BY <1>1, SubSeqEmpty
<1>5. IsPrefix(k, k) /\ IsPrefix(<<>>, k)
  BY <1>1, <1>2, <1>4 DEF IsPrefix
<1> QED
  BY <1>1, <1>3, <1>5 DEF Under, Remainder

\* The names of objects are names in a list of all.
LEMMA KeysAreNames == Keys \subseteq Names
<1> SUFFICES ASSUME NEW k \in Keys PROVE k \in Names
  OBVIOUS
<1>1. k = Remainder(<<>>, k)
  BY SelfPrefix
<1> QED
  BY <1>1 DEF Names

\* A set of natural numbers that is not empty has a least element.
LEMMA Least ==
  ASSUME NEW T, T \subseteq Nat, T # {}
  PROVE  \E x \in T : \A y \in T : x <= y
<1> DEFINE R == OpToRel(<, Nat)
<1>1. IsWellFoundedOn(R, Nat)
  BY NatLessThanWellFounded
<1>2. \A a, b \in Nat : a < b => <<a, b>> \in R
  BY DEF OpToRel
<1> HIDE DEF R
<1>3. \E x \in T : \A y \in T : ~(<<y, x>> \in R)
  BY <1>1, WFMin
<1>4. PICK x \in T : \A y \in T : ~(<<y, x>> \in R)
  BY <1>3
<1>5. ASSUME NEW y \in T PROVE x <= y
  <2>1. x \in Nat /\ y \in Nat
    BY <1>4
  <2>2. ~(y < x)
    BY <1>2, <1>4, <2>1
  <2> QED
    BY <2>1, <2>2
<1> QED
  BY <1>4, <1>5

\* A set of numbers up to n that is not empty has a greatest element.
LEMMA Greatest ==
  ASSUME NEW n \in Nat, NEW T, T \subseteq 1..n, T # {}
  PROVE  \E x \in T : \A y \in T : x >= y
<1> DEFINE S == {n - i : i \in T}
<1>1. S \subseteq Nat /\ S # {}
  <2>1. \A i \in T : i \in 1..n
    OBVIOUS
  <2>2. \A i \in 1..n : n - i \in Nat
    OBVIOUS
  <2>3. S \subseteq Nat
    BY <2>1, <2>2
  <2>4. PICK i \in T : TRUE
    OBVIOUS
  <2>5. n - i \in S
    OBVIOUS
  <2> QED
    BY <2>3, <2>5
<1> HIDE DEF S
<1>2. PICK m \in S : \A y \in S : m <= y
  BY <1>1, Least
<1>3. PICK i \in T : m = n - i
  BY <1>2 DEF S
<1>4. \A j \in T : n - i <= n - j
  BY <1>2, <1>3 DEF S
<1> QED
  BY <1>3, <1>4

\* The greatest element is what Max chooses.
LEMMA MaxProp ==
  ASSUME NEW n \in Nat, NEW T, T \subseteq 1..n, T # {}
  PROVE  Max(T) \in T /\ \A y \in T : Max(T) >= y
BY Greatest DEF Max

\* The upper bound of a set, if it is in the set, is its greatest element.
LEMMA MaxIsTop ==
  ASSUME NEW n \in Nat, NEW T, T \subseteq 1..n, n \in T
  PROVE  Max(T) = n
<1>1. Max(T) \in T /\ Max(T) >= n
  BY MaxProp
<1>2. \A i \in 1..n : i >= n => i = n
  OBVIOUS
<1> QED
  BY <1>1, <1>2

Touching(b, k, v) == {i \in 1..v : Touches(log[b][i], k)}

\* Later changes do not alter what the log tells of the time before them.
LEMMA PastKept ==
  ASSUME NEW b, NEW k, NEW v \in Nat, \A i \in 1..v : log'[b][i] = log[b][i]
  PROVE  MetaAfter(b, k, v)' = MetaAfter(b, k, v)
<1> DEFINE T == Touching(b, k, v)
<1>1. Touching(b, k, v)' = T
  BY DEF Touching, Touches
<1>2. T \subseteq 1..v
  BY DEF Touching
<1>3. T # {} => Max(T) \in 1..v
  BY <1>2, MaxProp
<1>4. T # {} => log'[b][Max(T)] = log[b][Max(T)]
  BY <1>3
<1>5. MetaAfter(b, k, v) = IF T = {} THEN NoMeta ELSE log[b][Max(T)].meta
  BY DEF MetaAfter, Touching
<1>6. MetaAfter(b, k, v)'
        = IF Touching(b, k, v)' = {} THEN NoMeta ELSE log'[b][Max(Touching(b, k, v)')].meta
  BY DEF MetaAfter, Touching
<1> HIDE DEF T
<1> QED
  BY <1>1, <1>4, <1>5, <1>6

\* A change that touches an object decides its metadata, another leaves them.
LEMMA Appended ==
  ASSUME NEW b, NEW k, NEW c, log[b] \in Seq(Changes), NEW n \in Nat, Len(log[b]) = n,
         log'[b] = Append(log[b], c)
  PROVE  /\ Touches(c, k) => MetaAfter(b, k, n + 1)' = c.meta
         /\ ~Touches(c, k) => MetaAfter(b, k, n + 1)' = MetaAfter(b, k, n)
<1> DEFINE T == Touching(b, k, n)
           U == Touching(b, k, n + 1)'
<1>1. /\ \A i \in 1..n : log'[b][i] = log[b][i]
      /\ log'[b][n + 1] = c
  BY AppendProperties
<1>2. U = {i \in 1..(n + 1) : Touches(log'[b][i], k)}
  BY DEF Touching, Touches
<1>3. MetaAfter(b, k, n + 1)' = IF U = {} THEN NoMeta ELSE log'[b][Max(U)].meta
  BY DEF MetaAfter, Touching
<1>4. MetaAfter(b, k, n) = IF T = {} THEN NoMeta ELSE log[b][Max(T)].meta
  BY DEF MetaAfter, Touching
<1>5. T \subseteq 1..n /\ T = {i \in 1..n : Touches(log[b][i], k)}
  BY DEF Touching
<1> HIDE DEF T, U
<1>6. ASSUME Touches(c, k) PROVE MetaAfter(b, k, n + 1)' = c.meta
  <2>1. n + 1 \in U /\ U # {}
    BY <1>1, <1>2, <1>6
  <2>2. U \subseteq 1..(n + 1)
    BY <1>2
  <2>3. n + 1 \in Nat
    OBVIOUS
  <2>4. Max(U) = n + 1
    BY <2>1, <2>2, <2>3, MaxIsTop, Zenon
  <2> QED
    BY <2>1, <2>4, <1>1, <1>3
<1>7. ASSUME ~Touches(c, k) PROVE MetaAfter(b, k, n + 1)' = MetaAfter(b, k, n)
  <2>1. \A i \in 1..(n + 1) : i \in 1..n \/ i = n + 1
    OBVIOUS
  <2>2. \A i \in 1..n : i \in 1..(n + 1)
    OBVIOUS
  <2>3. U = T
    BY <1>1, <1>2, <1>5, <1>7, <2>1, <2>2
  <2>4. T # {} => Max(T) \in 1..n
    BY <1>5, MaxProp
  <2>5. T # {} => log'[b][Max(T)] = log[b][Max(T)]
    BY <1>1, <2>4
  <2> QED
    BY <1>3, <1>4, <2>3, <2>5
<1> QED
  BY <1>6, <1>7

\* What was so at some moment of a request stays so.
LEMMA WasKept ==
  ASSUME NEW r \in Requests, NEW k, NEW m, NEW b, Bucket(r) = b, Bucket(r)' = b,
         log[b] \in Seq(Changes), proc[r].began \in Nat,
         \/ log'[b] = log[b]
         \/ \E c : log'[b] = Append(log[b], c),
         proc'[r].began = proc[r].began,
         Was(r, k, m)
  PROVE  Was(r, k, m)'
<1>1. /\ Len(log[b]) \in Nat /\ Len(log'[b]) \in Nat /\ Len(log[b]) <= Len(log'[b])
      /\ \A i \in 1..Len(log[b]) : log'[b][i] = log[b][i]
  <2>1. CASE log'[b] = log[b]
    BY <2>1, LenProperties
  <2>2. ASSUME NEW c, log'[b] = Append(log[b], c) PROVE <1>1!1
    BY <2>2, LenProperties, AppendProperties
  <2> QED
    BY <2>1, <2>2
<1>2. PICK v \in proc[r].began .. Len(log[b]) : MetaAfter(b, k, v) = m
  BY DEF Was
<1>3. v \in Nat /\ \A i \in 1..v : log'[b][i] = log[b][i]
  BY <1>1, <1>2
<1>4. MetaAfter(b, k, v)' = m
  BY <1>2, <1>3, PastKept
<1>5. v \in proc'[r].began .. Len(log'[b])
  BY <1>1, <1>2
<1> QED
  BY <1>4, <1>5 DEF Was

-------------------------------------------------------------------------------
(* Parts that a step leaves alone *)

\* What a request asks for does not change.
LEMMA SameAsk ==
  ASSUME UNCHANGED scenario, NEW r
  PROVE  /\ Ask(r)' = Ask(r) /\ Bucket(r)' = Bucket(r) /\ HasBody(r)' = HasBody(r)
         /\ PutOf(r)' = PutOf(r) /\ DeleteOf(r)' = DeleteOf(r)
         /\ ChangeOf(r)' = ChangeOf(r)
BY DEF Ask, Bucket, HasBody, PutOf, DeleteOf, ChangeOf

\* A request that does nothing stays where it is in its program.
LEMMA SameControl ==
  ASSUME NEW q, Control(q), UNCHANGED scenario, proc'[q] = proc[q]
  PROVE  Control(q)'
BY SameAsk DEF Control

\* What was so at some moment of a request does not depend on what it does.
LEMMA SameWas ==
  ASSUME NEW q, UNCHANGED <<scenario, log>>, proc'[q].began = proc[q].began
  PROVE  \A k, m : Was(q, k, m)' <=> Was(q, k, m)
<1>1. \A b, k, v : MetaAfter(b, k, v)' = MetaAfter(b, k, v)
  BY DEF MetaAfter, Touches
<1> QED
  BY <1>1, SameAsk DEF Was

\* A request that does nothing knows what it knew before.
LEMMA SameReading ==
  ASSUME NEW q, Reading(q), UNCHANGED <<scenario, stores, log>>, proc'[q] = proc[q]
  PROVE  Reading(q)'
<1>1. \A k, m : Was(q, k, m)' <=> Was(q, k, m)
  BY SameWas
<1>2. (AllWere(q)' <=> AllWere(q)) /\ (Listed(q)' <=> Listed(q))
  <2>1. \A i : Was(q, i.key, i.meta)' <=> Was(q, i.key, i.meta)
    BY <1>1
  <2> QED
    BY <1>1, <2>1 DEF AllWere, Listed
<1> QED
  BY <1>1, <1>2, SameAsk DEF Reading

\* The versions of the changes that were made do not change.
LEMMA SameVersions ==
  ASSUME VersionsInv, UNCHANGED <<scenario, stores, log>>,
         \A q \in Requests : proc'[q].version = proc[q].version
  PROVE  VersionsInv'
BY SameAsk DEF VersionsInv, Committed

\* What a put has written stays written.
LEMMA SameWritten ==
  ASSUME UNCHANGED scenario, NEW m, NEW b, NEW k, Written(m, b, k),
         \A q \in Requests : proc[q].version # 0 => proc'[q].version = proc[q].version
  PROVE  Written(m, b, k)'
BY SameAsk DEF Written

\* A request may read the metadata of its object before it makes its change.
LEMMA SameSource ==
  ASSUME SourceInv, UNCHANGED <<scenario, stores>>,
         \A q \in Requests : proc'[q].version = proc[q].version,
         \A q \in Requests :
           \/ proc'[q].meta = proc[q].meta
           \/ /\ proc[q].version = 0
              /\ Bucket(q) \in Buckets /\ Ask(q).key \in Keys
              /\ proc'[q].meta = stores[Bucket(q)].meta[Ask(q).key]
  PROVE  SourceInv'
<1>1. \A m, b, k : Written(m, b, k) => Written(m, b, k)'
  BY SameWritten
<1>2. \A b \in Buckets : \A k \in Keys :
        (stores[b].meta[k] # NoMeta => Written(stores[b].meta[k], b, k))'
  <2> SUFFICES ASSUME NEW b \in Buckets, NEW k \in Keys, stores[b].meta[k] # NoMeta
               PROVE  Written(stores[b].meta[k], b, k)'
    OBVIOUS
  <2>1. PICK m : m = stores[b].meta[k]
    OBVIOUS
  <2>2. Written(m, b, k)'
    BY <1>1, <2>1 DEF SourceInv
  <2> QED
    BY <2>1, <2>2
<1>3. ASSUME NEW q \in Requests, proc'[q].meta # NoMeta
      PROVE  (/\ Written(proc[q].meta, Bucket(q), Ask(q).key)
              /\ proc[q].version # 0
                   => proc[proc[q].meta.writer].version < proc[q].version)'
  <2>1. PICK m, b, k : m = proc'[q].meta /\ b = Bucket(q) /\ k = Ask(q).key
    OBVIOUS
  <2>2. Written(m, b, k)
    BY <1>3, <2>1 DEF SourceInv
  <2>3. Written(m, b, k)'
    BY <1>1, <2>2
  <2>4. Written(proc[q].meta, Bucket(q), Ask(q).key)'
    BY <2>1, <2>3, SameAsk
  <2>5. m.writer \in Requests
    BY <2>2 DEF Written
  <2>6. proc'[q].version # 0 => proc'[m.writer].version < proc'[q].version
    BY <1>3, <2>1, <2>5 DEF SourceInv
  <2> QED
    BY <2>1, <2>4, <2>6
<1> QED
  BY <1>2, <1>3 DEF SourceInv

\* The objects are still the newest.
LEMMA SameNewest ==
  ASSUME NewestInv, SourceInv, StateInv, UNCHANGED <<stores, log>>,
         \A q \in Requests : proc'[q].version = proc[q].version
  PROVE  NewestInv'
<1>1. ASSUME NEW b \in Buckets, NEW k \in stores[b].objects
      PROVE  stores[b].meta[k].writer \in Requests
  <2>1. k \in Keys
    BY DEF StateInv, Stores
  <2> QED
    BY <2>1 DEF NewestInv, SourceInv, Written
<1> QED
  BY <1>1 DEF NewestInv, Touches

\* What puts have written is still there.
LEMMA SameLasts ==
  ASSUME LastsInv, UNCHANGED <<scenario, stores, log>>,
         \A q \in Requests : proc'[q].version = proc[q].version
  PROVE  LastsInv'
BY SameAsk DEF LastsInv, Touches

\* The log and what it tells are left alone.
LEMMA SameLog ==
  ASSUME LogInv, UNCHANGED <<stores, log>>
  PROVE  LogInv'
BY DEF LogInv, MetaAfter, Touches

\* The mailboxes are left alone or lost, and nobody comes to announce a change.
LEMMA SameEvents ==
  ASSUME EventsInv, UNCHANGED <<scenario, log, submitted>>,
         events' = events \/ events' = <<>>,
         \A q \in Requests :
           Announcing(q)' => Announcing(q) /\ proc'[q].version = proc[q].version
  PROVE  EventsInv'
<1>1. \A q \in Requests : Announcing(q)' =>
        Announcing(q) /\ ReplicateEvent(q)' = ReplicateEvent(q)
  BY SameAsk DEF ReplicateEvent, EventOf
<1>2. \A i \in DOMAIN events' : i \in DOMAIN events /\ events'[i] = events[i]
  OBVIOUS
<1>3. \A e \in Events : (\E i \in DOMAIN events' : events'[i] = e)
                          => \E i \in DOMAIN events : events[i] = e
  BY <1>2
<1> QED
  BY <1>1, <1>2, <1>3 DEF EventsInv

\* The blobs of objects are there as long as none is removed.
LEMMA SameBlobs ==
  ASSUME NoDanglingObject, UNCHANGED <<scenario, stores>>, blobs \subseteq blobs'
  PROVE  NoDanglingObject'
<1>1. \A c : Shared(c)' = Shared(c)
  BY SameAsk DEF Shared
<1> QED
  BY <1>1 DEF NoDanglingObject

\* A step of one request that changes no store: what is left to show.
LEMMA Calm ==
  ASSUME Inv, NEW r \in Requests, NEW n \in Procs, proc' = [proc EXCEPT ![r] = n],
         UNCHANGED <<scenario, stores, log>>, StateInv', BlobsInv', EventsInv',
         n.version = proc[r].version,
         \/ n.meta = proc[r].meta
         \/ /\ n.version = 0 /\ Ask(r).key \in Keys
            /\ n.meta = stores[Bucket(r)].meta[Ask(r).key],
         Control(r)', Reading(r)'
  PROVE  Inv'
<1>1. proc'[r] = n /\ ProcInv' /\ \A q \in Requests : q # r => proc'[q] = proc[q]
  BY DEF Inv, ProcInv
<1>2. \A q \in Requests : proc'[q].version = proc[q].version
  BY <1>1
<1>3. ScenarioInv' /\ VersionsInv' /\ NewestInv' /\ LastsInv' /\ LogInv'
  BY <1>2, SameVersions, SameNewest, SameLasts, SameLog DEF Inv, ScenarioInv
<1>4. \A q \in Requests : Control(q)' /\ Reading(q)'
  BY <1>1, SameControl, SameReading DEF Inv
<1>5. SourceInv'
  <2>1. Bucket(r) \in Buckets
    BY AskType DEF Inv
  <2> QED
    BY <1>1, <1>2, <2>1, SameSource DEF Inv
<1> QED
  BY <1>1, <1>3, <1>4, <1>5 DEF Inv

\* The blobs that are needed are there as long as none is removed.
LEMMA KeptBlobs ==
  ASSUME Inv, NEW r \in Requests, NEW n \in Procs, proc' = [proc EXCEPT ![r] = n],
         UNCHANGED <<scenario, stores>>, blobs \subseteq blobs',
         Ask(r).op = "put_object" /\ n.status = "running" /\ n.at \in {5, 6}
           => Ask(r).content \in blobs' \/ Shared(Ask(r).content)
  PROVE  BlobsInv'
<1>1. proc'[r] = n /\ \A q \in Requests : q # r => proc'[q] = proc[q]
  BY DEF Inv, ProcInv
<1>2. NoDanglingObject'
  BY SameBlobs DEF Inv, BlobsInv
<1>3. \A c : Shared(c)' = Shared(c)
  BY SameAsk DEF Shared
<1> QED
  BY <1>1, <1>2, <1>3, SameAsk DEF Inv, BlobsInv

\* A step of one request that changes no store, removes no blob and sends no event.
LEMMA Quiet ==
  ASSUME Inv, NEW r \in Requests, NEW n \in Procs, proc' = [proc EXCEPT ![r] = n],
         UNCHANGED <<scenario, stores, log, submitted>>, blobs \subseteq blobs',
         events' = events \/ events' = <<>>,
         StateInv',
         n.version = proc[r].version,
         \/ n.meta = proc[r].meta
         \/ /\ n.version = 0 /\ Ask(r).key \in Keys
            /\ n.meta = stores[Bucket(r)].meta[Ask(r).key],
         Control(r)', Reading(r)', ~Announcing(r)',
         Ask(r).op = "put_object" /\ n.status = "running" /\ n.at \in {5, 6}
           => Ask(r).content \in blobs' \/ Shared(Ask(r).content)
  PROVE  Inv'
<1>1. proc'[r] = n /\ \A q \in Requests : q # r => proc'[q] = proc[q]
  BY DEF Inv, ProcInv
<1>2. \A q \in Requests : proc'[q].version = proc[q].version
  BY <1>1
<1>3. \A q \in Requests : q # r => (Announcing(q)' => Announcing(q))
  BY <1>1, SameAsk DEF Announcing
<1>4. EventsInv'
  BY <1>2, <1>3, SameEvents DEF Inv
<1>5. BlobsInv'
  BY KeptBlobs
<1> QED
  BY <1>4, <1>5, Calm

-------------------------------------------------------------------------------
(* Steps of a request *)

\* What is known of a request that is about to take a step.
LEMMA Place ==
  ASSUME Inv, NEW r \in Requests, NEW step, At(r, step)
  PROVE  /\ proc[r] \in Procs /\ proc[r].status = "running" /\ proc[r].code = "none"
         /\ Ask(r).op \in Operations \ {"get_bucket_location"} /\ HasBody(r)
         /\ proc[r].at \in DOMAIN Program(Ask(r).op)
         /\ Program(Ask(r).op)[proc[r].at] = step
         /\ Bucket(r) \in Buckets
         /\ Control(r) /\ Reading(r)
         /\ LastStep(Ask(r).op, proc[r].at) => proc[r].at = Len(Program(Ask(r).op))
         /\ ~LastStep(Ask(r).op, proc[r].at) =>
              /\ proc[r].at # Len(Program(Ask(r).op))
              /\ proc[r].at + 1 \in DOMAIN Program(Ask(r).op)
<1>1. proc[r] \in Procs /\ proc[r].status = "running" /\ Control(r) /\ Reading(r)
  BY DEF Inv, ProcInv, At
<1>2. Ask(r).op \in Operations /\ Bucket(r) \in Buckets
  BY AskType DEF Inv
<1>3. /\ Ask(r).op \in Operations \ {"get_bucket_location"}
      /\ proc[r].at \in DOMAIN Program(Ask(r).op)
  BY <1>1, <1>2 DEF Control
<1> QED
  BY <1>1, <1>2, <1>3, Follows DEF Control, At

Moved(r, p) ==
  LET n == proc'[r] IN
  /\ proc' = [proc EXCEPT ![r] = n] /\ n \in Procs
  /\ n.meta = p.meta /\ n.version = p.version /\ n.todo = p.todo
  /\ n.items = p.items /\ n.began = p.began
  /\ p.at = Len(Program(Ask(r).op)) => n.status = "done" /\ n.code = "ok"
  /\ p.at # Len(Program(Ask(r).op)) =>
       n.status = p.status /\ n.code = p.code /\ n.at = p.at + 1

\* A request that goes on with its program, or ends it.
LEMMA Proceeded ==
  ASSUME Inv, NEW r \in Requests, NEW p \in Procs, Proceed(r, p)
  PROVE  Moved(r, p)
<1> DEFINE n == IF p.at = Len(Program(Ask(r).op))
                THEN Answered(p, "ok") ELSE [p EXCEPT !.at = @ + 1]
<1>1. proc' = [proc EXCEPT ![r] = n]
  BY DEF Proceed
<1>2. proc'[r] = n
  BY <1>1 DEF Inv, ProcInv
<1>3. n \in Procs
  <2>1. p.at \in Nat /\ "ok" \in Codes
    BY DEF Procs, Codes
  <2>2. [p EXCEPT !.at = @ + 1] \in Procs
    BY <2>1 DEF Procs
  <2>3. Answered(p, "ok") \in Procs
    BY <2>1 DEF Procs, Answered
  <2> QED
    BY <2>2, <2>3
<1>4. /\ n.meta = p.meta /\ n.version = p.version /\ n.todo = p.todo
      /\ n.items = p.items /\ n.began = p.began
      /\ p.at = Len(Program(Ask(r).op)) => n.status = "done" /\ n.code = "ok"
      /\ p.at # Len(Program(Ask(r).op)) =>
           n.status = p.status /\ n.code = p.code /\ n.at = p.at + 1
  BY DEF Procs, Answered
<1> HIDE DEF n
<1> QED
  BY <1>1, <1>2, <1>3, <1>4 DEF Moved

\* A request that fails, with the code for the error.
LEMMA Failed ==
  ASSUME Inv, NEW r \in Requests, NEW error, Fail(r, error), proc[r].status = "running",
         S3Code(error) \in Codes \ {"none", "ok"},
         S3Code(error) = "NoSuchKey" => Was(r, Ask(r).key, NoMeta),
         UNCHANGED <<scenario, stores, log, submitted, blobs>>,
         events' = events \/ events' = <<>>, StateInv'
  PROVE  Inv'
<1> DEFINE c == S3Code(error)
           n == Answered(proc[r], c)
<1> HIDE DEF c
<1>1. proc' = [proc EXCEPT ![r] = n]
  BY DEF Fail, c
<1>2. proc[r] \in Procs /\ Control(r) /\ Reading(r)
  BY DEF Inv, ProcInv
<1>3. c \in Codes /\ c # "ok"
  BY DEF c
<1>4. /\ n \in Procs /\ n.status = "done" /\ n.code = c /\ n.meta = proc[r].meta
      /\ n.version = proc[r].version /\ n.items = proc[r].items /\ n.began = proc[r].began
  BY <1>2, <1>3 DEF Procs, Answered
<1> HIDE DEF n
<1>5. proc'[r] = n
  BY <1>1 DEF Inv, ProcInv
<1>6. Control(r)'
  BY <1>2, <1>3, <1>4, <1>5, SameAsk DEF Control
<1>7. Reading(r)'
  <2>1. Bucket(r) \in Buckets
    BY AskType DEF Inv
  <2>2. log[Bucket(r)] \in Seq(Changes)
    BY <2>1 DEF Inv, StateInv
  <2>3. c = "NoSuchKey" => Was(r, Ask(r).key, NoMeta)
    BY DEF c
  <2>4. c = "NoSuchKey" => Was(r, Ask(r).key, NoMeta)'
    BY <2>3, <1>2, <1>4, <1>5, <2>2, WasKept, SameAsk DEF Procs
  <2> QED
    BY <1>2, <1>3, <1>4, <1>5, <2>4, SameAsk DEF Reading
<1>8. ~Announcing(r)'
  BY <1>4, <1>5 DEF Announcing
<1> QED
  BY <1>1, <1>4, <1>6, <1>7, <1>8, Quiet

\* The rest of the state is left alone.
LEMMA SameState ==
  ASSUME StateInv, UNCHANGED <<disk, replication, actors, crashes>>
  PROVE  StateInv'
BY DEF StateInv, disk, replication

\* The first steps of a program: nothing is read that is kept.
LEMMA Opening ==
  ASSUME Inv, NEW r \in Requests, NEW step \in {"check_new", "set_bucket", "bucket", "open"},
         At(r, step), Proceed(r, proc[r]),
         UNCHANGED <<scenario, stores, log, submitted, blobs, events>>, StateInv'
  PROVE  Inv'
<1>1. /\ proc[r] \in Procs /\ proc[r].status = "running" /\ proc[r].code = "none"
      /\ proc[r].at \in DOMAIN Program(Ask(r).op) /\ HasBody(r)
      /\ Ask(r).op \in Operations \ {"get_bucket_location"}
      /\ Control(r) /\ Reading(r)
  BY Place
<1>2. /\ proc[r].at = 1 \/ proc[r].at = 2
      /\ step = "check_new" => Ask(r).op = "create_bucket" /\ proc[r].at = 1
      /\ step = "set_bucket" => Ask(r).op = "create_bucket" /\ proc[r].at = 2
      /\ step = "bucket" => Ask(r).op \notin {"list_buckets", "create_bucket"}
      /\ step = "open" => Ask(r).op \notin {"list_buckets", "create_bucket", "head_bucket"}
  BY Place, Where
<1>3. /\ DOMAIN Program(Ask(r).op) = 1..Len(Program(Ask(r).op))
      /\ Len(Program(Ask(r).op)) \in Nat
      /\ Ask(r).op \notin {"list_buckets", "create_bucket", "head_bucket"}
           => Len(Program(Ask(r).op)) > 2
  BY <1>1, Lengths
<1> DEFINE n == proc'[r]
<1>4. /\ proc' = [proc EXCEPT ![r] = n] /\ n \in Procs
      /\ n.meta = proc[r].meta /\ n.version = proc[r].version
      /\ n.todo = proc[r].todo /\ n.items = proc[r].items /\ n.began = proc[r].began
      /\ proc[r].at = Len(Program(Ask(r).op)) => n.status = "done" /\ n.code = "ok"
      /\ proc[r].at # Len(Program(Ask(r).op)) =>
           n.status = "running" /\ n.code = "none" /\ n.at = proc[r].at + 1
  <2>1. Moved(r, proc[r])
    BY <1>1, Proceeded
  <2> QED
    BY <1>1, <2>1 DEF Moved
<1> HIDE DEF n
<1>5. n.code = "ok" => Ask(r).op \in {"list_buckets", "create_bucket", "head_bucket"}
  BY <1>1, <1>2, <1>3, <1>4
<1>6. n.status = "running" => n.at \in DOMAIN Program(Ask(r).op) /\ n.at \in {2, 3}
  BY <1>1, <1>2, <1>3, <1>4
<1>7. Control(r)'
  BY <1>1, <1>2, <1>4, <1>5, <1>6, SameAsk DEF Control, n
<1>8. Reading(r)'
  BY <1>1, <1>2, <1>4, <1>5, <1>6, SameAsk DEF Reading, Readers, n
<1>9. ~Announcing(r)'
  BY <1>4, <1>6 DEF Announcing, n
<1>10. n.status = "running" => n.at \notin {5, 6}
  BY <1>6
<1> QED
  BY <1>4, <1>10, <1>7, <1>8, <1>9, Quiet

\* What the store of a bucket has of an object now is so at a moment of a request.
LEMMA WasNow ==
  ASSUME Inv, NEW r \in Requests, NEW k \in Keys
  PROVE  Was(r, k, IF k \in Entries(r).objects THEN Entries(r).meta[k] ELSE NoMeta)
<1>1. Bucket(r) \in Buckets /\ Reading(r) /\ proc[r].began \in Nat
  BY AskType DEF Inv, ProcInv, Procs
<1>2. Len(log[Bucket(r)]) \in Nat
  BY <1>1, LenProperties DEF Inv, StateInv
<1>3. Len(log[Bucket(r)]) \in proc[r].began .. Len(log[Bucket(r)])
  BY <1>1, <1>2 DEF Reading
<1>4. MetaAfter(Bucket(r), k, Len(log[Bucket(r)]))
        = IF k \in Entries(r).objects THEN Entries(r).meta[k] ELSE NoMeta
  BY <1>1 DEF Inv, LogInv, Entries
<1> QED
  BY <1>3, <1>4 DEF Was

\* The buckets are read.
LEMMA ReadBucketsStep ==
  ASSUME Inv, NEW r \in Requests, ReadBuckets(r)
  PROVE  Inv'
<1>1. /\ proc[r] \in Procs /\ proc[r].status = "running"
      /\ Control(r) /\ Reading(r)
      /\ Ask(r).op = "list_buckets" /\ proc[r].at = 1
  BY Place, Where DEF ReadBuckets
<1>2. proc[r].at = Len(Program(Ask(r).op))
  BY <1>1, Place DEF LastStep, ReadBuckets
<1>p. PICK p : p = [proc[r] EXCEPT !.items = buckets]
  OBVIOUS
<1> DEFINE n == proc'[r]
<1>3. /\ p \in Procs /\ p.at = proc[r].at /\ p.meta = proc[r].meta /\ p.version = proc[r].version
      /\ p.began = proc[r].began
  BY <1>1, <1>p DEF Procs, Inv, StateInv
<1>4. Proceed(r, p) /\ UNCHANGED <<scenario, actors, disk, replication, crashes>>
  BY <1>p DEF ReadBuckets
<1>5. /\ proc' = [proc EXCEPT ![r] = n] /\ n \in Procs
      /\ n.meta = proc[r].meta /\ n.version = proc[r].version /\ n.began = proc[r].began
      /\ n.status = "done" /\ n.code = "ok"
  <2>1. Moved(r, p)
    BY <1>3, <1>4, Proceeded
  <2> QED
    BY <1>2, <1>3, <2>1 DEF Moved
<1>6. StateInv' /\ UNCHANGED <<scenario, stores, log, submitted, blobs, events>>
  BY <1>4, SameState DEF Inv, disk, replication
<1> HIDE DEF n
<1>7. Control(r)'
  BY <1>1, <1>5, <1>6, SameAsk DEF Control, n
<1>8. Reading(r)'
  BY <1>1, <1>5, <1>6, SameAsk DEF Reading, Readers, n
<1>9. ~Announcing(r)'
  BY <1>5 DEF Announcing, n
<1> QED
  BY <1>5, <1>6, <1>7, <1>8, <1>9, Quiet

\* A new bucket is checked and entered, an old one looked up and opened.
LEMMA OpeningSteps ==
  ASSUME Inv, NEW r \in Requests,
         CheckNew(r) \/ SetBucket(r) \/ CheckBucket(r) \/ GetOrCreateKeyValueStore(r)
  PROVE  Inv'
<1>0. Bucket(r) \in Buckets
  BY AskType DEF Inv
<1>1. CASE CheckNew(r)
  <2>1. StateInv' /\ UNCHANGED <<scenario, stores, log, submitted, blobs, events>>
    BY <1>1, SameState DEF Inv, CheckNew, disk, replication
  <2>2. proc[r].status = "running" /\ At(r, "check_new")
    BY <1>1 DEF CheckNew, At
  <2>3. CASE Fail(r, "BucketAlreadyExists")
    BY <2>1, <2>2, <2>3, Failed, S3Codes DEF Codes
  <2>4. CASE Proceed(r, proc[r])
    BY <2>1, <2>2, <2>4, Opening
  <2> QED
    BY <1>1, <2>3, <2>4 DEF CheckNew
<1>2. CASE SetBucket(r)
  <2>1. StateInv' /\ UNCHANGED <<scenario, stores, log, submitted, blobs, events>>
    BY <1>0, <1>2 DEF Inv, StateInv, SetBucket, replication
  <2> QED
    BY <1>2, <2>1, Opening DEF SetBucket
<1>3. CASE CheckBucket(r)
  <2>1. StateInv' /\ UNCHANGED <<scenario, stores, log, submitted, blobs, events>>
    BY <1>3, SameState DEF Inv, CheckBucket, disk, replication
  <2>2. proc[r].status = "running" /\ At(r, "bucket")
    BY <1>3 DEF CheckBucket, At
  <2>3. CASE Fail(r, "BucketNotFound")
    BY <2>1, <2>2, <2>3, Failed, S3Codes DEF Codes
  <2>4. CASE Proceed(r, proc[r])
    BY <2>1, <2>2, <2>4, Opening
  <2> QED
    BY <1>3, <2>3, <2>4 DEF CheckBucket
<1>4. CASE GetOrCreateKeyValueStore(r)
  <2>1. actors' \in [Buckets -> {"none", "running", "dead"}]
    BY <1>0, <1>4 DEF Inv, StateInv, GetOrCreateKeyValueStore
  <2>2. StateInv' /\ UNCHANGED <<scenario, stores, log, submitted, blobs, events>>
    BY <1>4, <2>1 DEF Inv, StateInv, GetOrCreateKeyValueStore, disk, replication
  <2> QED
    BY <1>4, <2>2, Opening DEF GetOrCreateKeyValueStore
<1> QED
  BY <1>1, <1>2, <1>3, <1>4

\* An object is found or not; its metadata were what they are in the table.
LEMMA LookupStep ==
  ASSUME Inv, NEW r \in Requests, Lookup(r)
  PROVE  Inv'
<1>1. /\ proc[r] \in Procs /\ proc[r].status = "running" /\ proc[r].code = "none"
      /\ Control(r) /\ Reading(r) /\ HasBody(r)
      /\ Ask(r).op \in Readers /\ proc[r].at = 3
  BY Place, Where DEF Lookup, AtStore
<1>2. 4 \in DOMAIN Program(Ask(r).op) /\ proc[r].at # Len(Program(Ask(r).op))
  <2>1. ~LastStep(Ask(r).op, proc[r].at)
    BY <1>1 DEF LastStep, Readers
  <2> QED
    BY <1>1, <2>1, Place DEF Lookup, AtStore
<1>3. Ask(r).key \in Keys
  BY <1>1, AskType DEF Inv
<1>4. StateInv' /\ UNCHANGED <<scenario, stores, log, submitted, blobs, events>>
  BY SameState DEF Inv, Lookup, disk, replication
<1>5. ASSUME Ask(r).key \notin Entries(r).objects, Fail(r, "ObjectNotFound") PROVE Inv'
  <2>1. Was(r, Ask(r).key, NoMeta)
    BY <1>3, <1>5, WasNow
  <2> QED
    BY <1>1, <1>4, <1>5, <2>1, Failed, S3Codes DEF Codes
<1>6. ASSUME Ask(r).key \in Entries(r).objects, Proceed(r, proc[r]) PROVE Inv'
  <2> DEFINE n == proc'[r]
  <2>1. Was(r, Ask(r).key, stores[Bucket(r)].meta[Ask(r).key])
    BY <1>3, <1>6, WasNow DEF Entries
  <2>2. Moved(r, proc[r])
    BY <1>1, <1>6, Proceeded
  <2>3. /\ proc' = [proc EXCEPT ![r] = n] /\ n \in Procs
        /\ n.meta = proc[r].meta /\ n.version = proc[r].version
        /\ n.items = proc[r].items /\ n.began = proc[r].began
        /\ n.status = "running" /\ n.code = "none" /\ n.at = 4
    BY <1>1, <1>2, <2>2 DEF Moved
  <2> HIDE DEF n
  <2>4. Was(r, Ask(r).key, stores[Bucket(r)].meta[Ask(r).key])'
    BY <1>4, <2>1, <2>3, SameWas, SameAsk DEF n
  <2>5. Control(r)'
    BY <1>1, <1>2, <1>4, <2>3, SameAsk DEF Control, Readers, n
  <2>6. Reading(r)'
    BY <1>1, <1>4, <2>3, <2>4, SameAsk DEF Reading, Readers, n
  <2>7. ~Announcing(r)' /\ n.at \notin {5, 6}
    BY <2>3 DEF Announcing, n
  <2> QED
    BY <1>4, <2>3, <2>5, <2>6, <2>7, Quiet
<1> QED
  BY <1>5, <1>6 DEF Lookup

\* The metadata a reader gets were those of its object.
LEMMA ReadMetaStep ==
  ASSUME Inv, NEW r \in Requests, ReadMeta(r)
  PROVE  Inv'
<1>1. /\ proc[r] \in Procs /\ proc[r].status = "running" /\ proc[r].code = "none"
      /\ Control(r) /\ Reading(r) /\ HasBody(r) /\ Bucket(r) \in Buckets
      /\ Ask(r).op \in Readers /\ proc[r].at = 4
  BY Place, Where DEF ReadMeta, AtStore
<1>2. /\ Ask(r).op = "head_object" => Len(Program(Ask(r).op)) = 4
      /\ Ask(r).op # "head_object" =>
           4 # Len(Program(Ask(r).op)) /\ 5 \in DOMAIN Program(Ask(r).op)
  <2>1. Ask(r).op = "head_object" <=> LastStep(Ask(r).op, proc[r].at)
    BY <1>1 DEF LastStep, Readers
  <2>2. proc[r].at + 1 = 5 /\ At(r, "meta")
    BY <1>1 DEF ReadMeta, AtStore
  <2>3. /\ LastStep(Ask(r).op, proc[r].at) => proc[r].at = Len(Program(Ask(r).op))
        /\ ~LastStep(Ask(r).op, proc[r].at) =>
              /\ proc[r].at # Len(Program(Ask(r).op))
              /\ proc[r].at + 1 \in DOMAIN Program(Ask(r).op)
    BY <2>2, Place
  <2> QED
    BY <1>1, <2>1, <2>2, <2>3
<1>3. Ask(r).key \in Keys
  BY <1>1, AskType DEF Inv
<1>4. StateInv' /\ UNCHANGED <<scenario, stores, log, submitted, blobs, events>>
  BY SameState DEF Inv, ReadMeta, disk, replication
<1>5. PICK k, m : k = Ask(r).key /\ m = stores[Bucket(r)].meta[Ask(r).key]
  OBVIOUS
<1>6. PICK p : p = [proc[r] EXCEPT !.meta = m, !.items = {Item(k, m)}]
  OBVIOUS
<1>7. Proceed(r, p)
  BY <1>3, <1>5, <1>6 DEF ReadMeta, meta_to_obj, Entries
<1>8. m \in Maybe /\ {Item(k, m)} \in SUBSET Items
  <2>1. m \in Maybe
    BY <1>1, <1>3, <1>5 DEF Inv, StateInv, Stores
  <2> QED
    BY <1>3, <1>5, <2>1, KeysAreNames DEF Items, Item, Maybe
<1>9. /\ p \in Procs /\ p.at = 4 /\ p.meta = m /\ p.items = {Item(k, m)}
      /\ p.version = proc[r].version /\ p.began = proc[r].began
      /\ p.status = "running" /\ p.code = "none"
  BY <1>1, <1>6, <1>8 DEF Procs
<1> DEFINE n == proc'[r]
<1>10. Moved(r, p)
  BY <1>7, <1>9, Proceeded
<1>11. /\ proc' = [proc EXCEPT ![r] = n] /\ n \in Procs
       /\ n.meta = m /\ n.version = proc[r].version
       /\ n.items = {Item(k, m)} /\ n.began = proc[r].began
       /\ Ask(r).op = "head_object" => n.status = "done" /\ n.code = "ok"
       /\ Ask(r).op # "head_object" => n.status = "running" /\ n.code = "none" /\ n.at = 5
  BY <1>2, <1>9, <1>10 DEF Moved
<1> HIDE DEF n
<1>12. Was(r, k, m)'
  <2>1. Was(r, k, m)
    BY <1>1, <1>5 DEF Reading
  <2> QED
    BY <1>4, <1>11, <2>1, SameWas DEF n
<1>13. proc[r].version = 0
  BY <1>1 DEF Control, Readers
<1>14. Control(r)'
  BY <1>1, <1>2, <1>4, <1>8, <1>11, <1>13, SameAsk DEF Control, Readers, n
<1>15. Reading(r)'
  <2>1. \A i \in {Item(k, m)} : i.key = k /\ i.meta = m
    BY DEF Item
  <2>2. AllWere(r)'
    BY <1>11, <1>12, <2>1 DEF AllWere, n
  <2> QED
    BY <1>1, <1>4, <1>5, <1>11, <1>12, <2>2, SameAsk DEF Reading, Readers, n
<1>16. ~Announcing(r)'
  BY <1>11 DEF Announcing, n
<1>17. Ask(r).op # "put_object"
  BY <1>1 DEF Readers
<1> QED
  BY <1>3, <1>4, <1>5, <1>11, <1>13, <1>14, <1>15, <1>16, <1>17, Quiet

\* A step at the blob store, or one that compares versions, changes no locals.
LEMMA Advance ==
  ASSUME Inv, NEW r \in Requests,
         NEW step \in {"upload", "rename", "stat", "stat_blob", "open_blob",
                       "remove_blob", "compare"},
         At(r, step), Proceed(r, proc[r]), UNCHANGED <<scenario, stores, log>>
  PROVE  /\ proc' = [proc EXCEPT ![r] = proc'[r]] /\ proc'[r] \in Procs
         /\ proc'[r].version = proc[r].version /\ proc'[r].meta = proc[r].meta
         /\ Control(r)' /\ Reading(r)' /\ ~Announcing(r)'
         /\ Ask(r).op = "put_object" /\ proc'[r].at \in {5, 6} => step \in {"rename", "stat"}
<1>1. /\ proc[r] \in Procs /\ proc[r].status = "running" /\ proc[r].code = "none"
      /\ Control(r) /\ Reading(r) /\ HasBody(r)
      /\ Ask(r).op \in Operations \ {"get_bucket_location"}
      /\ LastStep(Ask(r).op, proc[r].at) => proc[r].at = Len(Program(Ask(r).op))
      /\ ~LastStep(Ask(r).op, proc[r].at) =>
           /\ proc[r].at # Len(Program(Ask(r).op))
           /\ proc[r].at + 1 \in DOMAIN Program(Ask(r).op)
  BY Place
<1>2. /\ step = "upload" => Ask(r).op = "put_object" /\ proc[r].at = 3
      /\ step = "rename" => Ask(r).op = "put_object" /\ proc[r].at = 4
      /\ step = "stat" => Ask(r).op = "put_object" /\ proc[r].at = 5
      /\ step = "stat_blob" => \/ Ask(r).op = "get_object" /\ proc[r].at = 5
                               \/ Ask(r).op = "delete_object" /\ proc[r].at = 7
      /\ step = "open_blob" => Ask(r).op = "get_object" /\ proc[r].at = 6
      /\ step = "remove_blob" => Ask(r).op = "delete_object" /\ proc[r].at = 8
      /\ step = "compare" => Ask(r).op = "event" /\ proc[r].at = 3
  BY Place, Where
<1> DEFINE n == proc'[r]
<1>3. Moved(r, proc[r])
  BY <1>1, Proceeded
<1>4. LastStep(Ask(r).op, proc[r].at) <=> step \in {"open_blob", "remove_blob", "compare"}
  BY <1>2 DEF LastStep
<1>5. /\ proc' = [proc EXCEPT ![r] = n] /\ n \in Procs
      /\ n.meta = proc[r].meta /\ n.version = proc[r].version
      /\ n.items = proc[r].items /\ n.began = proc[r].began
      /\ step \in {"open_blob", "remove_blob", "compare"} =>
           n.status = "done" /\ n.code = "ok"
      /\ step \notin {"open_blob", "remove_blob", "compare"} =>
           /\ n.status = "running" /\ n.code = "none" /\ n.at = proc[r].at + 1
           /\ n.at \in DOMAIN Program(Ask(r).op)
  BY <1>1, <1>3, <1>4 DEF Moved
<1> HIDE DEF n
<1>6. Control(r)'
  BY <1>1, <1>2, <1>5, SameAsk DEF Control, Readers, n
<1>7. Reading(r)'
  <2>1. \A k, m : Was(r, k, m)' <=> Was(r, k, m)
    BY <1>5, SameWas DEF n
  <2>2. CASE Ask(r).op \in {"get_object", "delete_object"}
    <3>1. Was(r, Ask(r).key, proc[r].meta) /\ proc[r].items = {Item(Ask(r).key, proc[r].meta)}
      BY <1>1, <1>2, <2>2 DEF Reading, Readers
    <3>2. AllWere(r)
      BY <3>1 DEF AllWere, Item
    <3>3. AllWere(r)'
      BY <1>5, <2>1, <3>2 DEF AllWere, n
    <3>4. Was(r, Ask(r).key, proc[r].meta)'
      BY <1>5, <2>1, <3>1, SameAsk DEF n
    <3> QED
      BY <1>1, <1>2, <1>5, <2>2, <3>1, <3>3, <3>4, SameAsk DEF Reading, Readers, n
  <2>3. CASE Ask(r).op \in {"put_object", "event"}
    BY <1>1, <1>2, <1>5, <2>3, SameAsk DEF Reading, Readers, n
  <2> QED
    BY <1>2, <2>2, <2>3
<1>8. ~Announcing(r)'
  BY <1>2, <1>5, SameAsk DEF Announcing, n
<1>9. Ask(r).op = "put_object" /\ n.at \in {5, 6} => step \in {"rename", "stat"}
  BY <1>2, <1>5
<1> QED
  BY <1>5, <1>6, <1>7, <1>8, <1>9 DEF n

\* The body is received, or breaks off.
LEMMA UploadStep ==
  ASSUME Inv, NEW r \in Requests, Upload(r)
  PROVE  Inv'
<1>1. At(r, "upload") /\ proc[r].status = "running"
  BY DEF Upload, At
<1>2. StateInv' /\ UNCHANGED <<scenario, stores, log, submitted, blobs, events>>
  BY DEF Inv, StateInv, Upload, replication
<1>3. CASE Proceed(r, proc[r])
  BY <1>1, <1>2, <1>3, Advance, Quiet
<1>4. CASE Fail(r, "BlobRead")
  BY <1>1, <1>2, <1>4, Failed, S3Codes DEF Codes
<1> QED
  BY <1>3, <1>4 DEF Upload

\* The blob is there when its put has renamed the file.
LEMMA RenameStep ==
  ASSUME Inv, NEW r \in Requests, Rename(r)
  PROVE  Inv'
<1>1. At(r, "rename") /\ Proceed(r, proc[r])
  BY DEF Rename
<1>2. Ask(r).content \in Contents
  <2>1. HasBody(r) /\ Ask(r).op = "put_object"
    BY <1>1, Place, Where
  <2> QED
    BY <2>1, AskType DEF Inv, HasBody
<1>3. UNCHANGED <<scenario, stores, log, submitted, events>> /\ blobs \subseteq blobs'
  BY DEF Rename, replication
<1>4. StateInv' /\ Ask(r).content \in blobs'
  BY <1>2 DEF Inv, StateInv, Rename, replication
<1> QED
  BY <1>1, <1>3, <1>4, Advance, Quiet

\* The file that was renamed is there, unless a deletion has been faster.
LEMMA StatTargetStep ==
  ASSUME Inv, NEW r \in Requests, StatTarget(r)
  PROVE  Inv'
<1>1. At(r, "stat") /\ proc[r].status = "running"
  BY DEF StatTarget, At
<1>2. StateInv' /\ UNCHANGED <<scenario, stores, log, submitted, blobs, events>>
  BY SameState DEF Inv, StatTarget, disk, replication
<1>3. CASE Ask(r).content \in blobs /\ Proceed(r, proc[r])
  BY <1>1, <1>2, <1>3, Advance, Quiet
<1>4. CASE Fail(r, "Io")
  BY <1>1, <1>2, <1>4, Failed, S3Codes DEF Codes
<1> QED
  BY <1>3, <1>4 DEF StatTarget

\* Default metadata tell that the object was not there.
LEMMA StatBlobStep ==
  ASSUME Inv, NEW r \in Requests, StatBlob(r)
  PROVE  Inv'
<1>1. At(r, "stat_blob") /\ proc[r].status = "running"
  BY DEF StatBlob, At
<1>2. StateInv' /\ UNCHANGED <<scenario, stores, log, submitted, blobs, events>>
  BY SameState DEF Inv, StatBlob, disk, replication
<1>3. \/ Ask(r).op = "get_object" /\ proc[r].at = 5
      \/ Ask(r).op = "delete_object" /\ proc[r].at = 7
  BY <1>1, Place, Where
<1>4. CASE proc[r].meta = NoMeta /\ Fail(r, "BlobDoesNotExist")
  <2>1. Was(r, Ask(r).key, NoMeta)
    BY <1>1, <1>3, <1>4 DEF Inv, Reading, Readers
  <2> QED
    BY <1>1, <1>2, <1>4, <2>1, Failed, S3Codes DEF Codes
<1>5. CASE Proceed(r, proc[r])
  <2>1. Ask(r).op # "put_object"
    BY <1>3
  <2> QED
    BY <1>1, <1>2, <1>5, <2>1, Advance, Quiet
<1>6. CASE Fail(r, "Io")
  BY <1>1, <1>2, <1>6, Failed, S3Codes DEF Codes
<1> QED
  BY <1>4, <1>5, <1>6 DEF StatBlob

\* A blob is opened for its reader.
LEMMA OpenBlobStep ==
  ASSUME Inv, NEW r \in Requests, OpenBlob(r)
  PROVE  Inv'
<1>1. At(r, "open_blob") /\ proc[r].status = "running"
  BY DEF OpenBlob, At
<1>2. StateInv' /\ UNCHANGED <<scenario, stores, log, submitted, blobs, events>>
  BY SameState DEF Inv, OpenBlob, disk, replication
<1>3. CASE Proceed(r, proc[r])
  <2>1. Ask(r).op # "put_object"
    BY <1>1, Place, Where
  <2> QED
    BY <1>1, <1>2, <1>3, <2>1, Advance, Quiet
<1>4. CASE Fail(r, "Io")
  BY <1>1, <1>2, <1>4, Failed, S3Codes DEF Codes
<1> QED
  BY <1>3, <1>4 DEF OpenBlob

\* The panic of a store takes the DtrdClient and its mailbox with it.
LEMMA CompareVersionsStep ==
  ASSUME Inv, NEW r \in Requests, CompareVersions(r)
  PROVE  Inv'
<1>1. At(r, "compare") /\ proc[r].status = "running"
  BY DEF CompareVersions, AtStore, At
<1>2. UNCHANGED <<scenario, stores, log, submitted, blobs>>
  BY DEF CompareVersions, disk
<1>3. CASE Proceed(r, proc[r]) /\ UNCHANGED <<actors, client, events>>
  <2>1. Ask(r).op # "put_object"
    BY <1>1, Place, Where
  <2>2. StateInv'
    BY <1>3, SameState DEF Inv, CompareVersions, replication
  <2> QED
    BY <1>1, <1>2, <1>3, <2>1, <2>2, Advance, Quiet
<1>4. CASE /\ Fail(r, "MailboxError")
           /\ actors' = [actors EXCEPT ![Bucket(r)] = "dead"]
           /\ client' = "dead" /\ events' = <<>>
  <2>1. actors' \in [Buckets -> {"none", "running", "dead"}] /\ events' \in Seq(Events)
    BY <1>4, EmptySeq DEF Inv, StateInv
  <2>2. StateInv'
    BY <1>4, <2>1 DEF Inv, StateInv, CompareVersions, disk
  <2> QED
    BY <1>1, <1>2, <1>4, <2>2, Failed, S3Codes DEF Codes
<1> QED
  BY <1>3, <1>4 DEF CompareVersions

\* A message to a store fails, with its actor or with the database.
LEMMA StoreErrors ==
  ASSUME Inv, NEW r \in Requests, StoreIsDead(r) \/ StoreFails(r)
  PROVE  Inv'
<1>1. CASE StoreIsDead(r)
  <2>1. proc[r].status = "running" /\ UNCHANGED <<scenario, stores, log, submitted, blobs>>
    BY <1>1 DEF StoreIsDead, At, disk
  <2>2. \/ client' = "dead" /\ events' = <<>>
        \/ UNCHANGED <<client, events>>
    BY <1>1 DEF StoreIsDead
  <2>3. client' \in {"running", "dead"} /\ events' \in Seq(Events)
    BY <2>2, EmptySeq DEF Inv, StateInv
  <2>4. UNCHANGED <<actors, buckets, blobs, tmp, crashes>>
    BY <1>1 DEF StoreIsDead, disk
  <2>5. StateInv'
    BY <2>1, <2>3, <2>4 DEF Inv, StateInv
  <2> QED
    BY <1>1, <2>1, <2>2, <2>5, Failed, S3Codes DEF Codes, StoreIsDead
<1>2. CASE StoreFails(r)
  <2>1. proc[r].status = "running"
    BY <1>2 DEF StoreFails, At, AtStore
  <2>2. StateInv' /\ UNCHANGED <<scenario, stores, log, submitted, blobs, events>>
    BY <1>2, SameState DEF Inv, StoreFails, disk, replication
  <2> QED
    BY <1>2, <2>1, <2>2, Failed, S3Codes DEF Codes, StoreFails
<1> QED
  BY <1>1, <1>2

\* The names under a prefix are names.
LEMMA ListType ==
  ASSUME NEW s \in Stores, NEW k \in Keys \cup {<<>>}
  PROVE  List(s, k) \subseteq Names
BY DEF List, Under, Names

\* A list of all is the set of the objects.
LEMMA ListAll ==
  ASSUME NEW s \in Stores
  PROVE  List(s, <<>>) = s.objects
<1>1. s.objects \subseteq Keys
  BY DEF Stores
<1>2. \A x \in s.objects : x \in Under(<<>>) /\ Remainder(<<>>, x) = x
  BY <1>1, SelfPrefix
<1>3. s.objects \cap Under(<<>>) = s.objects
  BY <1>2
<1> QED
  BY <1>2, <1>3 DEF List

\* The names a list begins with: every other object was not there.
LEMMA ReadNamesStep ==
  ASSUME Inv, NEW r \in Requests, ReadNames(r)
  PROVE  Inv'
<1>1. /\ proc[r] \in Procs /\ proc[r].status = "running" /\ proc[r].code = "none"
      /\ Control(r) /\ Reading(r) /\ HasBody(r) /\ Bucket(r) \in Buckets
      /\ Ask(r).op = "list_objects" /\ proc[r].at = 3
      /\ ~LastStep(Ask(r).op, proc[r].at) =>
           /\ proc[r].at # Len(Program(Ask(r).op))
           /\ proc[r].at + 1 \in DOMAIN Program(Ask(r).op)
  BY Place, Where DEF ReadNames, AtStore
<1>2. proc[r].at # Len(Program(Ask(r).op)) /\ 4 \in DOMAIN Program(Ask(r).op)
  BY <1>1 DEF LastStep
<1>3. Entries(r) \in Stores
  BY <1>1 DEF Inv, StateInv, Entries
<1>4. StateInv' /\ UNCHANGED <<scenario, stores, log, submitted, blobs, events>>
  BY SameState DEF Inv, ReadNames, disk, replication
<1>5. PICK names : names = List(Entries(r), Ask(r).key)
  OBVIOUS
<1>6. names \subseteq Names
  BY <1>3, <1>5, ListType, AskType DEF Inv
<1>7. PICK p : p = [proc[r] EXCEPT !.todo = names]
  OBVIOUS
<1>8. Proceed(r, p)
  BY <1>5, <1>7 DEF ReadNames
<1>9. /\ p \in Procs /\ p.at = 3 /\ p.meta = proc[r].meta /\ p.items = proc[r].items
      /\ p.version = proc[r].version /\ p.began = proc[r].began /\ p.todo = names
      /\ p.status = "running" /\ p.code = "none"
  BY <1>1, <1>6, <1>7 DEF Procs
<1> DEFINE n == proc'[r]
<1>10. Moved(r, p)
  BY <1>8, <1>9, Proceeded
<1>11. /\ proc' = [proc EXCEPT ![r] = n] /\ n \in Procs
       /\ n.meta = proc[r].meta /\ n.version = proc[r].version /\ n.todo = names
       /\ n.items = proc[r].items /\ n.began = proc[r].began
       /\ n.status = "running" /\ n.code = "none" /\ n.at = 4
  BY <1>1, <1>2, <1>9, <1>10 DEF Moved
<1> HIDE DEF n
<1>12. Control(r)'
  BY <1>1, <1>2, <1>4, <1>11, SameAsk DEF Control, n
<1>13. ASSUME Ask(r).key = <<>>
       PROVE  /\ \A k \in names : k \in Keys /\ Was(r, k, stores[Bucket(r)].meta[k])'
              /\ AllWere(r)' /\ Listed(r)'
  <2>1. names = Entries(r).objects /\ names \subseteq Keys
    BY <1>3, <1>5, <1>13, ListAll DEF Stores
  <2>2. \A k, m : Was(r, k, m)' <=> Was(r, k, m)
    BY <1>4, <1>11, SameWas DEF n
  <2>3. ASSUME NEW k \in names PROVE Was(r, k, stores[Bucket(r)].meta[k])'
    <3>1. Was(r, k, stores[Bucket(r)].meta[k])
      BY <2>1, WasNow DEF Entries
    <3> QED
      BY <1>4, <2>2, <3>1, SameAsk
  <2>4. ASSUME NEW k \in Keys, k \notin names PROVE Was(r, k, NoMeta)'
    BY <2>1, <2>2, <2>4, WasNow
  <2>5. proc[r].items = {}
    BY <1>1, <1>13 DEF Reading
  <2> QED
    BY <1>11, <2>1, <2>3, <2>4, <2>5 DEF AllWere, Listed, n
<1>14. Reading(r)'
  BY <1>1, <1>4, <1>11, <1>13, SameAsk DEF Reading, Readers, n
<1>15. ~Announcing(r)'
  BY <1>1, <1>11, SameAsk, <1>4 DEF Announcing, n
<1>16. Ask(r).op # "put_object"
  BY <1>1
<1> QED
  BY <1>4, <1>11, <1>12, <1>14, <1>15, <1>16, Quiet

\* The metadata of one name after the other; a name whose object has been
\* removed since has still those it had.
LEMMA ReadNextMetaStep ==
  ASSUME Inv, NEW r \in Requests, ReadNextMeta(r)
  PROVE  Inv'
<1>1. /\ proc[r] \in Procs /\ proc[r].status = "running" /\ proc[r].code = "none"
      /\ Control(r) /\ Reading(r) /\ HasBody(r) /\ Bucket(r) \in Buckets
      /\ Ask(r).op = "list_objects" /\ proc[r].at = 4
      /\ proc[r].at \in DOMAIN Program(Ask(r).op)
      /\ LastStep(Ask(r).op, proc[r].at) => proc[r].at = Len(Program(Ask(r).op))
  BY Place, Where DEF ReadNextMeta
<1>2. proc[r].at = Len(Program(Ask(r).op))
  BY <1>1 DEF LastStep
<1>3. StateInv' /\ UNCHANGED <<scenario, stores, log, submitted, blobs, events>>
  BY SameState DEF Inv, ReadNextMeta, disk, replication
<1>4. Ask(r).op # "put_object"
  BY <1>1
<1> DEFINE n == proc'[r]
<1>5. CASE proc[r].todo = {} /\ Proceed(r, proc[r])
  <2>1. Moved(r, proc[r])
    BY <1>1, <1>5, Proceeded
  <2>2. /\ proc' = [proc EXCEPT ![r] = n] /\ n \in Procs
        /\ n.meta = proc[r].meta /\ n.version = proc[r].version /\ n.todo = {}
        /\ n.items = proc[r].items /\ n.began = proc[r].began
        /\ n.status = "done" /\ n.code = "ok"
    BY <1>2, <1>5, <2>1 DEF Moved
  <2> HIDE DEF n
  <2>3. Control(r)'
    BY <1>1, <1>3, <2>2, SameAsk DEF Control, n
  <2>4. \A k, m : Was(r, k, m)' <=> Was(r, k, m)
    BY <1>3, <2>2, SameWas DEF n
  <2>5. Ask(r).key = <<>> => AllWere(r) /\ Listed(r)
    BY <1>1 DEF Reading
  <2>6. Ask(r).key = <<>> => AllWere(r)' /\ Listed(r)'
    BY <1>5, <2>2, <2>4, <2>5 DEF AllWere, Listed, n
  <2>7. Reading(r)'
    BY <1>1, <1>3, <2>2, <2>6, SameAsk DEF Reading, Readers, n
  <2>8. ~Announcing(r)'
    BY <2>2 DEF Announcing, n
  <2> QED
    BY <1>3, <1>4, <2>2, <2>3, <2>7, <2>8, Quiet
<1>6. ASSUME NEW k \in proc[r].todo,
             proc' = [proc EXCEPT ![r].todo = @ \ {k},
                        ![r].items = @ \cup {Item(k, meta_to_obj(Entries(r), k))}]
      PROVE  Inv'
  <2>1. PICK m : m = meta_to_obj(Entries(r), k)
    OBVIOUS
  <2>2. m \in Maybe /\ Item(k, m) \in Items
    <3>1. Entries(r) \in Stores
      BY <1>1 DEF Inv, StateInv, Entries
    <3>2. m \in Maybe
      BY <2>1, <3>1 DEF meta_to_obj, Stores, Maybe
    <3>3. k \in Names
      BY <1>1 DEF Procs
    <3> QED
      BY <3>2, <3>3 DEF Items, Item, Maybe
  <2>3. proc[r].items \subseteq Items
    BY <1>1 DEF Control
  <2>4. PICK x : x = [proc[r] EXCEPT !.todo = @ \ {k}, !.items = @ \cup {Item(k, m)}]
    OBVIOUS
  <2>5. /\ x \in Procs /\ x.todo = proc[r].todo \ {k}
        /\ x.items = proc[r].items \cup {Item(k, m)}
        /\ x.meta = proc[r].meta /\ x.version = proc[r].version
        /\ x.began = proc[r].began /\ x.status = "running" /\ x.code = "none" /\ x.at = 4
    BY <1>1, <2>2, <2>3, <2>4 DEF Procs
  <2>6. proc' = [proc EXCEPT ![r] = x] /\ n = x
    BY <1>6, <2>1, <2>4 DEF Inv, ProcInv
  <2>7. Control(r)'
    BY <1>1, <1>3, <2>2, <2>3, <2>5, <2>6, SameAsk DEF Control
  <2>8. \A y, z : Was(r, y, z)' <=> Was(r, y, z)
    BY <1>3, <2>5, <2>6, SameWas
  <2>9. ASSUME Ask(r).key = <<>>
        PROVE  /\ \A y \in x.todo : y \in Keys /\ Was(r, y, stores[Bucket(r)].meta[y])'
               /\ AllWere(r)' /\ Listed(r)'
    <3>1. /\ \A y \in proc[r].todo : y \in Keys /\ Was(r, y, stores[Bucket(r)].meta[y])
          /\ AllWere(r) /\ Listed(r)
      BY <1>1, <2>9 DEF Reading
    <3>2. m = stores[Bucket(r)].meta[k]
      BY <2>1, <3>1 DEF meta_to_obj, Entries
    <3>3. Was(r, k, m)
      BY <3>1, <3>2
    <3>4. Item(k, m).key = k /\ Item(k, m).meta = m
      BY DEF Item
    <3>5. AllWere(r)'
      BY <2>5, <2>6, <2>8, <3>1, <3>3, <3>4 DEF AllWere
    <3>6. Listed(r)'
      BY <2>5, <2>6, <2>8, <3>1, <3>4 DEF Listed
    <3>7. ASSUME NEW y \in x.todo
          PROVE  y \in Keys /\ Was(r, y, stores[Bucket(r)].meta[y])'
      BY <1>3, <2>5, <2>8, <3>1, SameAsk
    <3> QED
      BY <3>5, <3>6, <3>7
  <2>10. Reading(r)'
    BY <1>1, <1>3, <2>5, <2>6, <2>9, SameAsk DEF Reading, Readers
  <2>11. ~Announcing(r)'
    BY <1>1, <1>3, <2>6, SameAsk DEF Announcing
  <2> QED
    BY <1>3, <1>4, <2>5, <2>6, <2>7, <2>10, <2>11, Quiet
<1> QED
  BY <1>5, <1>6 DEF ReadNextMeta

-------------------------------------------------------------------------------
(* The frontend *)

\* A request begins, or is answered at once.
LEMMA FrontendStep ==
  ASSUME Inv, NEW r \in Requests, Frontend(r)
  PROVE  Inv'
<1>1. proc[r].status = "idle"
  BY DEF Frontend, BucketLocation, RejectPut, SendS3
<1>2. proc[r] \in Procs /\ Control(r) /\ Reading(r) /\ Bucket(r) \in Buckets
  BY AskType DEF Inv, ProcInv
<1>3. proc[r] = NewProc
  BY <1>1, <1>2 DEF Control
<1>4. /\ proc[r].version = 0 /\ proc[r].meta = NoMeta /\ proc[r].items = {}
      /\ proc[r].at = 1 /\ proc[r].code = "none"
  BY <1>3 DEF NewProc
<1>5. StateInv' /\ UNCHANGED <<scenario, stores, log, submitted, blobs, events>>
  <2>1. UNCHANGED <<scenario, actors, disk, replication, crashes>>
    BY DEF Frontend, BucketLocation, RejectPut, SendS3
  <2> QED
    BY <2>1, SameState DEF Inv, disk, replication
<1>6. Ask(r).op \in Operations
  BY AskType DEF Inv
<1>7. ASSUME NEW c \in {"ok", "InvalidRequest"},
             c = "ok" => Ask(r).op = "get_bucket_location",
             proc' = [proc EXCEPT ![r] = Answered(@, c)]
      PROVE  Inv'
  <2>1. PICK n : n = Answered(proc[r], c)
    OBVIOUS
  <2>2. /\ n \in Procs /\ n.version = 0 /\ n.meta = NoMeta /\ n.items = {}
        /\ n.began = proc[r].began /\ n.status = "done" /\ n.code = c
    BY <1>2, <1>4, <1>7, <2>1 DEF Procs, Answered, Codes
  <2>3. proc' = [proc EXCEPT ![r] = n] /\ proc'[r] = n
    BY <1>7, <2>1 DEF Inv, ProcInv
  <2>4. Control(r)'
    BY <1>5, <1>7, <2>2, <2>3, SameAsk DEF Control
  <2>5. Reading(r)'
    BY <1>2, <1>5, <1>7, <2>2, <2>3, SameAsk DEF Reading
  <2>6. ~Announcing(r)'
    BY <2>2, <2>3 DEF Announcing
  <2> QED
    BY <1>4, <1>5, <2>2, <2>3, <2>4, <2>5, <2>6, Quiet
<1>8. CASE SendS3(r)
  <2>0. PICK len : len = Len(log[Bucket(r)])
    OBVIOUS
  <2>1. PICK n : n = [proc[r] EXCEPT !.status = "running", !.began = len]
    OBVIOUS
  <2>2. len \in Nat
    BY <1>2, <2>0, LenProperties DEF Inv, StateInv
  <2>3. /\ n \in Procs /\ n.version = 0 /\ n.meta = NoMeta /\ n.items = {} /\ n.at = 1
        /\ n.began = len /\ n.status = "running" /\ n.code = "none"
    BY <1>2, <1>4, <2>1, <2>2 DEF Procs
  <2>4. proc' = [proc EXCEPT ![r] = n] /\ proc'[r] = n
    BY <1>8, <2>0, <2>1 DEF SendS3, Inv, ProcInv
  <2>5. Ask(r).op # "get_bucket_location" /\ HasBody(r)
    BY <1>8 DEF SendS3
  <2>6. 1 \in DOMAIN Program(Ask(r).op)
    BY <1>6, <2>5, Programs
       DEF Operations, ListBuckets, CreateBucket, HeadBucket, EventReplicationReceived,
           ListObject, HeadObject, GetObject, PutObject, DeleteObject
  <2>7. Control(r)'
    BY <1>5, <2>3, <2>4, <2>5, <2>6, SameAsk DEF Control
  <2>8. Reading(r)'
    BY <1>5, <2>0, <2>2, <2>3, <2>4, SameAsk DEF Reading
  <2>9. ~Announcing(r)' /\ n.at \notin {5, 6}
    BY <2>3, <2>4 DEF Announcing
  <2> QED
    BY <1>4, <1>5, <2>3, <2>4, <2>7, <2>8, <2>9, Quiet
<1>9. CASE BucketLocation(r) \/ RejectPut(r)
  BY <1>7, <1>9 DEF BucketLocation, RejectPut
<1> QED
  BY <1>8, <1>9 DEF Frontend

-------------------------------------------------------------------------------
(* Changes, blobs and events *)

\* The event of a request that has made its change is one.
LEMMA EventType ==
  ASSUME Inv, NEW r \in Requests, proc[r].version # 0
  PROVE  /\ ReplicateEvent(r) \in Events
         /\ ReplicateEvent(r).bucket = Bucket(r)
         /\ ReplicateEvent(r).version = proc[r].version
         /\ ReplicateEvent(r).change = ChangeOf(r)
<1>1. proc[r].version \in Nat \ {0} /\ Bucket(r) \in Buckets
  BY AskType DEF Inv, ProcInv, Procs
<1>2. /\ proc[r].version \in DOMAIN log[Bucket(r)]
      /\ log[Bucket(r)][proc[r].version] = ChangeOf(r)
  BY DEF Inv, VersionsInv, Committed
<1>3. log[Bucket(r)] \in Seq(Changes)
  BY <1>1 DEF Inv, StateInv
<1>4. ChangeOf(r) \in Changes
  BY <1>2, <1>3, ElementOfSeq, LenProperties
<1> QED
  BY <1>1, <1>4 DEF ReplicateEvent, EventOf, Events

\* The event of a change is sent once, by the request that made the change.
LEMMA AnnounceStep ==
  ASSUME Inv, NEW r \in Requests, Announce(r)
  PROVE  Inv'
<1>1. /\ At(r, "announce") /\ Proceed(r, proc[r])
      /\ UNCHANGED <<scenario, actors, disk, client, submitted, crashes>>
      /\ events' = events \/ events' = Append(events, ReplicateEvent(r))
  BY DEF Announce
<1>2. /\ proc[r] \in Procs /\ proc[r].status = "running" /\ proc[r].code = "none"
      /\ Control(r) /\ Reading(r) /\ HasBody(r)
      /\ \/ Ask(r).op = "put_object" /\ proc[r].at = 7
         \/ Ask(r).op = "delete_object" /\ proc[r].at = 6
      /\ LastStep(Ask(r).op, proc[r].at) => proc[r].at = Len(Program(Ask(r).op))
      /\ ~LastStep(Ask(r).op, proc[r].at) =>
           /\ proc[r].at # Len(Program(Ask(r).op))
           /\ proc[r].at + 1 \in DOMAIN Program(Ask(r).op)
  BY <1>1, Place, Where
<1>3. Announcing(r) /\ proc[r].version # 0
  BY <1>2 DEF Announcing, Control
<1> DEFINE n == proc'[r]
<1>4. Moved(r, proc[r])
  BY <1>1, <1>2, Proceeded
<1>5. LastStep(Ask(r).op, proc[r].at) <=> Ask(r).op = "put_object"
  BY <1>2 DEF LastStep
<1>6. /\ proc' = [proc EXCEPT ![r] = n] /\ n \in Procs
      /\ n.meta = proc[r].meta /\ n.version = proc[r].version
      /\ n.items = proc[r].items /\ n.began = proc[r].began
      /\ Ask(r).op = "put_object" => n.status = "done" /\ n.code = "ok"
      /\ Ask(r).op = "delete_object" =>
           /\ n.status = "running" /\ n.code = "none" /\ n.at = 7
           /\ n.at \in DOMAIN Program(Ask(r).op)
  BY <1>2, <1>4, <1>5 DEF Moved
<1> HIDE DEF n
<1>7. UNCHANGED <<scenario, stores, log, blobs, submitted>>
  BY <1>1 DEF disk
<1>8. ReplicateEvent(r) \in Events
  BY <1>3, EventType
<1>9. events \in Seq(Events) /\ events' \in Seq(Events)
  BY <1>1, <1>8, AppendProperties, SMTT(30) DEF Inv, StateInv
<1>10. StateInv'
  BY <1>1, <1>9 DEF Inv, StateInv, disk
<1>11. Control(r)'
  BY <1>2, <1>3, <1>6, <1>7, SameAsk DEF Control, n
<1>12. Reading(r)'
  <2>1. \A k, m : Was(r, k, m)' <=> Was(r, k, m)
    BY <1>6, <1>7, SameWas DEF n
  <2> QED
    BY <1>2, <1>6, <1>7, <2>1, SameAsk DEF Reading, Readers, n
<1>13. EventsInv'
  <2>1. \A q \in Requests : q # r => proc'[q] = proc[q]
    BY <1>6 DEF Inv, ProcInv
  <2>2. ~Announcing(r)'
    BY <1>6, <1>7, <1>2, SameAsk DEF Announcing, n
  <2>3. \A q \in Requests : Announcing(q)' =>
          q # r /\ Announcing(q) /\ ReplicateEvent(q)' = ReplicateEvent(q)
    BY <1>7, <2>1, <2>2, SameAsk DEF Announcing, ReplicateEvent, EventOf
  <2>4. CASE events' = events
    BY <1>7, <2>3, <2>4 DEF Inv, EventsInv
  <2>5. CASE events' = Append(events, ReplicateEvent(r))
    <3>1. PICK e, len : e = ReplicateEvent(r) /\ len = Len(events)
      OBVIOUS
    <3>2. /\ len \in Nat /\ DOMAIN events = 1..len /\ DOMAIN events' = 1..(len + 1)
          /\ \A i \in 1..len : events'[i] = events[i]
          /\ events'[len + 1] = e
      BY <1>8, <1>9, <2>5, <3>1, AppendProperties, LenProperties
    <3>3. \A i \in DOMAIN events' : i \in DOMAIN events \/ i = len + 1
      BY <3>2
    <3>4. e \in Events /\ e \notin submitted /\ \A i \in DOMAIN events : events[i] # e
      BY <1>3, <1>8, <3>1 DEF Inv, EventsInv
    <3>5. e.version \in DOMAIN log[e.bucket] /\ log[e.bucket][e.version] = e.change
      BY <1>3, <3>1, EventType DEF Inv, VersionsInv, Committed
    <3>6. ASSUME NEW q \in Requests, Announcing(q)' PROVE ReplicateEvent(q)' # e
      <4>1. q # r /\ Announcing(q) /\ ReplicateEvent(q)' = ReplicateEvent(q)
        BY <2>3, <3>6
      <4>2. proc[q].version # 0
        BY <4>1 DEF Inv, Control, Announcing
      <4>3. ~(Bucket(q) = Bucket(r) /\ proc[q].version = proc[r].version)
        BY <4>1, <4>2 DEF Inv, VersionsInv
      <4> QED
        BY <1>3, <3>1, <4>1, <4>2, <4>3, EventType
    <3>7. \A i, j \in DOMAIN events' : events'[i] = events'[j] => i = j
      BY <3>2, <3>3, <3>4 DEF Inv, EventsInv
    <3>8. \A i \in DOMAIN events' : events'[i] \notin submitted'
      BY <1>7, <3>2, <3>3, <3>4 DEF Inv, EventsInv
    <3>9. \A x \in Events : (\E i \in DOMAIN events' : events'[i] = x) =>
            x = e \/ \E i \in DOMAIN events : events[i] = x
      BY <3>2, <3>3
    <3>10. ASSUME NEW x \in Events,
                  x \in submitted' \/ (\E i \in DOMAIN events' : events'[i] = x)
           PROVE  /\ x.version \in DOMAIN log'[x.bucket]
                  /\ log'[x.bucket][x.version] = x.change
                  /\ \A q \in Requests : Announcing(q)' => ReplicateEvent(q)' # x
      <4>1. CASE x = e
        BY <1>7, <3>5, <3>6, <4>1
      <4>2. CASE x # e
        <5>1. x \in submitted \/ \E i \in DOMAIN events : events[i] = x
          BY <1>7, <3>9, <3>10, <4>2
        <5> QED
          BY <1>7, <2>3, <5>1 DEF Inv, EventsInv
      <4> QED
        BY <4>1, <4>2
    <3> QED
      BY <3>7, <3>8, <3>10 DEF EventsInv
  <2> QED
    BY <1>1, <2>4, <2>5
<1>14. Ask(r).op = "put_object" => n.status # "running"
  BY <1>6
<1>15. BlobsInv'
  BY <1>6, <1>7, <1>14, KeptBlobs
<1> QED
  BY <1>6, <1>7, <1>10, <1>11, <1>12, <1>13, <1>15, Calm

\* The blob a deletion removes belongs to no object, and to no put on its way,
\* unless its content was put twice.
LEMMA RemovedIsUnused ==
  ASSUME Inv, NEW r \in Requests, Ask(r).op = "delete_object", proc[r].version # 0,
         NEW c \in Contents, proc[r].meta.sha256sum = c, ~Shared(c)
  PROVE  /\ \A b \in Buckets : \A k \in stores[b].objects :
              stores[b].meta[k].sha256sum # c
         /\ \A q \in Requests : Ask(q).op = "put_object" /\ Ask(q).content = c
              => proc[q].version # 0
<1>1. proc[r].meta # NoMeta
  BY ReplistoreAssumption DEF NoMeta
<1>2. PICK v : v = proc[r].meta.writer
  OBVIOUS
<1>3. /\ v \in Requests /\ proc[v].version # 0 /\ Ask(v).op = "put_object"
      /\ Bucket(v) = Bucket(r) /\ Ask(v).key = Ask(r).key
      /\ proc[r].meta = PutOf(v).meta /\ proc[v].version < proc[r].version
  BY <1>1, <1>2 DEF Inv, SourceInv, Written
<1>4. Ask(v).content = c
  BY <1>3 DEF PutOf
<1>5. \A q \in Requests : Ask(q).op = "put_object" /\ Ask(q).content = c => q = v
  BY <1>3, <1>4 DEF Shared
<1>6. ASSUME NEW b \in Buckets, NEW k \in stores[b].objects,
             stores[b].meta[k].sha256sum = c
      PROVE  FALSE
  <2>1. k \in Keys
    BY DEF Inv, StateInv, Stores
  <2>2. stores[b].meta[k] # NoMeta
    BY DEF Inv, NewestInv
  <2>3. PICK w : w = stores[b].meta[k].writer
    OBVIOUS
  <2>4. /\ w \in Requests /\ Ask(w).op = "put_object" /\ Bucket(w) = b
        /\ Ask(w).key = k /\ stores[b].meta[k] = PutOf(w).meta
    BY <2>1, <2>2, <2>3 DEF Inv, SourceInv, Written
  <2>5. Ask(w).content = c
    BY <1>6, <2>4 DEF PutOf
  <2>6. w = v /\ b = Bucket(r) /\ k = Ask(r).key
    BY <1>3, <1>5, <2>4, <2>5
  <2>7. proc[r].version \in DOMAIN log[b] /\ log[b][proc[r].version] = DeleteOf(r)
    BY <2>6 DEF Inv, VersionsInv, Committed, ChangeOf
  <2>8. Touches(DeleteOf(r), k)
    BY <2>1, <2>6, SelfPrefix DEF Touches, DeleteOf
  <2>9. proc[v].version \in Nat /\ proc[r].version \in Nat
    BY <1>3 DEF Inv, ProcInv, Procs
  <2>10. proc[r].version > proc[stores[b].meta[k].writer].version
    BY <1>3, <2>3, <2>6, <2>9
  <2> QED
    BY <2>7, <2>8, <2>10 DEF Inv, NewestInv
<1> QED
  BY <1>3, <1>5, <1>6

\* A deletion removes the blob of the object it has removed.
LEMMA RemoveBlobStep ==
  ASSUME Inv, NEW r \in Requests, RemoveBlob(r)
  PROVE  Inv'
<1>1. At(r, "remove_blob") /\ proc[r].status = "running"
  BY DEF RemoveBlob, At
<1>2. UNCHANGED <<scenario, stores, log, submitted, events>>
  BY DEF RemoveBlob, replication
<1>3. StateInv'
  BY DEF Inv, StateInv, RemoveBlob, replication
<1>4. PICK c : c = proc[r].meta.sha256sum
  OBVIOUS
<1>5. blobs' = blobs \ {c}
  BY <1>4 DEF RemoveBlob
<1>6. CASE c \notin blobs /\ Fail(r, "Io")
  <2>1. blobs' = blobs
    BY <1>5, <1>6
  <2> QED
    BY <1>1, <1>2, <1>3, <1>6, <2>1, Failed, S3Codes DEF Codes
<1>7. CASE c \in blobs /\ Proceed(r, proc[r])
  <2>1. Ask(r).op = "delete_object" /\ proc[r].at = 8 /\ Control(r)
    BY <1>1, Place, Where
  <2>2. proc[r].version # 0
    BY <1>1, <2>1 DEF Control
  <2>3. c \in Contents
    BY <1>7 DEF Inv, StateInv
  <2>4. PICK n : n = proc'[r]
    OBVIOUS
  <2>5. /\ proc' = [proc EXCEPT ![r] = n] /\ n \in Procs
        /\ n.version = proc[r].version /\ n.meta = proc[r].meta
        /\ Control(r)' /\ Reading(r)' /\ ~Announcing(r)'
    BY <1>1, <1>2, <1>7, <2>4, Advance
  <2>6. \A q \in Requests : q # r => proc'[q] = proc[q]
    BY <2>5 DEF Inv, ProcInv
  <2>7. EventsInv'
    <3>1. \A q \in Requests :
            Announcing(q)' => Announcing(q) /\ proc'[q].version = proc[q].version
      BY <1>2, <2>5, <2>6, SameAsk DEF Announcing
    <3> QED
      BY <1>2, <3>1, SameEvents DEF Inv
  <2>8. \A x : Shared(x)' = Shared(x)
    BY <1>2, SameAsk DEF Shared
  <2>9. NoDanglingObject'
    <3>1. \A b \in Buckets : \A k \in stores[b].objects :
            Shared(c) \/ stores[b].meta[k].sha256sum # c
      BY <1>4, <2>1, <2>2, <2>3, RemovedIsUnused
    <3> QED
      BY <1>2, <1>5, <2>8, <3>1 DEF Inv, BlobsInv, NoDanglingObject
  <2>10. ASSUME NEW q \in Requests, Ask(q).op = "put_object",
                proc'[q].status = "running", proc'[q].at \in {5, 6}
         PROVE  Ask(q).content \in blobs' \/ Shared(Ask(q).content)
    <3>1. q # r /\ proc'[q] = proc[q]
      BY <2>1, <2>6, <2>10
    <3>2. proc[q].version = 0
      BY <2>10, <3>1 DEF Inv, Control
    <3>3. Ask(q).content # c \/ Shared(c)
      BY <1>4, <2>1, <2>2, <2>3, <2>10, <3>2, RemovedIsUnused
    <3> QED
      BY <1>5, <2>10, <3>1, <3>3 DEF Inv, BlobsInv
  <2>11. BlobsInv'
    BY <1>2, <2>8, <2>9, <2>10, SameAsk DEF BlobsInv
  <2> QED
    BY <1>2, <1>3, <2>5, <2>7, <2>11, Calm
<1> QED
  BY <1>4, <1>6, <1>7 DEF RemoveBlob

\* What a change c makes of the entries old: the objects it touches are replaced
\* or removed, the others left alone.
Applied(old, new, c, k) ==
  /\ new \in Stores /\ new.version = old.version + 1
  /\ c.key = k /\ c \in Changes /\ Touches(c, k) /\ (c.meta = NoMeta <=> c.type # "Put")
  /\ \A x \in Keys :
       /\ Touches(c, x) => (x \in new.objects <=> c.type = "Put")
       /\ Touches(c, x) /\ x \in new.objects => new.meta[x] = c.meta
       /\ ~Touches(c, x) => (x \in new.objects <=> x \in old.objects)
       /\ new.meta[x] = old.meta[x] \/ (x = k /\ new.meta[x] = c.meta)
       /\ ~Touches(c, x) => new.meta[x] = old.meta[x]

\* A put replaces its object.
LEMMA PutApplied ==
  ASSUME ScenarioInv, NEW r \in Requests, Ask(r).op = "put_object", HasBody(r),
         NEW s \in Stores
  PROVE  Applied(s, MultiSet(s, Ask(r).key, PutOf(r).meta), PutOf(r), Ask(r).key)
<1>1. PICK k : k = Ask(r).key
  OBVIOUS
<1>2. k \in Keys /\ Ask(r).content \in Contents
  BY <1>1, AskType DEF HasBody
<1>3. PICK m : m = PutOf(r).meta
  OBVIOUS
<1>4. m \in Metas /\ m.sha256sum = Ask(r).content
  BY <1>2, <1>3 DEF PutOf, Metas
<1>5. m \in Maybe /\ m # NoMeta
  BY <1>2, <1>4, ReplistoreAssumption DEF Maybe, NoMeta
<1>6. PutOf(r) = [type |-> "Put", key |-> k, meta |-> m]
  BY <1>1, <1>3 DEF PutOf
<1>7. PutOf(r) \in Changes
  BY <1>2, <1>5, <1>6 DEF Changes, Maybe
<1>8. \A x : Touches(PutOf(r), x) <=> x = k
  BY <1>6 DEF Touches
<1>9. PICK new : new = MultiSet(s, k, m)
  OBVIOUS
<1>10. /\ new \in Stores /\ new.version = s.version + 1
       /\ new.objects = s.objects \cup {k} /\ new.meta = [s.meta EXCEPT ![k] = m]
  <2>1. /\ s.objects \cup {k} \in SUBSET Keys /\ s.version + 1 \in Nat
        /\ [s.meta EXCEPT ![k] = m] \in [Keys -> Maybe]
    BY <1>2, <1>5 DEF Stores
  <2>2. new = [objects |-> s.objects \cup {k}, meta |-> [s.meta EXCEPT ![k] = m],
               version |-> s.version + 1]
    BY <1>9 DEF MultiSet, bump_version, Stores
  <2> QED
    BY <2>1, <2>2 DEF Stores
<1>11. \A x \in Keys : new.meta[x] = IF x = k THEN m ELSE s.meta[x]
  BY <1>10 DEF Stores
<1>12. PutOf(r).type = "Put" /\ PutOf(r).key = k /\ PutOf(r).meta = m
  BY <1>6
<1> QED
  BY <1>1, <1>3, <1>5, <1>7, <1>8, <1>9, <1>10, <1>11, <1>12 DEF Applied

\* A deletion removes every object its name is a prefix of.
LEMMA DeleteApplied ==
  ASSUME ScenarioInv, NEW r \in Requests, Ask(r).op = "delete_object", NEW s \in Stores
  PROVE  Applied(s, MultiDelete(s, Ask(r).key), DeleteOf(r), Ask(r).key)
<1>1. PICK k : k = Ask(r).key
  OBVIOUS
<1>2. k \in Keys
  BY <1>1, AskType DEF Readers
<1>3. DeleteOf(r) = [type |-> "Delete", key |-> k, meta |-> NoMeta]
  BY <1>1 DEF DeleteOf
<1>4. DeleteOf(r) \in Changes
  BY <1>2, <1>3 DEF Changes
<1>5. \A x \in Keys : Touches(DeleteOf(r), x) <=> x \in Under(k)
  BY <1>3 DEF Touches, Under
<1>6. k \in Under(k)
  BY <1>2, SelfPrefix
<1>7. PICK new : new = MultiDelete(s, k)
  OBVIOUS
<1>8. /\ new \in Stores /\ new.version = s.version + 1
      /\ new.objects = s.objects \ Under(k) /\ new.meta = [s.meta EXCEPT ![k] = NoMeta]
  <2>1. /\ s.objects \ Under(k) \in SUBSET Keys /\ s.version + 1 \in Nat
        /\ [s.meta EXCEPT ![k] = NoMeta] \in [Keys -> Maybe]
    BY <1>2 DEF Stores, Maybe
  <2>2. new = [objects |-> s.objects \ Under(k), meta |-> [s.meta EXCEPT ![k] = NoMeta],
               version |-> s.version + 1]
    BY <1>7 DEF MultiDelete, bump_version, Stores
  <2> QED
    BY <2>1, <2>2 DEF Stores
<1>9. \A x \in Keys : new.meta[x] = IF x = k THEN NoMeta ELSE s.meta[x]
  BY <1>8 DEF Stores
<1>10. /\ DeleteOf(r).type = "Delete" /\ DeleteOf(r).key = k
       /\ DeleteOf(r).meta = NoMeta
  BY <1>3
<1> QED
  BY <1>1, <1>2, <1>4, <1>5, <1>6, <1>7, <1>8, <1>9, <1>10 DEF Applied

\* A transaction: request r makes its change c of bucket b, whose entries are s
\* from then on, and goes on as n.
Commits(r, b, c, s, n) ==
  /\ b \in Buckets /\ b = Bucket(r) /\ Ask(r).key \in Keys
  /\ c = ChangeOf(r) /\ Applied(stores[b], s, c, Ask(r).key)
  /\ c.type = "Put" <=> Ask(r).op = "put_object"
  /\ c.type = "Put" => Ask(r).content \in blobs \/ Shared(Ask(r).content)
  /\ stores' = [stores EXCEPT ![b] = s] /\ log' = [log EXCEPT ![b] = Append(@, c)]
  /\ UNCHANGED <<scenario, actors, buckets, blobs, tmp, replication, crashes>>
  /\ proc[r].version = 0 /\ n \in Procs /\ proc' = [proc EXCEPT ![r] = n]
  /\ n.version = s.version /\ n.meta = proc[r].meta /\ n.items = proc[r].items
  /\ n.began = proc[r].began /\ n.status = "running" /\ n.code = "none"
  /\ Ask(r).op = "delete_object" => proc[r].status = "running" /\ proc[r].at = 5
  /\ Ask(r).op \in {"put_object", "delete_object"}
  /\ n.at >= 6 /\ (n.at # 6 \/ c.type # "Put")

\* A transaction keeps the invariant.
LEMMA CommitStep ==
  ASSUME Inv, NEW r \in Requests, NEW b, NEW c, NEW s, NEW n, Commits(r, b, c, s, n),
         Control(r)'
  PROVE  Inv'
<1> USE DEF Commits
<1>0. b \in Buckets /\ n \in Procs
  OBVIOUS
<1>1. PICK len : len = Len(log[b])
  OBVIOUS
<1>2. log[b] \in Seq(Changes) /\ log \in [Buckets -> Seq(Changes)] /\ c \in Changes
  BY DEF Inv, StateInv, Applied
<1>3. /\ len \in Nat /\ DOMAIN log[b] = 1..len
      /\ log'[b] = Append(log[b], c) /\ Len(log'[b]) = len + 1
      /\ DOMAIN log'[b] = 1..(len + 1) /\ log'[b] \in Seq(Changes)
      /\ \A i \in 1..len : log'[b][i] = log[b][i]
      /\ log'[b][len + 1] = c
  BY <1>1, <1>2, AppendProperties, LenProperties
<1>4. \A d \in Buckets : d # b => log'[d] = log[d] /\ stores'[d] = stores[d]
  BY <1>2 DEF Inv, StateInv
<1>5. stores'[b] = s /\ stores[b] \in Stores /\ s \in Stores
  BY DEF Inv, StateInv, Applied
<1>6. n.version = len + 1 /\ s.version = len + 1 /\ n.version # 0
  BY <1>1, <1>3 DEF Inv, VersionsInv, Applied
<1>7. proc'[r] = n /\ ProcInv' /\ \A q \in Requests : q # r => proc'[q] = proc[q]
  BY DEF Inv, ProcInv
<1>8. \A q \in Requests : proc[q].version # 0 => q # r /\ proc'[q] = proc[q]
  BY <1>7
<1>9. \A q \in Requests : proc[q].version # 0 /\ Bucket(q) = b => proc[q].version \in 1..len
  BY <1>3 DEF Inv, VersionsInv, Committed
<1>10. \A q \in Requests : q # r => Control(q)' /\ Ask(q)' = Ask(q) /\ Bucket(q)' = Bucket(q)
  BY <1>7, SameControl, SameAsk DEF Inv
<1>11. StateInv' /\ ScenarioInv'
  <2>1. stores' \in [Buckets -> Stores] /\ log' \in [Buckets -> Seq(Changes)]
    BY <1>2, <1>3, <1>5 DEF Inv, StateInv
  <2> QED
    BY <2>1 DEF Inv, StateInv, ScenarioInv, replication
<1>12. VersionsInv'
  <2>1. \A d \in Buckets : stores'[d].version = Len(log'[d])
    BY <1>3, <1>4, <1>5, <1>6 DEF Inv, VersionsInv
  <2>2. ASSUME NEW q \in Requests PROVE Committed(q)'
    <3>1. CASE q = r
      <4>1. n.version \in DOMAIN log'[b] /\ log'[b][n.version] = c
        BY <1>3, <1>6
      <4> QED
        BY <1>7, <3>1, <4>1, SameAsk DEF Committed
    <3>2. CASE q # r /\ Bucket(q) = b
      <4>1. proc[q].version # 0 =>
              proc[q].version \in DOMAIN log'[b] /\ log'[b][proc[q].version] = ChangeOf(q)
        BY <1>3, <1>9, <3>2 DEF Inv, VersionsInv, Committed
      <4> QED
        BY <1>7, <3>2, <4>1, SameAsk DEF Committed
    <3>3. CASE q # r /\ Bucket(q) # b
      <4>1. log'[Bucket(q)] = log[Bucket(q)]
        BY <1>4, <3>3, AskType DEF Inv
      <4> QED
        BY <1>7, <3>3, <4>1, SameAsk DEF Committed, Inv, VersionsInv
    <3> QED
      BY <3>1, <3>2, <3>3
  <2>3. ASSUME NEW p \in Requests, NEW q \in Requests, Bucket(p) = Bucket(q),
               proc'[p].version = proc'[q].version, proc'[p].version # 0
        PROVE  p = q
    <3>1. ASSUME NEW x \in Requests, x # r, Bucket(x) = b PROVE proc'[x].version # len + 1
      <4>1. proc'[x].version = proc[x].version
        BY <1>7, <3>1
      <4>2. CASE proc[x].version = 0
        BY <1>3, <4>1, <4>2
      <4>3. CASE proc[x].version # 0
        BY <1>3, <1>9, <3>1, <4>1, <4>3
      <4> QED
        BY <4>2, <4>3
    <3> QED
      BY <1>6, <1>7, <2>3, <3>1 DEF Inv, VersionsInv
  <2> QED
    BY <2>1, <2>2, <2>3, SameAsk DEF VersionsInv
<1>13. \A m, d, k : Written(m, d, k) => Written(m, d, k)'
  BY <1>8, SameWritten
<1>14. SourceInv'
  <2>1. ASSUME NEW d \in Buckets, NEW k \in Keys, NEW m, m = stores'[d].meta[k], m # NoMeta
        PROVE  Written(m, d, k)'
    <3>1. CASE m = stores[d].meta[k]
      BY <1>13, <2>1, <3>1 DEF Inv, SourceInv
    <3>2. CASE m # stores[d].meta[k]
      <4>1. d = b /\ k = Ask(r).key /\ m = c.meta
        BY <1>4, <1>5, <2>1, <3>2 DEF Applied
      <4>2. c = PutOf(r) /\ Ask(r).op = "put_object"
        BY <2>1, <4>1 DEF Applied, ChangeOf
      <4>3. m = PutOf(r).meta /\ m.writer = r
        BY <4>1, <4>2 DEF PutOf
      <4> QED
        BY <1>6, <1>7, <4>1, <4>2, <4>3, SameAsk DEF Written
    <3> QED
      BY <3>1, <3>2
  <2>2. ASSUME NEW q \in Requests, NEW m, m = proc'[q].meta, m # NoMeta
        PROVE  /\ Written(m, Bucket(q), Ask(q).key)'
               /\ proc'[q].version # 0 => proc'[m.writer].version < proc'[q].version
    <3>1. m = proc[q].meta
      BY <1>7, <2>2
    <3>2. PICK d, k : d = Bucket(q) /\ k = Ask(q).key
      OBVIOUS
    <3>3. Written(m, d, k) /\ (proc[q].version # 0 => proc[m.writer].version < proc[q].version)
      BY <2>2, <3>1, <3>2 DEF Inv, SourceInv
    <3>4. Written(m, Bucket(q), Ask(q).key)'
      BY <1>13, <3>2, <3>3, SameAsk
    <3>5. /\ m.writer \in Requests /\ proc[m.writer].version # 0
          /\ Bucket(m.writer) = Bucket(q) /\ proc'[m.writer] = proc[m.writer]
      BY <1>8, <3>2, <3>3 DEF Written
    <3>6. CASE q = r
      BY <1>3, <1>6, <1>7, <1>9, <3>4, <3>5, <3>6
    <3>7. CASE q # r
      BY <1>7, <3>3, <3>4, <3>5, <3>7
    <3> QED
      BY <3>6, <3>7
  <2> QED
    BY <2>1, <2>2 DEF SourceInv
<1>15. NewestInv'
  <2> SUFFICES ASSUME NEW d \in Buckets, NEW k \in stores'[d].objects
               PROVE  /\ stores'[d].meta[k] # NoMeta
                      /\ \A i \in DOMAIN log'[d] :
                           i > proc'[stores'[d].meta[k].writer].version
                             => ~Touches(log'[d][i], k)
    BY DEF NewestInv, Touches
  <2>0. k \in Keys
    BY <1>11 DEF StateInv, Stores
  <2>1. PICK m : m = stores'[d].meta[k]
    OBVIOUS
  <2>2. ASSUME k \in stores[d].objects, m = stores[d].meta[k]
        PROVE  /\ m # NoMeta /\ proc'[m.writer] = proc[m.writer]
               /\ \A i \in DOMAIN log[d] : i > proc[m.writer].version => ~Touches(log[d][i], k)
    <3>1. m # NoMeta
      BY <2>2 DEF Inv, NewestInv
    <3>2. m.writer \in Requests /\ proc[m.writer].version # 0
      BY <2>0, <2>2, <3>1 DEF Inv, SourceInv, Written
    <3> QED
      BY <1>8, <2>2, <3>1, <3>2 DEF Inv, NewestInv
  <2>3. CASE d # b
    BY <1>4, <2>1, <2>2, <2>3
  <2>4. CASE d = b /\ ~Touches(c, k)
    <3>1. k \in stores[d].objects /\ m = stores[d].meta[k]
      BY <1>5, <2>0, <2>1, <2>4 DEF Applied
    <3>2. \A i \in DOMAIN log'[b] : i \in DOMAIN log[b] \/ i = len + 1
      BY <1>3
    <3> QED
      BY <1>3, <2>1, <2>2, <2>4, <3>1, <3>2
  <2>5. CASE d = b /\ Touches(c, k)
    <3>1. c.type = "Put" /\ m = c.meta
      BY <1>5, <2>0, <2>1, <2>5 DEF Applied
    <3>2. m # NoMeta /\ m.writer = r
      BY <3>1 DEF Applied, ChangeOf, PutOf
    <3>3. \A i \in DOMAIN log'[b] : ~(i > len + 1)
      BY <1>3
    <3> QED
      BY <1>6, <1>7, <2>1, <2>5, <3>2, <3>3
  <2> QED
    BY <2>3, <2>4, <2>5
<1>16. LastsInv'
  <2> SUFFICES ASSUME NEW q \in Requests, Ask(q).op = "put_object", proc'[q].version # 0
               PROVE  \/ \E w \in proc'[q].version + 1 .. Len(log'[Bucket(q)]) :
                           Touches(log'[Bucket(q)][w], Ask(q).key)
                      \/ /\ Ask(q).key \in stores'[Bucket(q)].objects
                         /\ stores'[Bucket(q)].meta[Ask(q).key] = PutOf(q).meta
    <3>1. \A q \in Requests : /\ Ask(q)' = Ask(q) /\ Bucket(q)' = Bucket(q)
                              /\ PutOf(q)' = PutOf(q)
      BY SameAsk
    <3> QED
      BY <3>1 DEF LastsInv
  <2>0. Ask(q).key \in Keys /\ Bucket(q) \in Buckets
    BY AskType DEF Inv
  <2>1. PICK k : k = Ask(q).key
    OBVIOUS
  <2>2. CASE q = r
    <3>1. c.type = "Put" /\ c = PutOf(r) /\ Touches(c, k)
      BY <2>1, <2>2 DEF Applied, ChangeOf
    <3>2. k \in s.objects /\ s.meta[k] = c.meta
      BY <2>0, <2>1, <3>1 DEF Applied
    <3> QED
      BY <1>5, <2>1, <2>2, <3>1, <3>2
  <2>3. CASE q # r
    <3>1. /\ proc'[q] = proc[q] /\ proc[q].version # 0
          /\ \/ \E w \in proc[q].version + 1 .. Len(log[Bucket(q)]) :
                           Touches(log[Bucket(q)][w], k)
             \/ k \in stores[Bucket(q)].objects /\ stores[Bucket(q)].meta[k] = PutOf(q).meta
      BY <1>7, <2>1, <2>3 DEF Inv, LastsInv
    <3>2. CASE Bucket(q) # b
      BY <1>4, <2>0, <2>1, <3>1, <3>2
    <3>3. CASE Bucket(q) = b
      <4>1. proc[q].version \in 1..len
        BY <1>9, <3>1, <3>3
      <4>2. ASSUME NEW w \in proc[q].version + 1 .. len, Touches(log[b][w], k)
            PROVE  w \in proc[q].version + 1 .. len + 1 /\ Touches(log'[b][w], k)
        BY <1>3, <4>1, <4>2
      <4>3. ASSUME Touches(c, k)
            PROVE  len + 1 \in proc[q].version + 1 .. len + 1 /\ Touches(log'[b][len + 1], k)
        BY <1>3, <4>1, <4>3
      <4>4. ASSUME ~Touches(c, k)
            PROVE  (k \in s.objects <=> k \in stores[b].objects) /\ s.meta[k] = stores[b].meta[k]
        BY <2>0, <2>1, <4>4 DEF Applied
      <4>5. CASE \E w \in proc[q].version + 1 .. len : Touches(log[b][w], k)
        BY <1>3, <2>1, <3>1, <3>3, <4>2, <4>5, ZenonT(40)
      <4>6. CASE Touches(c, k)
        BY <1>3, <2>1, <3>1, <3>3, <4>3, <4>6
      <4>7. CASE /\ ~Touches(c, k) /\ k \in stores[b].objects
                 /\ stores[b].meta[k] = PutOf(q).meta
        BY <1>5, <2>1, <3>3, <4>4, <4>7
      <4> QED
        BY <1>1, <3>1, <3>3, <4>5, <4>6, <4>7
    <3> QED
      BY <3>2, <3>3
  <2> QED
    BY <2>2, <2>3
<1>17. BlobsInv'
  <2>1. \A x : Shared(x)' = Shared(x)
    BY SameAsk DEF Shared
  <2>2. ASSUME NEW d \in Buckets, NEW k \in stores'[d].objects, NEW m, m = stores'[d].meta[k]
        PROVE  m # NoMeta /\ (m.sha256sum \in blobs \/ Shared(m.sha256sum))
    <3>0. k \in Keys
      BY <1>11, <2>2 DEF StateInv, Stores
    <3>1. CASE k \in stores[d].objects /\ m = stores[d].meta[k]
      BY <3>1 DEF Inv, BlobsInv, NoDanglingObject
    <3>2. CASE d = b /\ Touches(c, k)
      <4>1. c.type = "Put" /\ m = c.meta /\ c = PutOf(r) /\ m # NoMeta
        BY <1>5, <2>2, <3>0, <3>2 DEF Applied, ChangeOf
      <4>2. m.sha256sum = Ask(r).content
        BY <4>1 DEF PutOf
      <4> QED
        BY <4>1, <4>2
    <3>3. CASE d = b /\ ~Touches(c, k)
      BY <1>5, <2>2, <3>0, <3>1, <3>3 DEF Applied
    <3> QED
      BY <1>4, <2>2, <3>1, <3>2, <3>3
  <2>3. ASSUME NEW q \in Requests, Ask(q).op = "put_object", proc'[q].status = "running",
               proc'[q].at \in {5, 6}
        PROVE  Ask(q).content \in blobs \/ Shared(Ask(q).content)
    <3>1. CASE q = r
      BY <2>3, <3>1
    <3>2. CASE q # r
      BY <1>7, <2>3, <3>2 DEF Inv, BlobsInv
    <3> QED
      BY <3>1, <3>2
  <2>4. NoDanglingObject'
    BY <2>1, <2>2 DEF NoDanglingObject
  <2> QED
    BY <2>1, <2>3, <2>4, SameAsk DEF BlobsInv
<1>18. \A k \in Keys : /\ Touches(c, k) => MetaAfter(b, k, len + 1)' = c.meta
                       /\ ~Touches(c, k) => MetaAfter(b, k, len + 1)' = MetaAfter(b, k, len)
  <2> SUFFICES ASSUME NEW k \in Keys
               PROVE  /\ Touches(c, k) => MetaAfter(b, k, len + 1)' = c.meta
                      /\ ~Touches(c, k) => MetaAfter(b, k, len + 1)' = MetaAfter(b, k, len)
    OBVIOUS
  <2>1. /\ log[b] \in Seq(Changes) /\ len \in Nat /\ Len(log[b]) = len
        /\ log'[b] = Append(log[b], c)
    BY <1>1, <1>2, <1>3
  <2> QED
    BY <2>1, Appended, SMTT(30)
<1>19. LogInv'
  <2> SUFFICES ASSUME NEW d \in Buckets, NEW k \in Keys
               PROVE  (MetaAfter(d, k, Len(log[d])) =
                        IF k \in stores[d].objects THEN stores[d].meta[k] ELSE NoMeta)'
    BY DEF LogInv
  <2>1. PICK l : l = Len(log'[d])
    OBVIOUS
  <2>2. MetaAfter(d, k, l)'
          = IF k \in stores'[d].objects THEN stores'[d].meta[k] ELSE NoMeta
    <3>1. CASE d # b
      <4>1. l = Len(log[d]) /\ MetaAfter(d, k, l)' = MetaAfter(d, k, l)
        BY <1>4, <2>1, <3>1 DEF MetaAfter, Touches
      <4> QED
        BY <1>4, <3>1, <4>1 DEF Inv, LogInv
    <3>2. CASE d = b /\ Touches(c, k)
      BY <1>3, <1>5, <1>18, <2>1, <3>2 DEF Applied
    <3>3. CASE d = b /\ ~Touches(c, k)
      BY <1>1, <1>3, <1>5, <1>18, <2>1, <3>3 DEF Applied, Inv, LogInv
    <3> QED
      BY <3>1, <3>2, <3>3
  <2> QED
    BY <2>1, <2>2
<1>20. ASSUME NEW q \in Requests
       PROVE  /\ Bucket(q) \in Buckets /\ proc'[q].began = proc[q].began
              /\ proc[q].began \in Nat /\ log[Bucket(q)] \in Seq(Changes)
              /\ \/ log'[Bucket(q)] = log[Bucket(q)]
                 \/ \E x : log'[Bucket(q)] = Append(log[Bucket(q)], x)
              /\ proc'[q].began <= Len(log'[Bucket(q)])
  <2>1. Bucket(q) \in Buckets /\ proc[q].began \in Nat
    BY AskType DEF Inv, ProcInv, Procs
  <2>2. proc'[q].began = proc[q].began
    BY <1>7
  <2>3. proc[q].began <= Len(log[Bucket(q)])
    BY DEF Inv, Reading
  <2>4. CASE Bucket(q) = b
    BY <1>1, <1>2, <1>3, <2>1, <2>2, <2>3, <2>4
  <2>5. CASE Bucket(q) # b
    BY <1>2, <1>4, <2>1, <2>2, <2>3, <2>5
  <2> QED
    BY <2>4, <2>5
<1>21. ASSUME NEW q \in Requests, NEW k, NEW m, Was(q, k, m) PROVE Was(q, k, m)'
  <2>1. PICK d : d = Bucket(q)
    OBVIOUS
  <2>2. Bucket(q)' = d
    BY <2>1, SameAsk
  <2> QED
    BY <1>20, <1>21, <2>1, <2>2, WasKept
<1>22. ASSUME NEW q \in Requests, NEW k \in Keys, NEW m, m = stores'[Bucket(q)].meta[k],
              Was(q, k, stores[Bucket(q)].meta[k])
       PROVE  Was(q, k, m)'
  <2>1. CASE m = stores[Bucket(q)].meta[k]
    BY <1>21, <1>22, <2>1
  <2>2. CASE m # stores[Bucket(q)].meta[k]
    <3>1. Bucket(q) = b /\ k = Ask(r).key /\ m = c.meta
      BY <1>4, <1>5, <1>20, <1>22, <2>2 DEF Applied
    <3>2. MetaAfter(b, k, len + 1)' = m
      BY <1>18, <3>1 DEF Applied
    <3>3. len + 1 \in proc'[q].began .. Len(log'[b])
      BY <1>3, <1>20, <3>1
    <3> QED
      BY <3>1, <3>2, <3>3, SameAsk DEF Was
  <2> QED
    BY <2>1, <2>2
<1>23. ASSUME NEW q \in Requests PROVE Reading(q)'
  <2>1. CASE q = r
    <3>1. Ask(r).op = "delete_object" =>
            Was(r, Ask(r).key, proc[r].meta) /\ proc[r].items = {Item(Ask(r).key, proc[r].meta)}
      <4>1. ASSUME Ask(r).op = "delete_object"
            PROVE  Ask(r).op \in Readers /\ proc[r].status = "running" /\ proc[r].at > 4
        BY <4>1 DEF Readers
      <4> QED
        BY <4>1 DEF Inv, Reading
    <3>2. PICK k, m : k = Ask(r).key /\ m = n.meta
      OBVIOUS
    <3>3. Ask(r).op = "delete_object" => Was(r, k, m)' /\ n.items = {Item(k, m)}
      BY <1>21, <3>1, <3>2
    <3>4. Ask(r).op \notin {"head_object", "get_object", "list_objects"}
      OBVIOUS
    <3>5. n.at \in Nat /\ n.at # 4 /\ ~(n.at < 4)
      BY DEF Procs
    <3>6. r \in Requests /\ proc'[r].began <= Len(log'[Bucket(r)])
      BY <1>20
    <3>7. Ask(r)' = Ask(r) /\ Bucket(r)' = Bucket(r)
      BY SameAsk
    <3> QED
      BY <1>7, <2>1, <3>2, <3>3, <3>4, <3>5, <3>6, <3>7 DEF Reading, Readers
  <2>2. CASE q # r
    <3>1. proc'[q] = proc[q] /\ Ask(q)' = Ask(q) /\ Bucket(q)' = Bucket(q) /\ Reading(q)
      BY <1>7, <2>2, SameAsk DEF Inv
    <3>2. \A k, m : Was(q, k, m) => Was(q, k, m)'
      BY <1>21
    <3>3. AllWere(q) => AllWere(q)'
      BY <3>1, <3>2 DEF AllWere
    <3>4. Listed(q) => Listed(q)'
      BY <3>1, <3>2 DEF Listed
    <3>5. \A k \in Keys : Was(q, k, stores[Bucket(q)].meta[k])
                            => Was(q, k, stores[Bucket(q)].meta[k])'
      <4> SUFFICES ASSUME NEW k \in Keys, Was(q, k, stores[Bucket(q)].meta[k])
                   PROVE  Was(q, k, stores[Bucket(q)].meta[k])'
        OBVIOUS
      <4>1. PICK m : m = stores'[Bucket(q)].meta[k]
        OBVIOUS
      <4>2. Was(q, k, m)'
        BY <1>22, <4>1
      <4> QED
        BY <3>1, <4>1, <4>2
    <3>6. PICK k : k = Ask(q).key
      OBVIOUS
    <3>7. /\ Ask(q).op \in Readers => k \in Keys
          /\ proc[q].began <= Len(log'[Bucket(q)])
      BY <1>20, <3>1, <3>6, AskType DEF Inv
    <3>8. Was(q, k, proc[q].meta) => Was(q, k, proc[q].meta)'
      BY <3>1, <3>2
    <3> QED
      BY <3>1, <3>2, <3>3, <3>4, <3>5, <3>6, <3>7, <3>8 DEF Reading
  <2> QED
    BY <2>1, <2>2
<1>24. EventsInv'
  <2>0. UNCHANGED <<events, submitted>>
    BY DEF replication
  <2>1. ASSUME NEW e \in Events, e \in submitted \/ \E i \in DOMAIN events : events[i] = e
        PROVE  /\ e.version \in DOMAIN log'[e.bucket]
               /\ log'[e.bucket][e.version] = e.change
               /\ \A q \in Requests : Announcing(q)' => ReplicateEvent(q)' # e
    <3>1. /\ e.version \in DOMAIN log[e.bucket] /\ log[e.bucket][e.version] = e.change
          /\ \A q \in Requests : Announcing(q) => ReplicateEvent(q) # e
      BY <2>1 DEF Inv, EventsInv
    <3>2. e.bucket \in Buckets
      BY DEF Events
    <3>3. e.version \in DOMAIN log'[e.bucket] /\ log'[e.bucket][e.version] = e.change
      <4>1. CASE e.bucket = b
        BY <1>3, <3>1, <4>1
      <4>2. CASE e.bucket # b
        BY <1>4, <3>1, <3>2, <4>2
      <4> QED
        BY <4>1, <4>2
    <3>4. ASSUME NEW q \in Requests, Announcing(q)' PROVE ReplicateEvent(q)' # e
      <4>1. CASE q = r
        <5>1. ReplicateEvent(r)'.bucket = b /\ ReplicateEvent(r)'.version = len + 1
          BY <1>6, <1>7, SameAsk DEF ReplicateEvent, EventOf
        <5>2. e.bucket = b => e.version # len + 1
          BY <1>3, <3>1
        <5> QED
          BY <4>1, <5>1, <5>2
      <4>2. CASE q # r
        <5>1. Announcing(q) /\ ReplicateEvent(q)' = ReplicateEvent(q)
          BY <1>7, <3>4, <4>2, SameAsk DEF Announcing, ReplicateEvent, EventOf
        <5> QED
          BY <3>1, <5>1
      <4> QED
        BY <4>1, <4>2
    <3> QED
      BY <3>3, <3>4
  <2> QED
    BY <2>0, <2>1 DEF Inv, EventsInv
<1>25. \A q \in Requests : Control(q)'
  BY <1>10
<1> QED
  BY <1>7, <1>11, <1>12, <1>14, <1>15, <1>16, <1>17, <1>19, <1>23, <1>24, <1>25 DEF Inv

\* A put commits its metadata when its blob is there.
LEMMA CommitPutStep ==
  ASSUME Inv, NEW r \in Requests, CommitPut(r)
  PROVE  Inv'
<1>1. At(r, "commit_put")
  BY DEF CommitPut, AtStore
<1>2. /\ proc[r] \in Procs /\ proc[r].status = "running" /\ proc[r].code = "none"
      /\ Control(r) /\ HasBody(r) /\ Bucket(r) \in Buckets
      /\ Ask(r).op = "put_object" /\ proc[r].at = 6
      /\ ~LastStep(Ask(r).op, proc[r].at) =>
           /\ proc[r].at # Len(Program(Ask(r).op))
           /\ proc[r].at + 1 \in DOMAIN Program(Ask(r).op)
  BY <1>1, Place, Where
<1>3. proc[r].at # Len(Program(Ask(r).op)) /\ proc[r].at + 1 \in DOMAIN Program(Ask(r).op)
  BY <1>2 DEF LastStep
<1>4. PICK b, c, s : /\ b = Bucket(r) /\ c = PutOf(r)
                     /\ s = MultiSet(Entries(r), Ask(r).key, PutOf(r).meta)
  OBVIOUS
<1>5. /\ stores' = [stores EXCEPT ![b] = s] /\ log' = [log EXCEPT ![b] = Append(@, c)]
      /\ Proceed(r, [proc[r] EXCEPT !.version = s.version])
      /\ UNCHANGED <<scenario, actors, buckets, blobs, tmp, replication, crashes>>
  BY <1>4 DEF CommitPut, Commit
<1>6. stores[b] \in Stores /\ Ask(r).key \in Keys
  BY <1>2, <1>4, AskType DEF Inv, StateInv
<1>7. Applied(stores[b], s, c, Ask(r).key)
  BY <1>2, <1>4, <1>6, PutApplied DEF Inv, Entries
<1>8. s.version \in Nat /\ s.version # 0
  BY <1>6, <1>7 DEF Applied, Stores
<1>9. PICK p : p = [proc[r] EXCEPT !.version = s.version]
  OBVIOUS
<1>10. /\ p \in Procs /\ p.at = 6 /\ p.version = s.version /\ p.meta = proc[r].meta
       /\ p.items = proc[r].items /\ p.began = proc[r].began /\ p.status = "running"
       /\ p.code = "none"
  BY <1>2, <1>8, <1>9 DEF Procs
<1>11. Moved(r, p)
  BY <1>5, <1>9, <1>10, Proceeded
<1>12. PICK n : n = proc'[r]
  OBVIOUS
<1>13. /\ proc' = [proc EXCEPT ![r] = n] /\ n \in Procs
       /\ n.meta = proc[r].meta /\ n.version = s.version
       /\ n.items = proc[r].items /\ n.began = proc[r].began
       /\ n.status = "running" /\ n.code = "none" /\ n.at = 7
       /\ n.at \in DOMAIN Program(Ask(r).op)
  BY <1>2, <1>3, <1>10, <1>11, <1>12 DEF Moved
<1>14. Control(r)'
  BY <1>2, <1>5, <1>8, <1>12, <1>13, SameAsk DEF Control
<1>15. proc[r].version = 0
  BY <1>2 DEF Control
<1>16. c.type = "Put" /\ c = ChangeOf(r)
  BY <1>2, <1>4 DEF ChangeOf, PutOf
<1>17. Ask(r).content \in blobs \/ Shared(Ask(r).content)
  BY <1>2 DEF Inv, BlobsInv
<1>18. Commits(r, b, c, s, n)
  BY <1>2, <1>4, <1>5, <1>6, <1>7, <1>13, <1>15, <1>16, <1>17 DEF Commits
<1> QED
  BY <1>14, <1>18, CommitStep

\* A deletion commits the removal of its object before it removes the blob.
LEMMA CommitDeleteStep ==
  ASSUME Inv, NEW r \in Requests, CommitDelete(r)
  PROVE  Inv'
<1>1. At(r, "commit_delete")
  BY DEF CommitDelete, AtStore
<1>2. /\ proc[r] \in Procs /\ proc[r].status = "running" /\ proc[r].code = "none"
      /\ Control(r) /\ HasBody(r) /\ Bucket(r) \in Buckets
      /\ Ask(r).op = "delete_object" /\ proc[r].at = 5
      /\ ~LastStep(Ask(r).op, proc[r].at) =>
           /\ proc[r].at # Len(Program(Ask(r).op))
           /\ proc[r].at + 1 \in DOMAIN Program(Ask(r).op)
  BY <1>1, Place, Where
<1>3. proc[r].at # Len(Program(Ask(r).op)) /\ proc[r].at + 1 \in DOMAIN Program(Ask(r).op)
  BY <1>2 DEF LastStep
<1>4. PICK b, c, s : /\ b = Bucket(r) /\ c = DeleteOf(r)
                     /\ s = MultiDelete(Entries(r), Ask(r).key)
  OBVIOUS
<1>5. /\ stores' = [stores EXCEPT ![b] = s] /\ log' = [log EXCEPT ![b] = Append(@, c)]
      /\ Proceed(r, [proc[r] EXCEPT !.version = s.version])
      /\ UNCHANGED <<scenario, actors, buckets, blobs, tmp, replication, crashes>>
  BY <1>4 DEF CommitDelete, Commit
<1>6. stores[b] \in Stores /\ Ask(r).key \in Keys
  BY <1>2, <1>4, AskType DEF Inv, StateInv, Readers
<1>7. Applied(stores[b], s, c, Ask(r).key)
  BY <1>2, <1>4, <1>6, DeleteApplied DEF Inv, Entries
<1>8. s.version \in Nat /\ s.version # 0
  BY <1>6, <1>7 DEF Applied, Stores
<1>9. PICK p : p = [proc[r] EXCEPT !.version = s.version]
  OBVIOUS
<1>10. /\ p \in Procs /\ p.at = 5 /\ p.version = s.version /\ p.meta = proc[r].meta
       /\ p.items = proc[r].items /\ p.began = proc[r].began /\ p.status = "running"
       /\ p.code = "none"
  BY <1>2, <1>8, <1>9 DEF Procs
<1>11. Moved(r, p)
  BY <1>5, <1>9, <1>10, Proceeded
<1>12. PICK n : n = proc'[r]
  OBVIOUS
<1>13. /\ proc' = [proc EXCEPT ![r] = n] /\ n \in Procs
       /\ n.meta = proc[r].meta /\ n.version = s.version
       /\ n.items = proc[r].items /\ n.began = proc[r].began
       /\ n.status = "running" /\ n.code = "none" /\ n.at = 6
       /\ n.at \in DOMAIN Program(Ask(r).op)
  BY <1>2, <1>3, <1>10, <1>11, <1>12 DEF Moved
<1>14. Control(r)'
  BY <1>2, <1>5, <1>8, <1>12, <1>13, SameAsk DEF Control
<1>15. proc[r].version = 0
  BY <1>2 DEF Control
<1>16. c.type # "Put" /\ c = ChangeOf(r)
  BY <1>2, <1>4 DEF ChangeOf, DeleteOf
<1>18. Commits(r, b, c, s, n)
  BY <1>2, <1>4, <1>5, <1>6, <1>7, <1>13, <1>15, <1>16 DEF Commits
<1> QED
  BY <1>14, <1>18, CommitStep

-------------------------------------------------------------------------------
(* The steps of the DtrdClient and of the process *)

\* Request q stands still, or is lost in a crash.
Dropped(q) ==
  \/ proc'[q] = proc[q]
  \/ proc[q].status = "running" /\ proc'[q] = [proc[q] EXCEPT !.status = "lost"]

\* Requests and the mailboxes may be lost; what is on disk stays.
LEMMA Lost ==
  ASSUME Inv, UNCHANGED <<scenario, stores, log, blobs, submitted>>,
         events' = events \/ events' = <<>>, StateInv', ProcInv',
         \A q \in Requests : Dropped(q)
  PROVE  Inv'
<1>1. ASSUME NEW q \in Requests
      PROVE  /\ proc'[q].version = proc[q].version /\ proc'[q].meta = proc[q].meta
             /\ proc'[q].began = proc[q].began /\ proc'[q].items = proc[q].items
             /\ proc'[q].todo = proc[q].todo /\ proc'[q].code = proc[q].code
             /\ proc'[q].at = proc[q].at
             /\ \/ proc'[q] = proc[q]
                \/ proc[q].status = "running" /\ proc'[q].status = "lost"
  <2>1. proc[q] \in Procs
    BY DEF Inv, ProcInv
  <2> QED
    BY <2>1 DEF Dropped, Procs
<1>2. ScenarioInv' /\ VersionsInv' /\ NewestInv' /\ LastsInv' /\ LogInv' /\ SourceInv'
  BY <1>1, SameVersions, SameNewest, SameLasts, SameLog, SameSource DEF Inv, ScenarioInv
<1>3. ASSUME NEW q \in Requests PROVE Control(q)'
  <2>1. CASE proc'[q] = proc[q]
    BY <2>1, SameControl DEF Inv
  <2>2. CASE proc[q].status = "running" /\ proc'[q].status = "lost"
    <3>1. Control(q)
      BY DEF Inv
    <3> QED
      BY <1>1, <2>2, <3>1, SameAsk DEF Control
  <2> QED
    BY <1>1, <2>1, <2>2
<1>4. ASSUME NEW q \in Requests PROVE Reading(q)'
  <2>1. CASE proc'[q] = proc[q]
    BY <2>1, SameReading DEF Inv
  <2>2. CASE proc[q].status = "running" /\ proc'[q].status = "lost"
    <3>1. Reading(q) /\ Control(q)
      BY DEF Inv
    <3>2. proc'[q].code = "none"
      BY <1>1, <2>2, <3>1 DEF Control
    <3> QED
      BY <1>1, <2>2, <3>1, <3>2, SameAsk DEF Reading
  <2> QED
    BY <1>1, <2>1, <2>2
<1>5. EventsInv'
  <2>1. \A q \in Requests :
          Announcing(q)' => Announcing(q) /\ proc'[q].version = proc[q].version
    BY <1>1, SameAsk DEF Announcing
  <2> QED
    BY <2>1, SameEvents DEF Inv
<1>6. BlobsInv'
  <2>1. NoDanglingObject'
    BY SameBlobs DEF Inv, BlobsInv
  <2>2. \A c : Shared(c)' = Shared(c)
    BY SameAsk DEF Shared
  <2> QED
    BY <1>1, <2>1, <2>2, SameAsk DEF Inv, BlobsInv
<1> QED
  BY <1>2, <1>3, <1>4, <1>5, <1>6 DEF Inv

\* The client and its mailbox are lost when dtrd refuses an event.
LEMMA SubmitFailsStep ==
  ASSUME Inv, SubmitFails
  PROVE  Inv'
<1>1. /\ UNCHANGED <<scenario, stores, log, blobs, submitted, proc, actors, buckets, tmp,
                     crashes>>
      /\ events' = <<>> /\ client' = "dead"
  BY DEF SubmitFails, disk
<1>2. StateInv'
  BY <1>1, EmptySeq DEF Inv, StateInv
<1>3. ProcInv' /\ \A q \in Requests : Dropped(q)
  BY <1>1 DEF Inv, ProcInv, Dropped
<1> QED
  BY <1>1, <1>2, <1>3, Lost

\* A crash loses the requests that run and the mailboxes.
LEMMA CrashStep ==
  ASSUME Inv, Crash
  PROVE  Inv'
<1>1. /\ UNCHANGED <<scenario, stores, log, blobs, submitted, buckets, tmp>>
      /\ events' = <<>> /\ client' \in Started /\ crashes' = crashes + 1
      /\ crashes < MaxCrashes /\ actors' = [b \in Buckets |-> "none"]
  BY DEF Crash, disk
<1>2. StateInv'
  <2>1. client' \in {"running", "dead"}
    BY <1>1 DEF Started
  <2>2. crashes' \in 0..MaxCrashes
    BY <1>1, ReplistoreAssumption DEF Inv, StateInv
  <2>3. actors' \in [Buckets -> {"none", "running", "dead"}]
    BY <1>1
  <2> QED
    BY <1>1, <2>1, <2>2, <2>3, EmptySeq DEF Inv, StateInv
<1>3. \A q \in Requests : Dropped(q)
  BY DEF Crash, Dropped
<1>4. ProcInv'
  <2>1. ASSUME NEW q \in Requests PROVE proc'[q] \in Procs
    <3>1. proc[q] \in Procs
      BY DEF Inv, ProcInv
    <3> QED
      BY <1>3, <3>1 DEF Dropped, Procs
  <2>2. proc' = [q \in Requests |-> proc'[q]]
    BY DEF Crash
  <2> QED
    BY <2>1, <2>2 DEF ProcInv
<1> QED
  BY <1>1, <1>2, <1>3, <1>4, Lost

\* The client hands over the first event of its mailbox.
LEMMA SubmitStep ==
  ASSUME Inv, Submit
  PROVE  Inv'
<1>1. /\ UNCHANGED <<scenario, stores, log, blobs, proc, actors, buckets, tmp, client,
                     crashes>>
      /\ events # <<>> /\ submitted' = submitted \cup {Head(events)}
      /\ events' = Tail(events)
  BY DEF Submit, disk
<1>2. events \in Seq(Events) /\ submitted \subseteq Events
  BY DEF Inv, StateInv
<1>3. PICK len : len = Len(events)
  OBVIOUS
<1>4. /\ len \in Nat \ {0} /\ DOMAIN events = 1..len /\ events[1] \in Events
      /\ Head(events) = events[1]
      /\ events' \in Seq(Events) /\ DOMAIN events' = 1..(len - 1)
      /\ \A i \in 1..(len - 1) : events'[i] = events[i + 1]
  BY <1>1, <1>2, <1>3, EmptySeq, LenProperties, HeadTailProperties
<1>5. StateInv'
  BY <1>1, <1>4 DEF Inv, StateInv
<1>6. EventsInv'
  <2>1. \A i \in DOMAIN events' : i + 1 \in DOMAIN events /\ events'[i] = events[i + 1]
    BY <1>4
  <2>2. 1 \in DOMAIN events /\ submitted' = submitted \cup {events[1]}
    BY <1>1, <1>4
  <2>3. \A i, j \in DOMAIN events' : events'[i] = events'[j] => i = j
    BY <1>4, <2>1 DEF Inv, EventsInv
  <2>4. \A i \in DOMAIN events' : events'[i] \notin submitted'
    BY <1>4, <2>1, <2>2 DEF Inv, EventsInv
  <2>5. \A e \in Events : e \in submitted' \/ (\E i \in DOMAIN events' : events'[i] = e)
                            => e \in submitted \/ (\E i \in DOMAIN events : events[i] = e)
    BY <2>1, <2>2
  <2>6. \A q : /\ Announcing(q)' <=> Announcing(q)
               /\ ReplicateEvent(q)' = ReplicateEvent(q)
    BY <1>1, SameAsk DEF Announcing, ReplicateEvent, EventOf
  <2> QED
    BY <1>1, <2>3, <2>4, <2>5, <2>6 DEF Inv, EventsInv
<1>7. ProcInv' /\ ScenarioInv'
  BY <1>1 DEF Inv, ProcInv, ScenarioInv
<1>8. VersionsInv' /\ NewestInv' /\ LastsInv' /\ LogInv' /\ SourceInv'
  BY <1>1, SameVersions, SameNewest, SameLasts, SameLog, SameSource DEF Inv
<1>9. \A q \in Requests : Control(q)' /\ Reading(q)'
  BY <1>1, SameControl, SameReading DEF Inv
<1>10. BlobsInv'
  <2>1. NoDanglingObject'
    BY <1>1, SameBlobs DEF Inv, BlobsInv
  <2>2. \A c : Shared(c)' = Shared(c)
    BY <1>1, SameAsk DEF Shared
  <2> QED
    BY <1>1, <2>1, <2>2, SameAsk DEF Inv, BlobsInv
<1> QED
  BY <1>5, <1>6, <1>7, <1>8, <1>9, <1>10 DEF Inv

-------------------------------------------------------------------------------
(* The invariant and the theorems *)

\* The invariant holds when the node starts.
LEMMA InitInv == Init => Inv
<1> SUFFICES ASSUME Init PROVE Inv
  OBVIOUS
<1>1. /\ scenario \in Scenarios /\ proc = [r \in Requests |-> NewProc]
      /\ buckets = scenario.buckets
      /\ stores = [b \in Buckets |-> [objects |-> {}, meta |-> [k \in Keys |-> NoMeta],
                                      version |-> 0]]
      /\ actors = [b \in Buckets |-> "none"] /\ blobs = {} /\ tmp = {}
      /\ client \in Started /\ events = <<>> /\ submitted = {}
      /\ log = [b \in Buckets |-> <<>>] /\ crashes = 0
  BY DEF Init
<1>2. ScenarioInv
  BY <1>1 DEF ScenarioInv
<1>3. NewProc \in Procs /\ ProcInv
  BY <1>1 DEF ProcInv, Procs, NewProc, Codes, Maybe
<1>4. ASSUME NEW r \in Requests
      PROVE  /\ proc[r] = NewProc /\ proc[r].status = "idle" /\ proc[r].code = "none"
             /\ proc[r].version = 0 /\ proc[r].meta = NoMeta /\ proc[r].items = {}
             /\ proc[r].began = 0 /\ Bucket(r) \in Buckets
  BY <1>1, <1>2, AskType DEF NewProc
<1>5. \A b \in Buckets : /\ log[b] = <<>> /\ Len(log[b]) = 0 /\ log[b] \in Seq(Changes)
                         /\ stores[b].objects = {} /\ stores[b].version = 0
                         /\ stores[b] \in Stores
                         /\ \A k \in Keys : stores[b].meta[k] = NoMeta
  BY <1>1, EmptySeq DEF Stores, Maybe
<1>6. StateInv
  <2>1. buckets \subseteq Buckets
    BY <1>1, ReplistoreAssumption
  <2>2. client \in {"running", "dead"}
    BY <1>1 DEF Started
  <2>3. stores \in [Buckets -> Stores] /\ log \in [Buckets -> Seq(Changes)]
    BY <1>1, <1>5
  <2>4. actors \in [Buckets -> {"none", "running", "dead"}]
    BY <1>1
  <2>5. crashes \in 0..MaxCrashes
    BY <1>1, ReplistoreAssumption
  <2>6. events \in Seq(Events)
    BY <1>1, EmptySeq
  <2> QED
    BY <1>1, <2>1, <2>2, <2>3, <2>4, <2>5, <2>6 DEF StateInv
<1>7. \A r \in Requests : Control(r)
  BY <1>4 DEF Control
<1>8. VersionsInv /\ SourceInv /\ NewestInv /\ LastsInv
  BY <1>4, <1>5 DEF VersionsInv, Committed, SourceInv, NewestInv, LastsInv
<1>9. BlobsInv
  BY <1>4, <1>5 DEF BlobsInv, NoDanglingObject
<1>10. LogInv
  BY <1>5 DEF LogInv, MetaAfter
<1>11. \A r \in Requests : Reading(r)
  BY <1>4, <1>5 DEF Reading
<1>12. EventsInv
  BY <1>1, EmptySeq DEF EventsInv
<1> QED
  BY <1>2, <1>3, <1>6, <1>7, <1>8, <1>9, <1>10, <1>11, <1>12 DEF Inv

\* Every step keeps the invariant.
LEMMA NextInv == Inv /\ [Next]_vars => Inv'
<1> SUFFICES ASSUME Inv, [Next]_vars PROVE Inv'
  OBVIOUS
<1>1. ASSUME NEW r \in Requests, Frontend(r) PROVE Inv'
  BY <1>1, FrontendStep
<1>2. ASSUME NEW r \in Requests, Step(r) PROVE Inv'
  <2>1. CASE ReadBuckets(r)
    BY <2>1, ReadBucketsStep
  <2>2. CASE CheckNew(r) \/ SetBucket(r) \/ CheckBucket(r) \/ GetOrCreateKeyValueStore(r)
    BY <2>2, OpeningSteps
  <2>3. CASE Lookup(r)
    BY <2>3, LookupStep
  <2>4. CASE ReadMeta(r)
    BY <2>4, ReadMetaStep
  <2>5. CASE ReadNames(r)
    BY <2>5, ReadNamesStep
  <2>6. CASE ReadNextMeta(r)
    BY <2>6, ReadNextMetaStep
  <2>7. CASE CommitPut(r)
    BY <2>7, CommitPutStep
  <2>8. CASE CommitDelete(r)
    BY <2>8, CommitDeleteStep
  <2>9. CASE Announce(r)
    BY <2>9, AnnounceStep
  <2>10. CASE CompareVersions(r)
    BY <2>10, CompareVersionsStep
  <2>11. CASE StoreIsDead(r) \/ StoreFails(r)
    BY <2>11, StoreErrors
  <2>12. CASE Upload(r)
    BY <2>12, UploadStep
  <2>13. CASE Rename(r)
    BY <2>13, RenameStep
  <2>14. CASE StatTarget(r)
    BY <2>14, StatTargetStep
  <2>15. CASE StatBlob(r)
    BY <2>15, StatBlobStep
  <2>16. CASE OpenBlob(r)
    BY <2>16, OpenBlobStep
  <2>17. CASE RemoveBlob(r)
    BY <2>17, RemoveBlobStep
  <2> QED
    BY <1>2, <2>1, <2>2, <2>3, <2>4, <2>5, <2>6, <2>7, <2>8, <2>9, <2>10, <2>11, <2>12,
       <2>13, <2>14, <2>15, <2>16, <2>17 DEF Step
<1>3. ASSUME UNCHANGED vars PROVE Inv'
  <2>1. StateInv' /\ ProcInv' /\ \A q \in Requests : Dropped(q)
    BY <1>3 DEF Inv, StateInv, ProcInv, Dropped, vars
  <2> QED
    BY <1>3, <2>1, Lost DEF vars
<1> QED
  BY <1>1, <1>2, <1>3, SubmitStep, SubmitFailsStep, CrashStep DEF Next

\* The invariant holds in every state the node can reach.
LEMMA Invariance == Spec => []Inv
  BY InitInv, NextInv, PTL DEF Spec

\* The variables of the node keep their types, whatever is asked for and whatever
\* fails.
THEOREM TypeCorrect == Spec => []TypeOK
<1>1. Inv => TypeOK
  <2> SUFFICES ASSUME Inv PROVE TypeOK
    OBVIOUS
  <2>1. \A r \in Requests :
          /\ proc[r].status \in {"idle", "running", "done", "lost"}
          /\ proc[r].code \in Codes /\ proc[r].meta \in Metas \cup {NoMeta}
          /\ proc[r].version \in Nat /\ proc[r].began \in Nat
          /\ proc[r].todo \subseteq Names
          /\ proc[r].items \subseteq Items \/ proc[r].items \subseteq Buckets
    BY DEF Inv, ProcInv, Procs, Maybe
  <2>2. \A r \in Requests : proc[r].status \in {"running", "lost"}
                              => proc[r].at \in DOMAIN Program(Ask(r).op)
    BY DEF Inv, Control
  <2>3. ScenarioInv /\ StateInv
    BY DEF Inv
  <2> QED
    BY <2>1, <2>2, <2>3 DEF TypeOK, ScenarioInv, StateInv, Stores, Maybe
<1> QED
  BY <1>1, Invariance, PTL

\* Every listed object has its metadata and, unless its content was put twice, its
\* blob, at any point of any requests (put_object stores the blob first, and
\* delete_object removes it last).
THEOREM NoDangling == Spec => []NoDanglingObject
<1>1. Inv => NoDanglingObject
  BY DEF Inv, BlobsInv
<1> QED
  BY <1>1, Invariance, PTL

\* A put that was acknowledged stays until a later change of the bucket replaces or
\* removes the object, over crashes and failures of other requests.
THEOREM DurablePuts == Spec => []AckedPutsAreDurable
<1>1. Inv => AckedPutsAreDurable
  <2> SUFFICES ASSUME Inv, NEW r \in Requests, Ask(r).op = "put_object",
                      proc[r].code = "ok", NEW b, b = Bucket(r)
               PROVE  \E v \in DOMAIN log[b] :
                        /\ log[b][v] = PutOf(r)
                        /\ \/ \E w \in v + 1 .. Len(log[b]) : Touches(log[b][w], Ask(r).key)
                           \/ /\ Ask(r).key \in stores[b].objects
                              /\ stores[b].meta[Ask(r).key] = PutOf(r).meta
                              /\ Ask(r).content \in blobs \/ Shared(Ask(r).content)
    BY DEF AckedPutsAreDurable
  <2>1. PICK v : v = proc[r].version
    OBVIOUS
  <2>2. v # 0
    BY <2>1 DEF Inv, Control
  <2>3. v \in DOMAIN log[b] /\ log[b][v] = PutOf(r)
    BY <2>1, <2>2 DEF Inv, VersionsInv, Committed, ChangeOf
  <2>4. \/ \E w \in v + 1 .. Len(log[b]) : Touches(log[b][w], Ask(r).key)
        \/ Ask(r).key \in stores[b].objects /\ stores[b].meta[Ask(r).key] = PutOf(r).meta
    BY <2>1, <2>2 DEF Inv, LastsInv
  <2>5. PutOf(r).meta.sha256sum = Ask(r).content /\ b \in Buckets
    BY AskType DEF PutOf, Inv
  <2>6. ASSUME Ask(r).key \in stores[b].objects,
               stores[b].meta[Ask(r).key] = PutOf(r).meta
        PROVE  Ask(r).content \in blobs \/ Shared(Ask(r).content)
    BY <2>5, <2>6 DEF Inv, BlobsInv, NoDanglingObject
  <2> QED
    BY <2>3, <2>4, <2>6
<1> QED
  BY <1>1, Invariance, PTL

\* What head_object, get_object, list_objects and delete_object tell of an object was
\* so at some moment of the request, although the lookup, the metadata and the names
\* are read one after the other.
THEOREM CurrentAnswers == Spec => []AnswersWereCurrent
<1>1. Inv => AnswersWereCurrent
  <2> SUFFICES ASSUME Inv, NEW r \in Requests
               PROVE  /\ /\ proc[r].code = "ok"
                         /\ \/ Ask(r).op \in {"head_object", "get_object"}
                            \/ Ask(r).op = "list_objects" /\ Ask(r).key = <<>>
                         => /\ \A i \in proc[r].items : Was(r, i.key, i.meta)
                            /\ Ask(r).op = "list_objects" =>
                                 \A k \in Keys : \/ Was(r, k, NoMeta)
                                                 \/ \E i \in proc[r].items : i.key = k
                      /\ proc[r].code = "NoSuchKey" => Was(r, Ask(r).key, NoMeta)
    BY DEF AnswersWereCurrent, Was
  <2>1. Reading(r)
    BY DEF Inv
  <2> QED
    BY <2>1 DEF Reading, AllWere, Listed
<1> QED
  BY <1>1, Invariance, PTL

\* An event that goes to other nodes is the change its version names, and it goes
\* once: the requests of a bucket send theirs in any order.
THEOREM EventsMatch == Spec => []EventsMatchChanges
<1>1. Inv => EventsMatchChanges
  <2> SUFFICES ASSUME Inv PROVE EventsMatchChanges
    OBVIOUS
  <2>1. events \in Seq(Events) /\ submitted \subseteq Events
    BY DEF Inv, StateInv
  <2>2. /\ Len(events) \in Nat /\ DOMAIN events = 1..Len(events)
        /\ \A i \in 1..Len(events) : events[i] \in Events
    BY <2>1, LenProperties
  <2> DEFINE queued == {events[i] : i \in DOMAIN events}
  <2>3. Cardinality(queued) = Len(events)
    <3> DEFINE f == [i \in 1..Len(events) |-> events[i]]
    <3>1. f \in Bijection(1..Len(events), queued)
      <4>1. f \in [1..Len(events) -> queued]
        BY <2>2
      <4>2. \A i, j \in 1..Len(events) : f[i] = f[j] => i = j
        BY <2>2 DEF Inv, EventsInv
      <4>3. \A x \in queued : \E i \in 1..Len(events) : f[i] = x
        BY <2>2
      <4> QED
        BY <4>1, <4>2, <4>3 DEF Bijection, Injection, Surjection, IsInjective
    <3>2. ExistsBijection(1..Len(events), queued)
      BY <3>1 DEF ExistsBijection
    <3>3. IsFiniteSet(1..Len(events)) /\ Cardinality(1..Len(events)) = Len(events)
      BY <2>2, FS_Interval
    <3> QED
      BY <3>2, <3>3, FS_Bijection
  <2>4. queued \cap submitted = {}
    BY DEF Inv, EventsInv
  <2>5. ASSUME NEW x \in queued \cup submitted
        PROVE  x.version \in DOMAIN log[x.bucket] /\ log[x.bucket][x.version] = x.change
    <3>1. x \in Events /\ (x \in submitted \/ \E i \in DOMAIN events : events[i] = x)
      BY <2>1, <2>2
    <3> QED
      BY <3>1 DEF Inv, EventsInv
  <2> QED
    BY <2>3, <2>4, <2>5 DEF EventsMatchChanges
<1> QED
  BY <1>1, Invariance, PTL
===============================================================================

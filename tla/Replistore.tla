------------------------------ MODULE Replistore ------------------------------
(***************************************************************************)
(* A node of replistore: the S3 requests its frontend takes, the S3 actor  *)
(* that runs each of them as a task of its own, the key-value store of     *)
(* every bucket, the content addressable blob store, and the way a change  *)
(* takes to dtrd over the Replicator and the DtrdClient.                   *)
(*                                                                         *)
(* A handler of the S3 actor is a sequence of messages to the stores; it   *)
(* is given here as its program, the sequence of its steps.  One message   *)
(* with its handling by the store is one step; between two steps any other *)
(* request may run.  The transactions of a key-value store are atomic, a   *)
(* PutBlob, GetBlob or DeleteBlob is one step for each call to the file    *)
(* system that others can observe.                                         *)
(*                                                                         *)
(* The names of objects are sequences, because the store compares them by  *)
(* prefix.  The metadata of an object are its checksum and the time it was *)
(* written, identified by the request that wrote it; size and md5sum       *)
(* follow from the content.  A content stands for its sha256sum.           *)
(***************************************************************************)
EXTENDS Integers, Sequences, FiniteSets, FiniteSetsExt, SequencesExt

CONSTANTS Requests,       \* S3 requests and events of other nodes
          Buckets, Keys, Contents,
          Scenarios,      \* what is asked for, see below
          FirstNonUtf8,   \* the first version whose bytes are not UTF-8 (128)
          MaxCrashes      \* bound: crashes of the node

NoBody == "no body"
NoMeta == [sha256sum |-> NoBody, writer |-> NoBody]
Metas == [sha256sum : Contents, writer : Requests]

Operations == {"get_bucket_location", "list_buckets", "create_bucket", "head_bucket",
               "list_objects", "head_object", "get_object", "put_object",
               "delete_object", "event"}

(***************************************************************************)
(* ask : the request a client (or, for an event, a node) makes; key is the *)
(*     prefix of list_objects.                                             *)
(* buckets : the buckets that exist at the start.                          *)
(* faults : what may go wrong: the body of a put breaks off, the database  *)
(*     fails, dtrd is out of reach or refuses an event, the node crashes.  *)
(***************************************************************************)
Faults == {"body", "database", "dtrd", "crash"}
Asks == [op : Operations, bucket : Buckets, key : Keys \cup {<<>>},
         content : Contents \cup {NoBody}]

ASSUME ReplistoreAssumption ==
  /\ Scenarios \subseteq [ask : [Requests -> Asks], buckets : SUBSET Buckets,
                          faults : SUBSET Faults]
  /\ \A s \in Scenarios : \A r \in Requests :
       s.ask[r].op \in {"head_object", "get_object", "put_object", "delete_object"}
         => s.ask[r].key \in Keys
  /\ Keys \subseteq Seq(STRING)
  /\ NoBody \notin Contents
  /\ FirstNonUtf8 \in Nat \ {0} /\ MaxCrashes \in Nat

VARIABLES
  scenario,
  proc,        \* the task of each request
  buckets,     \* the entries of the root store
  stores,      \* the entries of the store of each bucket
  actors,      \* StoreOwner::kv_stores
  blobs,       \* files of the blob store
  tmp,         \* requests that have left a temporary file
  client,      \* the DtrdClient
  events,      \* its mailbox and that of the Replicator
  submitted,   \* history: the events handed to dtrd
  log,         \* history: the changes of each bucket, by version
  crashes

disk == <<buckets, stores, blobs, tmp, log>>
replication == <<client, events, submitted>>
vars == <<scenario, proc, buckets, stores, actors, blobs, tmp, client, events,
          submitted, log, crashes>>

-------------------------------------------------------------------------------
(* The handlers of the S3 actor, as programs; with_bucket_store is the first   *)
(* two steps of most of them                                                   *)

ListBuckets == <<"list_buckets">>
CreateBucket == <<"check_new", "set_bucket">>
HeadBucket == <<"bucket">>
ListObject == <<"bucket", "open", "list", "list_meta">>
HeadObject == <<"bucket", "open", "lookup", "meta">>

\* Mutant: the metadata are written before the blob they refer to.
MetaFirst == <<"bucket", "open", "commit_put", "announce", "upload", "rename", "stat">>

PutObject == <<"bucket", "open", "upload", "rename", "stat", "commit_put", "announce">>

\* Mutant: a reader relies on the metadata alone.
NoLookup == <<"bucket", "open", "meta", "stat_blob", "open_blob">>

GetObject == <<"bucket", "open", "lookup", "meta", "stat_blob", "open_blob">>

\* Mutant: the blob is deleted before the metadata that refer to it.
BlobFirst == <<"bucket", "open", "lookup", "meta", "stat_blob", "remove_blob",
               "commit_delete", "announce">>

\* Mutant: a deletion is not announced.
Unannounced == <<"bucket", "open", "lookup", "meta", "commit_delete", "stat_blob",
                 "remove_blob">>

DeleteObject == <<"bucket", "open", "lookup", "meta", "commit_delete", "announce",
                  "stat_blob", "remove_blob">>
EventReplicationReceived == <<"bucket", "open", "compare">>

Program(op) ==
  CASE op = "list_buckets" -> ListBuckets
    [] op = "create_bucket" -> CreateBucket
    [] op = "head_bucket" -> HeadBucket
    [] op = "list_objects" -> ListObject
    [] op = "head_object" -> HeadObject
    [] op = "get_object" -> GetObject
    [] op = "put_object" -> PutObject
    [] op = "delete_object" -> DeleteObject
    [] op = "event" -> EventReplicationReceived

RootSteps == {"list_buckets", "check_new", "set_bucket", "bucket", "open"}
StoreSteps == {"list", "list_meta", "lookup", "meta", "commit_put", "commit_delete",
               "compare"}

Ask(r) == scenario.ask[r]
Bucket(r) == Ask(r).bucket
At(r, step) == proc[r].status = "running" /\ Program(Ask(r).op)[proc[r].at] = step

\* The code S3 clients get for an error of the backend.
S3Code(error) ==
  CASE error = "BucketAlreadyExists" -> "BucketAlreadyExists"
    [] error = "BucketNotFound" -> "NoSuchBucket"
    [] error \in {"ObjectNotFound", "BlobDoesNotExist"} -> "NoSuchKey"
    [] error \in {"StoreError", "Io", "BlobRead", "MailboxError"} -> "InternalError"

Answered(p, code) == [p EXCEPT !.status = "done", !.code = code]
Fail(r, error) == proc' = [proc EXCEPT ![r] = Answered(@, S3Code(error))]

\* The next step of the program, with the locals in p; its end is the answer.
Proceed(r, p) ==
  proc' = [proc EXCEPT ![r] =
             IF p.at = Len(Program(Ask(r).op))
             THEN Answered(p, "ok") ELSE [p EXCEPT !.at = @ + 1]]

-------------------------------------------------------------------------------
(* Entries of a key-value store *)

\* The entries a PrefixRange over the path of an object covers.
Under(k) == {x \in Keys : IsPrefix(k, x)}
Remainder(k, x) == SubSeq(x, Len(k) + 1, Len(x))

bump_version(s) == [s EXCEPT !.version = @ + 1]

MultiSet(s, k, m) ==
  bump_version([s EXCEPT !.objects = @ \cup {k}, !.meta[k] = m])

MultiDelete(s, k) ==
  bump_version([s EXCEPT !.objects = @ \ Under(k), !.meta[k] = NoMeta])

\* List cuts the prefix off the keys it returns.
List(s, k) == {Remainder(k, x) : x \in s.objects \cap Under(k)}

\* Without entries every field gets its default.
meta_to_obj(s, k) == IF k \in Keys THEN s.meta[k] ELSE NoMeta

-------------------------------------------------------------------------------
\* A DtrdClient that does not reach dtrd when it starts panics.
Started == IF "dtrd" \in scenario.faults THEN {"running", "dead"} ELSE {"running"}

NewProc == [status |-> "idle", at |-> 1, code |-> "none", meta |-> NoMeta,
            version |-> 0, todo |-> {}, items |-> {}, began |-> 0]

Init ==
  /\ scenario \in Scenarios
  /\ proc = [r \in Requests |-> NewProc]
  /\ buckets = scenario.buckets
  /\ stores = [b \in Buckets |-> [objects |-> {}, meta |-> [k \in Keys |-> NoMeta],
                                  version |-> 0]]
  /\ actors = [b \in Buckets |-> "none"]
  /\ blobs = {} /\ tmp = {}
  /\ client \in Started /\ events = <<>> /\ submitted = {}
  /\ log = [b \in Buckets |-> <<>>]
  /\ crashes = 0

-------------------------------------------------------------------------------
(* The frontend *)

BucketLocation(r) ==
  /\ proc[r].status = "idle" /\ Ask(r).op = "get_bucket_location"
  /\ proc' = [proc EXCEPT ![r] = Answered(@, "ok")]
  /\ UNCHANGED <<scenario, actors, disk, replication, crashes>>

HasBody(r) == Ask(r).op = "put_object" => Ask(r).content # NoBody

RejectPut(r) ==
  /\ proc[r].status = "idle" /\ ~HasBody(r)
  /\ proc' = [proc EXCEPT ![r] = Answered(@, "InvalidRequest")]
  /\ UNCHANGED <<scenario, actors, disk, replication, crashes>>

\* A request goes to the S3 actor, an event there from the DtrdClient.
SendS3(r) ==
  /\ proc[r].status = "idle" /\ HasBody(r)
  /\ Ask(r).op # "get_bucket_location"
  /\ Ask(r).op = "event" => client = "running"
  /\ proc' = [proc EXCEPT ![r].status = "running", ![r].began = Len(log[Bucket(r)])]
  /\ UNCHANGED <<scenario, actors, disk, replication, crashes>>

-------------------------------------------------------------------------------
(* Steps at the root store *)

ReadBuckets(r) ==
  /\ At(r, "list_buckets")
  /\ Proceed(r, [proc[r] EXCEPT !.items = buckets])
  /\ UNCHANGED <<scenario, actors, disk, replication, crashes>>

CheckNew(r) ==
  /\ At(r, "check_new")
  /\ IF Bucket(r) \in buckets THEN Fail(r, "BucketAlreadyExists")
                              ELSE Proceed(r, proc[r])
  /\ UNCHANGED <<scenario, actors, disk, replication, crashes>>

\* Set also bumps a version in the root store that nothing reads.
SetBucket(r) ==
  /\ At(r, "set_bucket")
  /\ buckets' = buckets \cup {Bucket(r)}
  /\ Proceed(r, proc[r])
  /\ UNCHANGED <<scenario, actors, stores, blobs, tmp, log, replication, crashes>>

CheckBucket(r) ==
  /\ At(r, "bucket")
  /\ IF Bucket(r) \in buckets THEN Proceed(r, proc[r]) ELSE Fail(r, "BucketNotFound")
  /\ UNCHANGED <<scenario, actors, disk, replication, crashes>>

\* Mutant: the actor of a new store is not started.
NotStarted(r) ==
  /\ At(r, "open")
  /\ Proceed(r, proc[r])
  /\ UNCHANGED <<scenario, actors, disk, replication, crashes>>

\* StoreOwner keeps the address of a store whose actor has died.
GetOrCreateKeyValueStore(r) ==
  /\ At(r, "open")
  /\ actors' = [actors EXCEPT ![Bucket(r)] = IF @ = "none" THEN "running" ELSE @]
  /\ Proceed(r, proc[r])
  /\ UNCHANGED <<scenario, disk, replication, crashes>>

-------------------------------------------------------------------------------
(* Steps at the store of a bucket *)

AtStore(r, step) == At(r, step) /\ actors[Bucket(r)] = "running"
Entries(r) == stores[Bucket(r)]

Lookup(r) ==
  /\ AtStore(r, "lookup")
  /\ IF Ask(r).key \in Entries(r).objects THEN Proceed(r, proc[r])
                                          ELSE Fail(r, "ObjectNotFound")
  /\ UNCHANGED <<scenario, actors, disk, replication, crashes>>

Item(k, m) == [key |-> k, meta |-> m]

ReadMeta(r) ==
  /\ AtStore(r, "meta")
  /\ LET m == meta_to_obj(Entries(r), Ask(r).key) IN
       Proceed(r, [proc[r] EXCEPT !.meta = m, !.items = {Item(Ask(r).key, m)}])
  /\ UNCHANGED <<scenario, actors, disk, replication, crashes>>

ReadNames(r) ==
  /\ AtStore(r, "list")
  /\ Proceed(r, [proc[r] EXCEPT !.todo = List(Entries(r), Ask(r).key)])
  /\ UNCHANGED <<scenario, actors, disk, replication, crashes>>

\* One turn of the loop over the names, or its end.
ReadNextMeta(r) ==
  /\ At(r, "list_meta")
  /\ \/ /\ proc[r].todo = {}
        /\ Proceed(r, proc[r])
     \/ /\ actors[Bucket(r)] = "running"
        /\ \E k \in proc[r].todo :
             proc' = [proc EXCEPT ![r].todo = @ \ {k},
                                  ![r].items = @ \cup {Item(k, meta_to_obj(Entries(r), k))}]
  /\ UNCHANGED <<scenario, actors, disk, replication, crashes>>

\* Mutant: the version before the change is returned.
OldVersion(r, s, c) ==
  LET b == Bucket(r) IN
    /\ stores' = [stores EXCEPT ![b] = s]
    /\ log' = [log EXCEPT ![b] = Append(@, c)]
    /\ Proceed(r, [proc[r] EXCEPT !.version = stores[b].version])

\* A transaction: the change, the version it gets, and the answer with it.
Commit(r, s, c) ==
  LET b == Bucket(r) IN
    /\ stores' = [stores EXCEPT ![b] = s]
    /\ log' = [log EXCEPT ![b] = Append(@, c)]
    /\ Proceed(r, [proc[r] EXCEPT !.version = s.version])

PutOf(r) == [type |-> "Put", key |-> Ask(r).key,
             meta |-> [sha256sum |-> Ask(r).content, writer |-> r]]
DeleteOf(r) == [type |-> "Delete", key |-> Ask(r).key, meta |-> NoMeta]
ChangeOf(r) == IF Ask(r).op = "put_object" THEN PutOf(r) ELSE DeleteOf(r)

CommitPut(r) ==
  /\ AtStore(r, "commit_put")
  /\ Commit(r, MultiSet(Entries(r), Ask(r).key, PutOf(r).meta), PutOf(r))
  /\ UNCHANGED <<scenario, actors, buckets, blobs, tmp, replication, crashes>>

CommitDelete(r) ==
  /\ AtStore(r, "commit_delete")
  /\ Commit(r, MultiDelete(Entries(r), Ask(r).key), DeleteOf(r))
  /\ UNCHANGED <<scenario, actors, buckets, blobs, tmp, replication, crashes>>

EventOf(r, version) == [bucket |-> Bucket(r), version |-> version, change |-> ChangeOf(r)]

\* Mutant: the event carries the version the bucket has when it is sent.
LateVersion(r) == EventOf(r, Entries(r).version)

ReplicateEvent(r) == EventOf(r, proc[r].version)

\* do_send to a DtrdClient that has died is ignored.
Announce(r) ==
  /\ At(r, "announce")
  /\ events' = IF client = "running" THEN Append(events, ReplicateEvent(r)) ELSE events
  /\ Proceed(r, proc[r])
  /\ UNCHANGED <<scenario, actors, disk, client, submitted, crashes>>

\* Get unwraps the bytes of the version as UTF-8.  The panic ends the actor of
\* the store, the task of the request and, since it unwraps the answer, the
\* DtrdClient with its mailbox.
CompareVersions(r) ==
  /\ AtStore(r, "compare")
  /\ IF Entries(r).version < FirstNonUtf8
     THEN Proceed(r, proc[r]) /\ UNCHANGED <<actors, client, events>>
     ELSE /\ Fail(r, "MailboxError")
          /\ actors' = [actors EXCEPT ![Bucket(r)] = "dead"]
          /\ client' = "dead" /\ events' = <<>>
  /\ UNCHANGED <<scenario, disk, submitted, crashes>>

\* A message to the actor of a store that has died.
StoreIsDead(r) ==
  /\ \E step \in StoreSteps : At(r, step)
  /\ At(r, "list_meta") => proc[r].todo # {}
  /\ actors[Bucket(r)] = "dead"
  /\ Fail(r, "MailboxError")
  /\ IF Ask(r).op = "event" THEN client' = "dead" /\ events' = <<>>
                            ELSE UNCHANGED <<client, events>>
  /\ UNCHANGED <<scenario, actors, disk, submitted, crashes>>

\* The database fails; a transaction that is not committed changes nothing.
StoreFails(r) ==
  /\ "database" \in scenario.faults
  /\ \/ \E step \in RootSteps : At(r, step)
     \/ \E step \in StoreSteps : AtStore(r, step)
  /\ At(r, "list_meta") => proc[r].todo # {}
  /\ Fail(r, "StoreError")
  /\ UNCHANGED <<scenario, actors, disk, replication, crashes>>

-------------------------------------------------------------------------------
(* Steps at the blob store *)

\* The body is written to a temporary file and the file hashed.
Upload(r) ==
  /\ At(r, "upload")
  /\ tmp' = tmp \cup {r}
  /\ \/ Proceed(r, proc[r])
     \/ "body" \in scenario.faults /\ Fail(r, "BlobRead")
  /\ UNCHANGED <<scenario, actors, buckets, stores, blobs, log, replication, crashes>>

Rename(r) ==
  /\ At(r, "rename")
  /\ tmp' = tmp \ {r}
  /\ blobs' = blobs \cup {Ask(r).content}
  /\ Proceed(r, proc[r])
  /\ UNCHANGED <<scenario, actors, buckets, stores, log, replication, crashes>>

\* Another request may have deleted the file already.
StatTarget(r) ==
  /\ At(r, "stat")
  /\ IF Ask(r).content \in blobs THEN Proceed(r, proc[r]) ELSE Fail(r, "Io")
  /\ UNCHANGED <<scenario, actors, disk, replication, crashes>>

\* The empty checksum of default metadata names the directory of the files.
StatBlob(r) ==
  /\ At(r, "stat_blob")
  /\ IF proc[r].meta = NoMeta THEN Fail(r, "BlobDoesNotExist")
     ELSE IF proc[r].meta.sha256sum \in blobs THEN Proceed(r, proc[r]) ELSE Fail(r, "Io")
  /\ UNCHANGED <<scenario, actors, disk, replication, crashes>>

OpenBlob(r) ==
  /\ At(r, "open_blob")
  /\ IF proc[r].meta.sha256sum \in blobs THEN Proceed(r, proc[r]) ELSE Fail(r, "Io")
  /\ UNCHANGED <<scenario, actors, disk, replication, crashes>>

RemoveBlob(r) ==
  /\ At(r, "remove_blob")
  /\ IF proc[r].meta.sha256sum \in blobs THEN Proceed(r, proc[r]) ELSE Fail(r, "Io")
  /\ blobs' = blobs \ {proc[r].meta.sha256sum}
  /\ UNCHANGED <<scenario, actors, buckets, stores, tmp, log, replication, crashes>>

-------------------------------------------------------------------------------
(* The DtrdClient, and the process *)

Submit ==
  /\ client = "running" /\ events # <<>>
  /\ submitted' = submitted \cup {Head(events)}
  /\ events' = Tail(events)
  /\ UNCHANGED <<scenario, proc, actors, disk, client, crashes>>

\* The client unwraps the answer of dtrd.
SubmitFails ==
  /\ "dtrd" \in scenario.faults
  /\ client = "running" /\ events # <<>>
  /\ client' = "dead" /\ events' = <<>>
  /\ UNCHANGED <<scenario, proc, actors, disk, submitted, crashes>>

\* Files and committed transactions survive; dtrd may be out of reach when the
\* client starts again.
Crash ==
  /\ "crash" \in scenario.faults /\ crashes < MaxCrashes
  /\ crashes' = crashes + 1
  /\ proc' = [r \in Requests |-> IF proc[r].status = "running"
                                 THEN [proc[r] EXCEPT !.status = "lost"] ELSE proc[r]]
  /\ actors' = [b \in Buckets |-> "none"]
  /\ client' \in Started /\ events' = <<>>
  /\ UNCHANGED <<scenario, disk, submitted>>

Frontend(r) == BucketLocation(r) \/ RejectPut(r) \/ SendS3(r)

Step(r) ==
  \/ ReadBuckets(r) \/ CheckNew(r) \/ SetBucket(r) \/ CheckBucket(r)
  \/ GetOrCreateKeyValueStore(r)
  \/ Lookup(r) \/ ReadMeta(r) \/ ReadNames(r) \/ ReadNextMeta(r)
  \/ CommitPut(r) \/ CommitDelete(r) \/ Announce(r) \/ CompareVersions(r)
  \/ StoreIsDead(r) \/ StoreFails(r)
  \/ Upload(r) \/ Rename(r) \/ StatTarget(r)
  \/ StatBlob(r) \/ OpenBlob(r) \/ RemoveBlob(r)

Next ==
  \/ \E r \in Requests : Frontend(r) \/ Step(r)
  \/ Submit \/ SubmitFails
  \/ Crash

Spec == Init /\ [][Next]_vars

\* The runtime polls every task that can go on; the file system, the database
\* and dtrd answer every call, with an error or without.  A client may never
\* make its request, and a crash need not happen.
FairSpec ==
  /\ Spec
  /\ \A r \in Requests : WF_vars(Step(r))
  /\ WF_vars(Submit \/ SubmitFails)

-------------------------------------------------------------------------------
Changes == [type : {"Put", "Delete"}, key : Keys \cup {<<>>}, meta : Metas \cup {NoMeta}]
Events == [bucket : Buckets, version : Nat \ {0}, change : Changes]
Codes == {"none", "ok", "InvalidRequest", "BucketAlreadyExists", "NoSuchBucket", "NoSuchKey",
          "InternalError"}
Names == UNION {{Remainder(k, x) : k \in Keys \cup {<<>>}} : x \in Keys}
Items == [key : Names, meta : Metas \cup {NoMeta}]

\* Type invariant.
TypeOK ==
  /\ scenario \in Scenarios
  /\ \A r \in Requests :
       /\ proc[r].status \in {"idle", "running", "done", "lost"}
       /\ proc[r].code \in Codes
       /\ proc[r].status \in {"running", "lost"}
            => proc[r].at \in DOMAIN Program(Ask(r).op)
       /\ proc[r].meta \in Metas \cup {NoMeta}
       /\ proc[r].version \in Nat /\ proc[r].began \in Nat
       /\ proc[r].todo \subseteq Names
       /\ proc[r].items \subseteq Items \/ proc[r].items \subseteq Buckets
  /\ buckets \subseteq Buckets
  /\ stores \in [Buckets -> [objects : SUBSET Keys, meta : [Keys -> Metas \cup {NoMeta}],
                             version : Nat]]
  /\ actors \in [Buckets -> {"none", "running", "dead"}]
  /\ blobs \subseteq Contents /\ tmp \subseteq Requests
  /\ client \in {"running", "dead"}
  /\ events \in Seq(Events) /\ submitted \subseteq Events
  /\ log \in [Buckets -> Seq(Changes)]
  /\ crashes \in 0..MaxCrashes

\* A change replaces or removes the object k: a put of k, or the deletion of an
\* object whose name is a prefix of k (MultiDelete removes all of them).
Touches(c, k) == IF c.type = "Put" THEN c.key = k ELSE IsPrefix(c.key, k)

\* The metadata of object k after the first v changes of bucket b.
MetaAfter(b, k, v) ==
  LET touching == {i \in 1..v : Touches(log[b][i], k)} IN
    IF touching = {} THEN NoMeta ELSE log[b][Max(touching)].meta

\* Two requests of the scenario put the same content.
Shared(c) ==
  \E p, q \in Requests : /\ p # q
                         /\ Ask(p).op = "put_object" /\ Ask(p).content = c
                         /\ Ask(q).op = "put_object" /\ Ask(q).content = c

\* Every object that is listed has its metadata, and the blob they refer to is
\* there, at any point of any requests and after any failure or crash: a put
\* stores the blob before the metadata, a deletion removes them in the other
\* order.  (Contents that were put twice are left out: the blob is deleted with
\* the first of the objects that share it.)
NoDanglingObject ==
  \A b \in Buckets : \A k \in stores[b].objects :
    /\ stores[b].meta[k] # NoMeta
    /\ stores[b].meta[k].sha256sum \in blobs \/ Shared(stores[b].meta[k].sha256sum)

\* A put that was acknowledged stays, with its metadata and its blob, until a
\* later change of the bucket replaces or removes the object.
AckedPutsAreDurable ==
  \A r \in Requests :
    Ask(r).op = "put_object" /\ proc[r].code = "ok" =>
      LET b == Bucket(r) IN
      \E v \in DOMAIN log[b] :
        /\ log[b][v] = PutOf(r)
        /\ \/ \E w \in v + 1 .. Len(log[b]) : Touches(log[b][w], Ask(r).key)
           \/ /\ Ask(r).key \in stores[b].objects
              /\ stores[b].meta[Ask(r).key] = PutOf(r).meta
              /\ Ask(r).content \in blobs \/ Shared(Ask(r).content)

\* What a reader is told of an object was so at some moment of its request,
\* whatever ran in between: its metadata, or that it does not exist (default
\* metadata, or NoSuchKey); and a list of the whole bucket leaves out no object
\* that was there all the time.
AnswersWereCurrent ==
  \A r \in Requests :
    LET b == Bucket(r)
        While == proc[r].began .. Len(log[b])
        Was(k, m) == \E v \in While : MetaAfter(b, k, v) = m
    IN
    /\ /\ proc[r].code = "ok"
       /\ \/ Ask(r).op \in {"head_object", "get_object"}
          \/ Ask(r).op = "list_objects" /\ Ask(r).key = <<>>
       => /\ \A i \in proc[r].items : Was(i.key, i.meta)
          /\ Ask(r).op = "list_objects" =>
               \A k \in Keys : Was(k, NoMeta) \/ \E i \in proc[r].items : i.key = k
    /\ proc[r].code = "NoSuchKey" => Was(Ask(r).key, NoMeta)

\* An event that is sent to other nodes is the change of the bucket that got the
\* version the event carries, and it is sent once.
EventsMatchChanges ==
  LET queued == {events[i] : i \in DOMAIN events} IN
    /\ Cardinality(queued) = Len(events)
    /\ queued \cap submitted = {}
    /\ \A x \in queued \cup submitted :
         x.version \in DOMAIN log[x.bucket] /\ log[x.bucket][x.version] = x.change

\* As long as the DtrdClient lives and the node does not crash, every change
\* that was made reaches dtrd.
ChangesAreReplicated ==
  []<>(\/ client = "dead" \/ crashes > 0
       \/ \A b \in Buckets : \A v \in DOMAIN log[b] :
            [bucket |-> b, version |-> v, change |-> log[b][v]] \in submitted)

\* Every request gets an answer, also when the actor of the store has died,
\* unless the node crashes: again and again no request is waiting for one.
RequestsAreAnswered == []<>(\A r \in Requests : proc[r].status # "running")
===============================================================================

---------------------------- MODULE MCReplistore ----------------------------
(* Scenarios for Replistore: one bucket, up to four requests. *)
EXTENDS Replistore

CONSTANTS r1, r2, r3, r4, b1, x, y

A == <<"a">>
AB == <<"a", "b">>
B == <<"b">>
MCKeys == {A, AB, B}

Req(op, key, content) == [op |-> op, bucket |-> b1, key |-> key, content |-> content]
Put(key, content) == Req("put_object", key, content)
Del(key) == Req("delete_object", key, NoBody)
Get(key) == Req("get_object", key, NoBody)
Head_(key) == Req("head_object", key, NoBody)
Ls(prefix) == Req("list_objects", prefix, NoBody)
Other(op) == Req(op, <<>>, NoBody)

Scene(existing, faults, a1, a2, a3, a4) ==
  [ask |-> [r \in Requests |-> IF r = r1 THEN a1 ELSE IF r = r2 THEN a2
                               ELSE IF r = r3 THEN a3 ELSE a4],
   buckets |-> existing, faults |-> faults]
Nothing == Other("get_bucket_location")

\* Writers and readers of one object, with crashes and without; an object whose
\* name is a prefix of another; contents that are shared; deletions of the same
\* object; versions at the limit; faults; the creation of a bucket.
MCScenarios ==
  {Scene({b1}, {}, Put(A, x), Put(A, y), Del(A), Get(A)),
   Scene({b1}, {"crash", "body"}, Put(A, x), Put(A, y), Del(A), Nothing),
   Scene({b1}, {}, Put(AB, x), Del(A), Put(A, y), Get(AB)),
   Scene({b1}, {}, Put(AB, x), Del(AB), Ls(<<>>), Nothing),
   Scene({b1}, {"crash"}, Put(A, x), Put(B, x), Del(A), Nothing),
   Scene({b1}, {"database"}, Put(A, x), Del(A), Del(A), Nothing),
   Scene({b1}, {"database"}, Put(A, x), Del(A), Head_(A), Nothing),
   Scene({b1}, {"dtrd"}, Put(AB, x), Put(B, y), Ls(A), Other("event")),
   Scene({b1}, {}, Put(A, x), Put(A, y), Other("event"), Other("event")),
   Scene({}, {"database"}, Other("create_bucket"), Other("create_bucket"), Put(A, x),
         Other("head_bucket")),
   Scene({}, {}, Other("list_buckets"), Ls(<<>>), Put(A, NoBody), Other("create_bucket"))}
=============================================================================

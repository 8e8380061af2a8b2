----------------------------- MODULE DtrdProofs -----------------------------
(***************************************************************************)
(* The daemon, for any number of bundles, endpoints, clients, nodes,       *)
(* sessions, copies and crashes: its types, that no stored bundle is       *)
(* forgotten, that no file is left behind, and that what the storage agent *)
(* promises holds with the daemon's own protocol agent around it.          *)
(*                                                                         *)
(* The contract of the storage agent (MessageOK) speaks of what a bundle   *)
(* may be asked for.  The daemon keeps it because of what every mailbox    *)
(* and queue may hold, which is the invariant DaemonInv: a bundle is       *)
(* queued for a client or for a peer according to its destination, never   *)
(* as a fragment for a client, and only after its file was requested.      *)
(***************************************************************************)
EXTENDS Dtrd, StorageAgentProofs, RecursionProofs

-------------------------------------------------------------------------------
(* Sequences *)

\* One more element, if it is to be kept.
KeepOne(kept, x, S) == IF x \in S THEN Append(kept, x) ELSE kept

\* What Keep has built from the first elements.
Keeps(f, s, S) ==
  f = [n \in 0..Len(s) |-> IF n = 0 THEN <<>> ELSE KeepOne(f[n - 1], s[n], S)]

KeepRun(f, s, S, X) ==
  /\ f \in [0..Len(s) -> Seq(X)] /\ f[0] = <<>> /\ f[Len(s)] = Keep(s, S)
  /\ \A n \in 1..Len(s) : f[n] = KeepOne(f[n - 1], s[n], S)

\* The recursion of Keep, element by element.
LEMMA KeepSteps ==
  ASSUME NEW X, NEW s \in Seq(X), NEW S
  PROVE  \E f : KeepRun(f, s, S, X)
<1>1. PICK N \in Nat : N = Len(s)
  BY LenProperties
<1>2. \A n \in 1..N : s[n] \in X
  BY <1>1, ElementOfSeq
<1>3. PICK g : g = [x \in (1..N) \X Seq(X) |->
                      KeepOne(x[2], s[x[1]], S)]
  OBVIOUS
<1>4. \A n \in 1..N : \A w \in Seq(X) :
        g[<<n, w>>] = KeepOne(w, s[n], S)
  BY <1>3
<1>5. g \in [(1..N) \X Seq(X) -> Seq(X)]
  <2>1. \A n \in 1..N : \A w \in Seq(X) : KeepOne(w, s[n], S) \in Seq(X)
    BY <1>2, AppendProperties DEF KeepOne
  <2> QED
    BY <1>3, <2>1
<1>6. PICK f : /\ f \in [0..N -> Seq(X)] /\ f[0] = <<>>
               /\ \A n \in 1..N : f[n] = g[<<n, f[n - 1]>>]
  <2>1. <<>> \in Seq(X)
    BY EmptySeq
  <2>2. \E f : Iterates(f, N, Seq(X), <<>>, g)
    BY <1>5, <2>1, Recursion, Zenon
  <2> QED
    BY <2>2 DEF Iterates
<1>7. ASSUME NEW n \in 1..N
      PROVE  f[n] = KeepOne(f[n - 1], s[n], S)
  <2>1. f[n] = g[<<n, f[n - 1]>>] /\ f[n - 1] \in Seq(X)
    BY <1>6
  <2> QED
    BY <1>4, <2>1
<1>8. Keeps(f, s, S)
  <2>1. f = [n \in 0..N |->
               IF n = 0 THEN <<>> ELSE KeepOne(f[n - 1], s[n], S)]
    BY <1>6, <1>7
  <2> QED
    BY <1>1, <2>1 DEF Keeps
<1>9. PICK h : h = CHOOSE k : Keeps(k, s, S)
  OBVIOUS
<1>10. Keeps(h, s, S)
  BY <1>8, <1>9, Zenon
<1>11. Keep(s, S) = h[N]
  BY <1>1, <1>9, Zenon DEF Keep, Keeps, KeepOne
<1>12. h = [n \in 0..N |->
              IF n = 0 THEN <<>> ELSE KeepOne(h[n - 1], s[n], S)]
  BY <1>1, <1>10 DEF Keeps
<1>13. /\ h[0] = <<>>
       /\ \A n \in 1..N : h[n] = KeepOne(h[n - 1], s[n], S)
  BY <1>12
<1>14. PICK T : T = {n \in 0..N : h[n] = f[n]}
  OBVIOUS
<1>15. 0 \in T
  BY <1>6, <1>13, <1>14
<1>16. ASSUME NEW n \in 1..N, n - 1 \in T
       PROVE  n \in T
  BY <1>7, <1>13, <1>14, <1>16
<1>17. \A n \in 0..N : n \in T
  BY <1>15, <1>16, Induction
<1>18. h[N] = f[N]
  BY <1>14, <1>17
<1> QED
  BY <1>1, <1>6, <1>7, <1>11, <1>18 DEF KeepRun

\* Keep has exactly the elements of S that were there.
LEMMA KeepHas ==
  ASSUME NEW X, NEW s \in Seq(X), NEW S
  PROVE  /\ Keep(s, S) \in Seq(X)
         /\ \A i \in 1..Len(Keep(s, S)) :
              Keep(s, S)[i] \in S /\ \E j \in 1..Len(s) : s[j] = Keep(s, S)[i]
         /\ \A j \in 1..Len(s) :
              s[j] \in S => \E i \in 1..Len(Keep(s, S)) : Keep(s, S)[i] = s[j]
<1>1. PICK N \in Nat : N = Len(s)
  BY LenProperties
<1>2. PICK f : KeepRun(f, s, S, X)
  BY <1>1, KeepSteps
<1>2a. /\ f \in [0..N -> Seq(X)] /\ f[0] = <<>> /\ Keep(s, S) = f[N]
       /\ \A n \in 1..N : f[n] = KeepOne(f[n - 1], s[n], S)
  BY <1>1, <1>2 DEF KeepRun
<1>3. \A n \in 1..N : s[n] \in X
  BY <1>1, ElementOfSeq
<1> DEFINE Has(k, n) ==
             /\ \A i \in 1..Len(k) : k[i] \in S /\ \E j \in 1..n : s[j] = k[i]
             /\ \A j \in 1..n : s[j] \in S => \E i \in 1..Len(k) : k[i] = s[j]
<1>4. PICK T : T = {n \in 0..N : Has(f[n], n)}
  OBVIOUS
<1>5. 0 \in T
  BY <1>2a, <1>4
<1>6. ASSUME NEW n \in 1..N, n - 1 \in T
      PROVE  n \in T
  <2>1. PICK k : k = f[n - 1]
    OBVIOUS
  <2>2. k \in Seq(X) /\ Has(k, n - 1) /\ Len(k) \in Nat
    BY <1>2a, <1>4, <1>6, <2>1, LenProperties
  <2>3. CASE s[n] \in S
    <3>1. PICK l : l = Append(k, s[n])
      OBVIOUS
    <3>2. /\ f[n] = l /\ Len(l) = Len(k) + 1 /\ l[Len(l)] = s[n]
          /\ \A i \in 1..Len(k) : l[i] = k[i]
      <4>1. f[n] = l
        BY <1>2a, <2>1, <2>3, <3>1 DEF KeepOne
      <4> QED
        BY <1>3, <2>2, <3>1, <4>1, AppendProperties
    <3>3. ASSUME NEW i \in 1..Len(l)
          PROVE  l[i] \in S /\ \E j \in 1..n : s[j] = l[i]
      <4>1. CASE i = Len(l)
        BY <2>3, <3>2, <4>1
      <4>2. CASE i # Len(l)
        <5>1. i \in 1..Len(k)
          BY <2>2, <3>2, <4>2
        <5> QED
          BY <2>2, <3>2, <5>1
      <4> QED
        BY <4>1, <4>2
    <3>4. ASSUME NEW j \in 1..n, s[j] \in S
          PROVE  \E i \in 1..Len(l) : l[i] = s[j]
      <4>1. CASE j = n
        BY <2>2, <3>2, <4>1
      <4>2. CASE j # n
        <5>1. j \in 1..(n - 1)
          BY <4>2
        <5>2. PICK i \in 1..Len(k) : k[i] = s[j]
          BY <2>2, <3>4, <5>1
        <5> QED
          BY <2>2, <3>2, <5>2
      <4> QED
        BY <4>1, <4>2
    <3>5. Has(l, n)
      BY <3>3, <3>4
    <3> HIDE DEF Has
    <3> QED
      BY <1>4, <3>2, <3>5
  <2>4. CASE s[n] \notin S
    <3>1. f[n] = k
      BY <1>2a, <2>1, <2>4 DEF KeepOne
    <3>2. Has(k, n)
      BY <2>2, <2>4
    <3> HIDE DEF Has
    <3> QED
      BY <1>4, <3>1, <3>2
  <2> QED
    BY <2>3, <2>4
<1>7. \A n \in 0..N : n \in T
  <2> HIDE DEF Has
  <2> QED
    BY <1>5, <1>6, Induction
<1>8. Has(f[N], N) /\ f[N] \in Seq(X)
  <2> HIDE DEF Has
  <2> QED
    BY <1>2a, <1>4, <1>7
<1> QED
  BY <1>1, <1>2a, <1>8

\* Sequences can be filtered part by part.
LEMMA KeepConcat ==
  ASSUME NEW X, NEW s \in Seq(X), NEW t \in Seq(X), NEW S
  PROVE  Keep(s \o t, S) = Keep(s, S) \o Keep(t, S)
<1>1. PICK M \in Nat : M = Len(s)
  BY LenProperties
<1>2. PICK N \in Nat : N = Len(t)
  BY LenProperties
<1>3. PICK u : u = s \o t
  OBVIOUS
<1>4. /\ u \in Seq(X) /\ Len(u) = M + N
      /\ \A n \in 1..M : u[n] = s[n]
      /\ \A n \in 1..N : u[M + n] = t[n]
  BY <1>1, <1>2, <1>3, ConcatProperties
<1>5. PICK f : KeepRun(f, u, S, X)
  BY <1>4, KeepSteps
<1>5a. /\ f \in [0..(M + N) -> Seq(X)] /\ f[0] = <<>> /\ Keep(u, S) = f[M + N]
       /\ \A n \in 1..(M + N) : f[n] = KeepOne(f[n - 1], u[n], S)
  BY <1>4, <1>5 DEF KeepRun
<1>6. PICK g : KeepRun(g, s, S, X)
  BY <1>1, KeepSteps
<1>6a. /\ g \in [0..M -> Seq(X)] /\ g[0] = <<>> /\ Keep(s, S) = g[M]
       /\ \A n \in 1..M : g[n] = KeepOne(g[n - 1], s[n], S)
  BY <1>1, <1>6 DEF KeepRun
<1>7. PICK h : KeepRun(h, t, S, X)
  BY <1>2, KeepSteps
<1>7a. /\ h \in [0..N -> Seq(X)] /\ h[0] = <<>> /\ Keep(t, S) = h[N]
       /\ \A n \in 1..N : h[n] = KeepOne(h[n - 1], t[n], S)
  BY <1>2, <1>7 DEF KeepRun
<1>8. f[M] = g[M]
  <2>1. PICK T : T = {n \in 0..M : f[n] = g[n]}
    OBVIOUS
  <2>2. 0 \in T
    BY <1>5a, <1>6a, <2>1
  <2>3. ASSUME NEW n \in 1..M, n - 1 \in T
        PROVE  n \in T
    <3>1. n \in 1..(M + N) /\ u[n] = s[n] /\ f[n - 1] = g[n - 1]
      BY <1>4, <2>1, <2>3
    <3> QED
      BY <1>5a, <1>6a, <2>1, <3>1
  <2>4. \A n \in 0..M : n \in T
    BY <2>2, <2>3, Induction
  <2> QED
    BY <2>1, <2>4
<1>9. f[M + N] = g[M] \o h[N]
  <2> DEFINE both(n) == g[M] \o h[n]
  <2>1. PICK T : T = {n \in 0..N : f[M + n] = both(n)}
    OBVIOUS
  <2>2. g[M] \in Seq(X) /\ \A n \in 1..N : t[n] \in X /\ h[n - 1] \in Seq(X)
    <3>1. \A n \in 1..N : t[n] \in X
      BY <1>2, ElementOfSeq
    <3> QED
      BY <1>6a, <1>7a, <3>1
  <2>3. 0 \in T
    <3>1. both(0) = g[M]
      BY <1>7a, <2>2, ConcatEmptySeq
    <3>2. M + 0 = M
      OBVIOUS
    <3> HIDE DEF both
    <3> QED
      BY <1>8, <2>1, <3>1, <3>2
  <2>4. ASSUME NEW n \in 1..N, n - 1 \in T
        PROVE  n \in T
    <3>1. PICK k : k = h[n - 1]
      OBVIOUS
    <3>2. /\ M + n \in 1..(M + N) /\ (M + n) - 1 = M + (n - 1)
          /\ u[M + n] = t[n] /\ f[M + (n - 1)] = both(n - 1)
      <4> HIDE DEF both
      <4> QED
        BY <1>4, <2>1, <2>4
    <3>3. f[M + n] = KeepOne(both(n - 1), t[n], S)
      <4> HIDE DEF both
      <4> QED
        BY <1>5a, <3>2
    <3>4. h[n] = KeepOne(k, t[n], S)
      BY <1>7a, <3>1
    <3>5. KeepOne(g[M] \o k, t[n], S) = g[M] \o KeepOne(k, t[n], S)
      <4>1. Append(g[M] \o k, t[n]) = g[M] \o Append(k, t[n])
        <5>1. PICK a \in Seq(X), b \in Seq(X), x \in X : a = g[M] /\ b = k /\ x = t[n]
          BY <2>2, <3>1
        <5>2. PICK o : o = <<x>>
          OBVIOUS
        <5>3. o \in Seq(X) /\ a \o b \in Seq(X)
          BY <5>2, ConcatProperties
        <5>4. Append(a \o b, x) = (a \o b) \o o /\ Append(b, x) = b \o o
          BY <5>2, <5>3, AppendIsConcat
        <5>5. (a \o b) \o o = a \o (b \o o)
          BY <5>3, ConcatAssociative, SMTT(30)
        <5>6. Append(a \o b, x) = a \o Append(b, x)
          BY <5>4, <5>5, Zenon
        <5> QED
          BY <5>1, <5>6, Zenon
      <4>2. CASE t[n] \in S
        BY <4>1, <4>2, Zenon DEF KeepOne
      <4>3. CASE t[n] \notin S
        BY <4>3, Zenon DEF KeepOne
      <4> QED
        BY <4>2, <4>3
    <3>6. f[M + n] = both(n)
      BY <3>1, <3>3, <3>4, <3>5
    <3> HIDE DEF both
    <3> QED
      BY <2>1, <3>6
  <2>5. \A n \in 0..N : n \in T
    BY <2>3, <2>4, Induction
  <2>6. f[M + N] = both(N)
    <3> HIDE DEF both
    <3> QED
      BY <2>1, <2>5
  <2> QED
    BY <2>6
<1> QED
  BY <1>3, <1>5a, <1>6a, <1>7a, <1>8, <1>9

\* Nothing is filtered out of a sequence over S.
LEMMA KeepAll ==
  ASSUME NEW X, NEW s \in Seq(X), NEW S, \A i \in 1..Len(s) : s[i] \in S
  PROVE  Keep(s, S) = s
<1>1. PICK N \in Nat : N = Len(s)
  BY LenProperties
<1>2. PICK f : KeepRun(f, s, S, X)
  BY KeepSteps
<1>3. /\ f \in [0..N -> Seq(X)] /\ f[0] = <<>> /\ Keep(s, S) = f[N]
      /\ \A n \in 1..N : f[n] = KeepOne(f[n - 1], s[n], S)
  BY <1>1, <1>2 DEF KeepRun
<1> DEFINE part(n) == SubSeq(s, 1, n)
<1>4. part(0) = <<>> /\ part(N) = s
  BY <1>1, SubSeqProperties
<1>5. ASSUME NEW n \in 1..N
      PROVE  part(n) = Append(part(n - 1), s[n])
  BY <1>1
<1> HIDE DEF part
<1>6. PICK T : T = {n \in 0..N : f[n] = part(n)}
  OBVIOUS
<1>7. 0 \in T
  BY <1>3, <1>4, <1>6
<1>8. ASSUME NEW n \in 1..N, n - 1 \in T
      PROVE  n \in T
  <2>1. f[n] = KeepOne(part(n - 1), s[n], S) /\ s[n] \in S
    BY <1>1, <1>3, <1>6, <1>8
  <2>2. f[n] = Append(part(n - 1), s[n])
    BY <2>1 DEF KeepOne
  <2>3. f[n] = part(n)
    BY <1>5, <2>2, Zenon
  <2> QED
    BY <1>6, <2>3
<1>9. \A n \in 0..N : n \in T
  BY <1>7, <1>8, Induction
<1> QED
  BY <1>3, <1>4, <1>6, <1>9

\* Everything is filtered out of a sequence without elements of S.
LEMMA KeepNone ==
  ASSUME NEW X, NEW s \in Seq(X), NEW S, \A i \in 1..Len(s) : s[i] \notin S
  PROVE  Keep(s, S) = <<>>
<1>1. PICK k : k = Keep(s, S)
  OBVIOUS
<1>2. k \in Seq(X) /\ \A i \in 1..Len(k) : k[i] \in S /\ \E j \in 1..Len(s) : s[j] = k[i]
  BY <1>1, KeepHas
<1>3. Len(k) \in Nat /\ ~(1 \in 1..Len(k))
  BY <1>2, LenProperties
<1>4. Len(k) = 0
  BY <1>3
<1> QED
  BY <1>1, <1>2, <1>4, EmptySeq

\* One more element.
LEMMA KeepAppend ==
  ASSUME NEW X, NEW s \in Seq(X), NEW x \in X, NEW S
  PROVE  Keep(Append(s, x), S) = IF x \in S THEN Append(Keep(s, S), x) ELSE Keep(s, S)
<1>0. PICK o : o = <<x>>
  OBVIOUS
<1>1. o \in Seq(X) /\ Len(o) = 1 /\ o[1] = x
  BY <1>0
<1>2. PICK l : l = Append(s, x) /\ l = s \o o
  <2>1. Append(s, x) = s \o <<x>>
    OBVIOUS
  <2> QED
    BY <1>0, <2>1, Zenon
<1>3. PICK k : k = Keep(s, S) /\ k \in Seq(X)
  BY KeepHas
<1>4. Keep(l, S) = k \o Keep(o, S)
  <2>1. Keep(s \o o, S) = Keep(s, S) \o Keep(o, S)
    BY <1>1, KeepConcat
  <2> QED
    BY <1>2, <1>3, <2>1, Zenon
<1>5. CASE x \in S
  <2>1. Keep(o, S) = o
    BY <1>1, <1>5, KeepAll
  <2>2. k \o o = Append(k, x)
    BY <1>0, <1>3
  <2> QED
    BY <1>2, <1>3, <1>4, <1>5, <2>1, <2>2, Zenon
<1>6. CASE x \notin S
  <2>1. Keep(o, S) = <<>>
    BY <1>1, <1>6, KeepNone
  <2>2. k \o <<>> = k
    BY <1>3, ConcatEmptySeq
  <2> QED
    BY <1>2, <1>3, <1>4, <1>6, <2>1, <2>2, Zenon
<1> QED
  BY <1>5, <1>6

\* The first element is taken away.
LEMMA KeepTail ==
  ASSUME NEW X, NEW s \in Seq(X), s # <<>>, NEW S
  PROVE  IF Head(s) \in S
         THEN Keep(s, S) # <<>> /\ Keep(Tail(s), S) = Tail(Keep(s, S))
         ELSE Keep(Tail(s), S) = Keep(s, S)
<1>1. PICK x, t : x = Head(s) /\ t = Tail(s)
  OBVIOUS
<1>0. PICK o : o = <<x>>
  OBVIOUS
<1>2. x \in X /\ t \in Seq(X) /\ s = o \o t
  BY <1>0, <1>1
<1>3. o \in Seq(X) /\ Len(o) = 1 /\ o[1] = x
  BY <1>0, <1>2
<1>4. PICK k : k = Keep(t, S) /\ k \in Seq(X)
  BY <1>2, KeepHas
<1>5. Keep(s, S) = Keep(o, S) \o k
  <2>1. Keep(o \o t, S) = Keep(o, S) \o Keep(t, S)
    BY <1>2, <1>3, KeepConcat
  <2> QED
    BY <1>2, <1>4, <2>1, Zenon
<1>6. CASE x \in S
  <2>1. Keep(o, S) = o
    BY <1>3, <1>6, KeepAll
  <2>2. o \o k # <<>> /\ Tail(o \o k) = k
    BY <1>0, <1>2, <1>4
  <2> QED
    BY <1>1, <1>4, <1>5, <1>6, <2>1, <2>2, Zenon
<1>7. CASE x \notin S
  <2>1. Keep(o, S) = <<>>
    BY <1>3, <1>7, KeepNone
  <2>2. <<>> \o k = k
    BY <1>4, ConcatEmptySeq
  <2> QED
    BY <1>1, <1>4, <1>5, <1>7, <2>1, <2>2, Zenon
<1> QED
  BY <1>6, <1>7

-------------------------------------------------------------------------------
(* The invariant of the daemon *)

\* A bundle as the storage agent keeps and announces it.
Sound ==
  {r \in StoredBundles :
     /\ r.state # "Received" => r.pb \in validated
     /\ r.state = "DeliveryQueued" => Local(r.pb) /\ ~HeaderOf(r.pb).fragment
     /\ r.state = "ForwardingQueued" => ~Local(r.pb)}

\* Bundles on their way to a client, and to a peer.
ForClients ==
  {r \in StoredBundles : r.pb \in validated /\ Local(r.pb) /\ ~HeaderOf(r.pb).fragment}

ForPeers == {r \in StoredBundles : r.pb \in validated /\ ~Local(r.pb)}

\* A bundle is queued where it belongs.
QueuesRight(m) ==
  m.type = "UpdateBundle" =>
    /\ m.newState = "DeliveryQueued" => Local(m.pb) /\ ~HeaderOf(m.pb).fragment
    /\ m.newState = "ForwardingQueued" => ~Local(m.pb)

\* The rest of the contract of BundleStorage: only forwarding leaves a new hop
\* budget, only a Valid bundle is sent to defragmentation, and a bundle is only
\* split when it is larger than one of the limits.
InContract(m) ==
  /\ m.type = "UpdateBundle" =>
       /\ m.newState = "ForwardingQueued" => m.newHops \in Nat
       /\ m.newState # "ForwardingQueued" => m.newHops = -1
       /\ m.newState = "DefragmentationPending" => m.pb \in validated
  /\ m.type = "FragmentBundle" =>
       /\ HeaderOf(m.pb).mayFragment
       /\ m.target \in SizeLimits /\ HeaderOf(m.pb).size > m.target

\* The messages the protocol agent and the environment send to the storage agent.
RequestOK(m) == MessageOK(m) /\ QueuesRight(m) /\ InContract(m)

Requests == {m \in StorageMessages : RequestOK(m)}

\* The routes, with a size limit of a peer or of a static route or without one.
KnownEntries == {r \in RouteEntries : r.max_size \in SizeLimits \cup {0}}

KnownRoutes == [next_hop : Nodes, max_size : SizeLimits \cup {0}] \cup {None}

\* The messages to the protocol agent, by what they tell.
Updates == [type : {"EventBundleUpdated"}, bundle : Sound]

Deliveries ==
  [type : {"EventBundleDelivered"}, endpoint : Endpoints,
   bundle : {r \in ForClients : r.pb \in finished}]
  \cup [type : {"EventBundleDeliveryFailed"}, endpoint : Endpoints, bundle : ForClients]

Forwardings ==
  [type : {"EventBundleForwarded"}, endpoint : Nodes,
   bundle : {r \in ForPeers : r.pb \in finished}]
  \cup [type : {"EventBundleForwardingFailed"}, endpoint : Nodes, bundle : ForPeers]

Connections ==
  [type : {"EventClientConnected"}, destination : Endpoints, sender : Clients]
  \cup [type : {"EventClientDisconnected"}, destination : Endpoints]
  \cup [type : {"EventPeerConnected"}, destination : Nodes, sender : Sessions]
  \cup [type : {"EventPeerDisconnected"}, destination : Nodes]
  \cup [type : {"EventRoutingTableUpdate"}, routes : [Nodes -> KnownRoutes]]

Events == Updates \cup Deliveries \cup Forwardings \cup Connections

MailInv ==
  /\ bundles \in Seq(Sound)
  /\ bsaMail \in Seq(Requests) /\ bpaMail \in Seq(Events)
  /\ answers \subseteq Forwardings
  /\ reports \in Nat /\ bpa \in {"up", "panicked"}
  /\ \A p \in finished : ~(Local(p) /\ HeaderOf(p).fragment)

QueuesInv ==
  /\ local_bundles \in [Endpoints -> Seq(ForClients)]
  /\ pending_local \in [Endpoints -> Seq(ForClients)]
  /\ local_connections \in [Endpoints -> Clients \cup {None}]
  /\ actor \in [Clients -> {"unused", "running", "stopped"}]
  /\ actorMail \in [Clients -> Seq(ForClients \cup {Stop})]

StreamsInv ==
  /\ stream \in [Clients -> {"unused", "open", "hung", "gone"}]
  /\ channel \in [Clients -> Seq(ForClients)]
  /\ \A c \in Clients : Len(channel[c]) <= 2
  /\ connected \in [Endpoints -> Clients \cup {None}]

RemoteInv ==
  /\ remote_bundles \in [Nodes -> Seq(ForPeers)]
  /\ pending_remote \in [Nodes -> Seq(ForPeers)]
  /\ remote_connections \in [Nodes -> Sessions \cup {None}]
  /\ remote_routes \in [Nodes -> KnownRoutes]
  /\ session \in [Sessions -> {"unused", "up", "down"}]
  /\ sessionMail \in [Sessions -> Seq(ForPeers)]
  /\ \A s \in Sessions : Len(sessionMail[s]) <= SessionCapacity
  /\ inFlight \in [Sessions -> Seq(ForPeers)]

RoutingInv ==
  /\ routes \subseteq KnownEntries
  /\ routingMail \in Seq([type : {"AddRoute", "RemoveRoute"}, route : KnownEntries])

DaemonInv ==
  Inv /\ HInv /\ MailInv /\ QueuesInv /\ StreamsInv /\ RemoteInv /\ RoutingInv

\* The limits are numbers, and known where they come from.
LEMMA LimitsKnown ==
  /\ SizeLimits \subseteq Nat
  /\ KnownRoutes \subseteq Routes
  /\ StaticRoutes \subseteq KnownEntries
  /\ \A s \in Sessions : Connected(PeerOf[s], PeerMru[s]) \in KnownEntries
<1>1. SizeLimits \subseteq Nat
  BY DtrdAssumption DEF SizeLimits, RouteEntries
<1>2. ASSUME NEW r \in KnownRoutes
      PROVE  r \in Routes
  <2>1. PICK L : L = SizeLimits \cup {0}
    OBVIOUS
  <2>2. L \subseteq Nat
    BY <1>1, <2>1
  <2>3. r \in [next_hop : Nodes, max_size : L] \cup {None}
    BY <2>1 DEF KnownRoutes
  <2> QED
    BY <2>2, <2>3 DEF Routes
<1>3. ASSUME NEW r \in StaticRoutes
      PROVE  r \in KnownEntries
  <2>1. r \in RouteEntries
    BY DtrdAssumption
  <2>2. r.max_size \in SizeLimits
    BY DEF SizeLimits
  <2> QED
    BY <2>1, <2>2 DEF KnownEntries
<1>4. ASSUME NEW s \in Sessions
      PROVE  Connected(PeerOf[s], PeerMru[s]) \in KnownEntries
  <2>1. PeerOf[s] \in Nodes /\ PeerMru[s] \in Nat /\ PeerMru[s] \in SizeLimits
    BY DtrdAssumption DEF SizeLimits
  <2> QED
    BY <2>1 DEF Connected, KnownEntries, RouteEntries
<1> QED
  BY <1>1, <1>2, <1>3, <1>4

\* The types are part of it.
LEMMA Typed ==
  ASSUME DaemonInv
  PROVE  TypeOK
<1>1. ForClients \subseteq StoredBundles /\ ForPeers \subseteq StoredBundles
      /\ Requests \subseteq StorageMessages
  BY DEF ForClients, ForPeers, Requests
<1>2. /\ Seq(ForClients) \subseteq Seq(StoredBundles)
      /\ Seq(ForPeers) \subseteq Seq(StoredBundles)
      /\ Seq(Requests) \subseteq Seq(StorageMessages)
  BY <1>1, SeqMonotonic
<1>3. \A e \in Endpoints : /\ local_bundles[e] \in Seq(StoredBundles)
                           /\ pending_local[e] \in Seq(StoredBundles)
  BY <1>2 DEF DaemonInv, QueuesInv
<1>4. \A n \in Nodes : /\ remote_bundles[n] \in Seq(StoredBundles)
                       /\ pending_remote[n] \in Seq(StoredBundles)
  BY <1>2 DEF DaemonInv, RemoteInv
<1>5. StorageTypeOK /\ bsaMail \in Seq(StorageMessages)
  BY <1>2 DEF DaemonInv, Inv, MailInv
<1>6. remote_routes \in [Nodes -> Routes]
  BY LimitsKnown DEF DaemonInv, RemoteInv
<1> QED
  BY <1>3, <1>4, <1>5, <1>6 DEF DaemonInv, MailInv, QueuesInv, StreamsInv, RemoteInv, TypeOK

\* What headers say of primary blocks, for reports too.
LEMMA DestType ==
  ASSUME NEW p \in PrimaryBlocks
  PROVE  /\ HeaderOf(p).dest \in Endpoints \cup Nodes
         /\ Local(p) <=> HeaderOf(p).dest \notin Nodes
         /\ HeaderOf(p).size \in Nat /\ HeaderOf(p).minSize \in Nat
         /\ \A k \in HeaderOf(p).wants : p \in Bundles /\ k \in Kinds
<1>1. HeaderOf(p).dest \in Endpoints \cup Nodes
  <2>1. CASE p \in Bundles
    BY <2>1, HeaderAssumption DEF HeaderOf, Headers
  <2>2. CASE p \in Reports
    <3>1. p[1] \in Bundles
      BY <2>2 DEF Reports
    <3>2. Header[p[1]].reportTo \in Endpoints \cup Nodes
      BY <3>1, HeaderAssumption DEF Headers
    <3> QED
      BY <2>1, <3>2 DEF HeaderOf
  <2> QED
    BY <2>1, <2>2 DEF PrimaryBlocks
<1>2. Local(p) <=> HeaderOf(p).dest \notin Nodes
  BY <1>1, HeaderAssumption DEF Local
<1>3. CASE p \in Bundles
  <2>1. HeaderOf(p) = Header[p] /\ Header[p] \in Headers
    BY <1>3, HeaderAssumption DEF HeaderOf
  <2> QED
    BY <1>1, <1>2, <1>3, <2>1 DEF Headers
<1>4. CASE p \notin Bundles
  BY <1>1, <1>2, <1>4 DEF HeaderOf
<1> QED
  BY <1>3, <1>4

Grows == validated \subseteq validated' /\ finished \subseteq finished'

\* Bundles stay validated and finished, so references and messages stay sound.
LEMMA Growth ==
  ASSUME Grows
  PROVE  /\ Sound \subseteq Sound' /\ ForClients \subseteq ForClients'
         /\ ForPeers \subseteq ForPeers' /\ Requests \subseteq Requests'
         /\ Updates \subseteq Updates' /\ Deliveries \subseteq Deliveries'
         /\ Forwardings \subseteq Forwardings'
         /\ Connections \subseteq Connections' /\ Events \subseteq Events'
<1>1. validated \subseteq validated' /\ finished \subseteq finished'
  BY DEF Grows
<1>2. Sound \subseteq Sound' /\ ForClients \subseteq ForClients' /\ ForPeers \subseteq ForPeers'
  BY <1>1 DEF Sound, ForClients, ForPeers
<1>3. ASSUME NEW m, RequestOK(m)
      PROVE  RequestOK(m)'
  BY <1>1, <1>3 DEF RequestOK, MessageOK, QueuesRight, InContract
<1>4. Requests \subseteq Requests'
  BY <1>3 DEF Requests
<1>5. Updates \subseteq Updates'
  BY <1>2 DEF Updates
<1>6. Deliveries \subseteq Deliveries'
  BY <1>1, <1>2 DEF Deliveries
<1>7. Forwardings \subseteq Forwardings'
  BY <1>1, <1>2 DEF Forwardings
<1>8. Connections \subseteq Connections'
  BY DEF Connections
<1> QED
  BY <1>2, <1>4, <1>5, <1>6, <1>7, <1>8 DEF Events

\* What a step leaves alone stays as it should be.
LEMMA QueuesStay ==
  ASSUME QueuesInv, Grows, UNCHANGED localVars
  PROVE  QueuesInv'
<1>1. UNCHANGED <<local_bundles, pending_local, local_connections, actor, actorMail>>
  BY DEF localVars
<1>2. Seq(ForClients) \subseteq Seq(ForClients')
  BY Growth, SeqMonotonic
<1>3. Seq(ForClients \cup {Stop}) \subseteq Seq(ForClients' \cup {Stop})
  <2>1. ForClients \cup {Stop} \subseteq ForClients' \cup {Stop}
    BY Growth
  <2> QED
    BY <2>1, SeqMonotonic
<1> QED
  BY <1>1, <1>2, <1>3 DEF QueuesInv

\* The same for the streams.
LEMMA StreamsStay ==
  ASSUME StreamsInv, Grows, UNCHANGED clientVars
  PROVE  StreamsInv'
<1>1. Seq(ForClients) \subseteq Seq(ForClients')
  BY Growth, SeqMonotonic
<1> QED
  BY <1>1 DEF StreamsInv, clientVars

\* The same for peers.
LEMMA RemoteStays ==
  ASSUME RemoteInv, Grows, UNCHANGED remoteVars
  PROVE  RemoteInv'
<1>1. Seq(ForPeers) \subseteq Seq(ForPeers')
  BY Growth, SeqMonotonic
<1>2. UNCHANGED <<remote_bundles, pending_remote, remote_connections, remote_routes,
                  session, sessionMail, inFlight>>
  BY DEF remoteVars
<1> QED
  BY <1>1, <1>2 DEF RemoteInv

\* The same for the routing agent.
LEMMA RoutingStays ==
  ASSUME RoutingInv, UNCHANGED routingVars
  PROVE  RoutingInv'
BY DEF RoutingInv, routingVars

-------------------------------------------------------------------------------
(* The storage agent in the daemon *)

\* What is announced is sound if what was stored is.
LEMMA AnnouncedSound ==
  ASSUME MailInv, Grows, NEW m, QueuesRight(m), NEW r \in StoredBundles, Announced(r, m)
  PROVE  r \in Sound'
<1>1. r.state # "Received" => r.pb \in validated'
  BY DEF Announced
<1>2. CASE r.state \in {"Received", "Valid"}
  BY <1>1, <1>2 DEF Sound
<1>3. CASE \E j \in 1..Len(bundles) : bundles[j].pb = r.pb /\ bundles[j].state = r.state
  <2>1. PICK j \in 1..Len(bundles) : bundles[j].pb = r.pb /\ bundles[j].state = r.state
    BY <1>3
  <2>2. bundles[j] \in Sound
    BY ElementOfSeq DEF MailInv
  <2> QED
    BY <1>1, <2>1, <2>2 DEF Sound
<1>4. CASE m.type = "UpdateBundle" /\ m.pb = r.pb /\ m.newState = r.state
  BY <1>1, <1>4 DEF Sound, QueuesRight
<1> QED
  BY <1>2, <1>3, <1>4 DEF Announced

\* The mailboxes after a step that leaves the stored bundles alone.
LEMMA MailStep ==
  ASSUME MailInv, Grows, UNCHANGED bundles,
         bsaMail' \in Seq(Requests'), bpaMail' \in Seq(Events'),
         answers' \subseteq Forwardings', reports' \in Nat, bpa' \in {"up", "panicked"},
         \A p \in finished' \ finished : ~(Local(p) /\ HeaderOf(p).fragment)
  PROVE  MailInv'
<1>1. bundles' \in Seq(Sound')
  BY Growth, SeqMonotonic DEF MailInv
<1> QED
  BY <1>1 DEF MailInv

\* What is in the mailboxes is still in order after any step.
LEMMA MailGrows ==
  ASSUME MailInv, Grows
  PROVE  /\ bsaMail \in Seq(Requests') /\ bpaMail \in Seq(Events')
         /\ bpaMail # <<>> => Head(bpaMail) \in Events /\ Tail(bpaMail) \in Seq(Events')
         /\ answers \subseteq Forwardings' /\ reports \in Nat /\ bpa \in {"up", "panicked"}
<1>1. bsaMail \in Seq(Requests') /\ bpaMail \in Seq(Events')
  BY Growth, SeqMonotonic DEF MailInv
<1>2. ASSUME bpaMail # <<>>
      PROVE  Head(bpaMail) \in Events /\ Tail(bpaMail) \in Seq(Events')
  BY <1>1, <1>2, HeadTailProperties DEF MailInv
<1>3. answers \subseteq Forwardings'
  BY Growth DEF MailInv
<1> QED
  BY <1>1, <1>2, <1>3 DEF MailInv

\* The mailboxes and the stored bundles after a message or a start.
LEMMA EffectMail ==
  ASSUME MailInv, Inv', Grows, UNCHANGED <<finished, answers, reports, bpa>>,
         NEW m, QueuesRight(m), Effect(m), bsaMail' \in Seq(Requests')
  PROVE  MailInv'
<1>1. bundles' \in Seq(Sound')
  <2>1. bundles' \in Seq(StoredBundles)
    BY DEF Inv, StorageTypeOK
  <2>2. PICK s : s = bundles'
    OBVIOUS
  <2>3. ASSUME NEW k \in 1..Len(s)
        PROVE  s[k] \in Sound'
    <3>1. s[k] \in StoredBundles /\ Announced(s[k], m)
      BY <2>1, <2>2, ElementOfSeq DEF Effect
    <3> QED
      BY <3>1, AnnouncedSound
  <2>4. s \in Seq(Sound')
    BY <2>1, <2>2, <2>3, LenProperties, SeqDef
  <2> QED
    BY <2>2, <2>4
<1>2. bpaMail \in Seq(Events')
  BY MailGrows
<1>3. bpaMail' \in Seq(Events')
  <2>1. CASE UNCHANGED bpaMail
    BY <1>2, <2>1
  <2>2. CASE \E refs \in Seq(StoredBundles) :
               Announce(refs) /\ \A k \in 1..Len(refs) : Announced(refs[k], m)
    <3>1. PICK refs \in Seq(StoredBundles) :
            Announce(refs) /\ \A k \in 1..Len(refs) : Announced(refs[k], m)
      BY <2>2
    <3>2. PICK n \in Nat : n = Len(refs)
      BY LenProperties
    <3>3. ASSUME NEW k \in 1..n
          PROVE  EventBundleUpdated(refs[k]) \in Events'
      <4>1. refs[k] \in StoredBundles /\ Announced(refs[k], m)
        BY <3>1, <3>2, ElementOfSeq
      <4>2. refs[k] \in Sound'
        BY <4>1, AnnouncedSound
      <4> QED
        BY <4>2 DEF EventBundleUpdated, Updates, Events
    <3>4. PICK ms : ms = [k \in 1..n |-> EventBundleUpdated(refs[k])]
      OBVIOUS
    <3>5. ms \in [1..n -> Events']
      BY <3>3, <3>4
    <3>6. ms \in Seq(Events')
      BY <3>5, SeqDef
    <3>7. bpaMail' = bpaMail \o ms
      BY <3>1, <3>2, <3>4 DEF Announce
    <3> QED
      BY <1>2, <3>6, <3>7, ConcatProperties
  <2> QED
    BY <2>1, <2>2 DEF Effect, Announces
<1>4. answers' \subseteq Forwardings'
  BY MailGrows
<1> QED
  BY <1>1, <1>3, <1>4 DEF MailInv

\* A handler only adds to what is validated and to what is replaced.
LEMMA HandleGrows ==
  ASSUME NEW m, HandleStorageMessage(m)
  PROVE  Grows /\ finished' = finished /\ replaced \subseteq replaced'
<1>1. ASSUME UNCHANGED historyVars
      PROVE  Grows /\ finished' = finished /\ replaced \subseteq replaced'
  BY <1>1 DEF historyVars, Grows
<1>2. ASSUME NEW type, HandleStore(m, type) \/ HandleUnknownBundle(m, type)
      PROVE  UNCHANGED historyVars
  BY <1>2 DEF HandleStore, HandleUnknownBundle
<1>3. ASSUME NEW i, \/ HandleFragmentTooSmall(m, i) \/ HandleFragmentPanic(m, i)
                    \/ HandleFinishedBundle(m, i)
      PROVE  UNCHANGED historyVars
  BY <1>3 DEF HandleFragmentTooSmall, HandleFragmentPanic, HandleFinishedBundle
<1>4. ASSUME NEW i, HandleFragmentBundle(m, i)
      PROVE  Grows /\ finished' = finished /\ replaced \subseteq replaced'
  BY <1>4 DEF HandleFragmentBundle, Grows
<1>5. ASSUME NEW i, HandleUpdateBundle(m, i)
      PROVE  Grows /\ finished' = finished /\ replaced \subseteq replaced'
  BY <1>5 DEF HandleUpdateBundle, Grows
<1>6. ASSUME NEW i, HandleDefragmentBundle(m, i)
      PROVE  Grows /\ finished' = finished /\ replaced \subseteq replaced'
  BY <1>6 DEF HandleDefragmentBundle, Grows
<1> QED
  BY <1>1, <1>2, <1>3, <1>4, <1>5, <1>6 DEF HandleStorageMessage,
     HandleStoreReceivedBundle, HandleStoreNewBundle

\* The agent takes a message, or the disk does something.
LEMMA StorageAgentDaemon ==
  ASSUME DaemonInv, StorageAgentStep
  PROVE  DaemonInv'
<1>1. UNCHANGED <<bpa, reports, localVars, remoteVars, routingVars, clientVars, answers>>
  BY DEF StorageAgentStep, envVars
<1>2. ASSUME Grows, finished' = finished
      PROVE  (QueuesInv /\ StreamsInv /\ RemoteInv /\ RoutingInv)'
  BY <1>1, <1>2, QueuesStay, StreamsStay, RemoteStays, RoutingStays DEF DaemonInv
<1>3. CASE bsaMail # <<>> /\ HandleStorageMessage(Head(bsaMail)) /\ bsaMail' = Tail(bsaMail)
  <2>1. PICK m : m = Head(bsaMail)
    OBVIOUS
  <2>2. m \in Requests /\ bsaMail' \in Seq(Requests)
    BY <1>3, <2>1, HeadTailProperties DEF DaemonInv, MailInv
  <2>3. MessageOK(m) /\ QueuesRight(m) /\ HandleStorageMessage(m)
    BY <1>3, <2>1, <2>2 DEF Requests, RequestOK
  <2>4. Inv' /\ Effect(m) /\ HInv'
    BY <2>3, HandleInv, HandleStep DEF DaemonInv
  <2>5. Grows /\ finished' = finished
    BY <2>3, HandleGrows
  <2>6. bsaMail' \in Seq(Requests')
    BY <2>2, <2>5, Growth, SeqMonotonic
  <2>7. MailInv'
    BY <1>1, <2>3, <2>4, <2>5, <2>6, EffectMail DEF DaemonInv
  <2> QED
    BY <1>2, <2>4, <2>5, <2>7 DEF DaemonInv
<1>4. CASE FileStep /\ UNCHANGED bsaMail
  <2>1. UNCHANGED <<bpaMail, bundles, validated, finished>>
    BY <1>4 DEF FileStep, BeginWrite, EndWrite, FailWrite, PollDeletes, RunDelete, historyVars
  <2>2. Grows
    BY <2>1 DEF Grows
  <2>3. Inv' /\ HInv'
    BY <1>4, FileStepInv, FileStepStep DEF DaemonInv
  <2>4. MailInv'
    BY <1>1, <1>4, <2>1, <2>2, MailGrows, MailStep DEF DaemonInv
  <2> QED
    BY <1>2, <2>1, <2>2, <2>3, <2>4 DEF DaemonInv
<1> QED
  BY <1>3, <1>4 DEF StorageAgentStep

\* The daemon loads what is on disk.
LEMMA StartDaemon ==
  ASSUME DaemonInv, StartStorageAgent
  PROVE  DaemonInv'
<1>1. /\ UNCHANGED <<bpa, reports, localVars, remoteVars, routingVars, clientVars, answers>>
      /\ UNCHANGED bsaMail /\ StartStep
  BY DEF StartStorageAgent, envVars, StartStep
<1>2. UNCHANGED historyVars
  BY <1>1 DEF StartStep, TriggerLoading, StartAgent
<1>3. Grows /\ finished' = finished
  BY <1>2 DEF Grows, historyVars
<1>4. Inv'
  BY <1>1, TriggerLoadingInv, StartAgentInv DEF StartStep, DaemonInv
<1>5. HInv'
  BY <1>1, OtherStep DEF StartStep, TriggerLoading, StartAgent, historyVars, DaemonInv
<1>6. PICK m : m = [type |-> "Start"]
  OBVIOUS
<1>7. Effect(m) /\ QueuesRight(m)
  BY <1>1, <1>4, <1>6, StartEffect DEF DaemonInv, QueuesRight
<1>8. bsaMail' \in Seq(Requests')
  BY <1>1, <1>3, MailGrows DEF DaemonInv
<1>9. MailInv'
  BY <1>1, <1>3, <1>4, <1>7, <1>8, EffectMail DEF DaemonInv
<1> QED
  BY <1>1, <1>3, <1>4, <1>5, <1>9, QueuesStay, StreamsStay, RemoteStays, RoutingStays
     DEF DaemonInv

\* Only the files are left.
LEMMA CrashDaemonInv ==
  ASSUME DaemonInv, CrashDaemon
  PROVE  DaemonInv'
<1>1. Inv' /\ HInv'
  BY CrashInv, CrashStep DEF CrashDaemon, DaemonInv
<1>2. \A S : <<>> \in Seq(S)
  BY EmptySeq
<1>3. MailInv'
  BY <1>2 DEF CrashDaemon, Crash, DaemonInv, MailInv
<1>4. QueuesInv'
  BY <1>2 DEF CrashDaemon, DaemonInv, QueuesInv
<1>5. StreamsInv'
  BY <1>2 DEF CrashDaemon, DaemonInv, StreamsInv
<1>6. RemoteInv'
  <2>1. SessionCapacity \in Nat
    BY CapacityAssumption
  <2> QED
    BY <1>2, <2>1 DEF CrashDaemon, DaemonInv, RemoteInv, KnownRoutes
<1>7. RoutingInv'
  BY <1>2 DEF CrashDaemon, RoutingInv
<1> QED
  BY <1>1, <1>3, <1>4, <1>5, <1>6, <1>7 DEF DaemonInv

\* The daemon starts with nothing.
LEMMA InitDaemon ==
  ASSUME Init
  PROVE  DaemonInv
<1>1. StorageInit /\ BpaInit
  BY DEF Init
<1>2. Inv /\ HInv
  BY <1>1, InitInv, InitHandover
<1>3. \A S : <<>> \in Seq(S)
  BY EmptySeq
<1>4. MailInv
  BY <1>1, <1>3 DEF Init, StorageInit, BpaInit, MailInv
<1>5. QueuesInv
  BY <1>1, <1>3 DEF Init, BpaInit, QueuesInv
<1>6. StreamsInv
  BY <1>3 DEF Init, StreamsInv
<1>7. RemoteInv
  <2>1. SessionCapacity \in Nat
    BY CapacityAssumption
  <2> QED
    BY <1>1, <1>3, <2>1 DEF Init, BpaInit, RemoteInv, KnownRoutes
<1>8. RoutingInv
  BY <1>3 DEF Init, RoutingInv
<1> QED
  BY <1>2, <1>4, <1>5, <1>6, <1>7, <1>8 DEF DaemonInv

-------------------------------------------------------------------------------
(* The environment: clients, peers and routes *)

\* Nobody but the storage agent changes what is stored.
LEMMA OutsideStep ==
  ASSUME DaemonInv, UNCHANGED fixedVars,
         finished \subseteq finished', finished' \subseteq PrimaryBlocks
  PROVE  Grows /\ Inv' /\ HInv' /\ UNCHANGED bundles
<1>1. UNCHANGED <<storageVars, validated, replaced, torn, failed, written>>
  BY DEF fixedVars
<1>2. UNCHANGED <<bundles, files, writes, deletes>>
  BY <1>1 DEF storageVars
<1>3. Inv'
  BY <1>1, OthersInv DEF DaemonInv
<1>4. HInv'
  BY <1>1, <1>2, OtherStep DEF DaemonInv
<1> QED
  BY <1>1, <1>2, <1>3, <1>4 DEF Grows

\* The usual case: nothing is finished either.
LEMMA QuietStep ==
  ASSUME DaemonInv, UNCHANGED <<fixedVars, finished>>
  PROVE  Grows /\ Inv' /\ HInv' /\ UNCHANGED bundles
<1>1. finished \subseteq finished' /\ finished' \subseteq PrimaryBlocks
  BY DEF DaemonInv, Inv, StorageTypeOK
<1> QED
  BY <1>1, OutsideStep

\* One message more for the protocol agent.
LEMMA Told ==
  ASSUME MailInv, Grows, NEW m \in Events', Tell(m)
  PROVE  bpaMail' \in Seq(Events')
<1>1. bpaMail \in Seq(Events') /\ bpaMail' = Append(bpaMail, m)
  BY MailGrows DEF Tell
<1> QED
  BY <1>1, AppendProperties

\* The queues as they were are queues still.
LEMMA QueuesGrow ==
  ASSUME QueuesInv, Grows
  PROVE  /\ local_bundles \in [Endpoints -> Seq(ForClients')]
         /\ pending_local \in [Endpoints -> Seq(ForClients')]
         /\ actorMail \in [Clients -> Seq(ForClients' \cup {Stop})]
<1>1. Seq(ForClients) \subseteq Seq(ForClients')
  BY Growth, SeqMonotonic
<1>2. Seq(ForClients \cup {Stop}) \subseteq Seq(ForClients' \cup {Stop})
  <2>1. ForClients \cup {Stop} \subseteq ForClients' \cup {Stop}
    BY Growth
  <2> QED
    BY <2>1, SeqMonotonic
<1> QED
  BY <1>1, <1>2 DEF QueuesInv

\* So are the channels, with their heads and tails.
LEMMA StreamsGrow ==
  ASSUME StreamsInv, Grows
  PROVE  /\ channel \in [Clients -> Seq(ForClients')]
         /\ \A c \in Clients : channel[c] # <<>> =>
              /\ Head(channel[c]) \in ForClients /\ Tail(channel[c]) \in Seq(ForClients')
              /\ Len(Tail(channel[c])) <= 2
<1>1. Seq(ForClients) \subseteq Seq(ForClients')
  BY Growth, SeqMonotonic
<1>2. ASSUME NEW c \in Clients, channel[c] # <<>>
      PROVE  /\ Head(channel[c]) \in ForClients /\ Tail(channel[c]) \in Seq(ForClients')
             /\ Len(Tail(channel[c])) <= 2
  <2>1. channel[c] \in Seq(ForClients) /\ Len(channel[c]) <= 2
    BY DEF StreamsInv
  <2>2. Len(channel[c]) \in Nat
    BY <2>1, LenProperties
  <2> QED
    BY <1>1, <1>2, <2>1, <2>2, HeadTailProperties
<1> QED
  BY <1>1, <1>2 DEF StreamsInv

\* So are the mailboxes of the sessions.
LEMMA SessionsGrow ==
  ASSUME RemoteInv, Grows
  PROVE  /\ remote_bundles \in [Nodes -> Seq(ForPeers')]
         /\ pending_remote \in [Nodes -> Seq(ForPeers')]
         /\ sessionMail \in [Sessions -> Seq(ForPeers')]
         /\ inFlight \in [Sessions -> Seq(ForPeers')]
         /\ \A s \in Sessions : sessionMail[s] # <<>> =>
              /\ Head(sessionMail[s]) \in ForPeers
              /\ Tail(sessionMail[s]) \in Seq(ForPeers')
              /\ Len(Tail(sessionMail[s])) <= SessionCapacity
         /\ \A s \in Sessions : inFlight[s] # <<>> =>
              Head(inFlight[s]) \in ForPeers /\ Tail(inFlight[s]) \in Seq(ForPeers')
<1>1. Seq(ForPeers) \subseteq Seq(ForPeers')
  BY Growth, SeqMonotonic
<1>2. ASSUME NEW s \in Sessions, sessionMail[s] # <<>>
      PROVE  /\ Head(sessionMail[s]) \in ForPeers
             /\ Tail(sessionMail[s]) \in Seq(ForPeers')
             /\ Len(Tail(sessionMail[s])) <= SessionCapacity
  <2>1. sessionMail[s] \in Seq(ForPeers) /\ Len(sessionMail[s]) <= SessionCapacity
    BY DEF RemoteInv
  <2>2. Len(sessionMail[s]) \in Nat /\ SessionCapacity \in Nat
    BY <2>1, LenProperties, CapacityAssumption
  <2> QED
    BY <1>1, <1>2, <2>1, <2>2, HeadTailProperties
<1>3. ASSUME NEW s \in Sessions, inFlight[s] # <<>>
      PROVE  Head(inFlight[s]) \in ForPeers /\ Tail(inFlight[s]) \in Seq(ForPeers')
  <2>1. inFlight[s] \in Seq(ForPeers)
    BY DEF RemoteInv
  <2> QED
    BY <1>1, <1>3, <2>1, HeadTailProperties
<1> QED
  BY <1>1, <1>2, <1>3 DEF RemoteInv

\* A bundle is submitted or received.
LEMMA ArrivesDaemon ==
  ASSUME DaemonInv, NEW b \in Bundles, NEW m, Arrives(b, m),
         m = StoreNewBundle(b) \/ m = StoreReceivedBundle(b)
  PROVE  DaemonInv'
<1>1. /\ bsaMail' = bsaMail \o <<m>>
      /\ UNCHANGED <<bpaMail, fixedVars, finished, bpa, reports, localVars, remoteVars,
                     routingVars, clientVars, answers>>
  BY DEF Arrives, Send
<1>2. Grows /\ Inv' /\ HInv' /\ UNCHANGED bundles
  BY <1>1, QuietStep
<1>3. m \in Requests'
  BY DEF StoreNewBundle, StoreReceivedBundle, Requests, RequestOK, MessageOK, QueuesRight, InContract,
     StorageMessages, PrimaryBlocks
<1>4. PICK o : o = <<m>>
  OBVIOUS
<1>5. o \in Seq(Requests')
  BY <1>3, <1>4
<1>6. bsaMail' \in Seq(Requests')
  BY <1>1, <1>2, <1>4, <1>5, MailGrows, ConcatProperties DEF DaemonInv
<1>7. MailInv'
  BY <1>1, <1>2, <1>6, MailGrows, MailStep DEF DaemonInv
<1> QED
  BY <1>1, <1>2, <1>7, QueuesStay, StreamsStay, RemoteStays, RoutingStays DEF DaemonInv

\* What a step of a client leaves alone.
LEMMA ClientStays ==
  ASSUME DaemonInv, clientUnchanged, finished \subseteq finished',
         finished' \subseteq PrimaryBlocks,
         bpaMail' \in Seq(Events'),
         \A p \in finished' \ finished : ~(Local(p) /\ HeaderOf(p).fragment)
  PROVE  (Inv /\ HInv /\ MailInv /\ RemoteInv /\ RoutingInv)'
<1>1. UNCHANGED <<fixedVars, bsaMail, bpa, reports, remoteVars, routingVars, answers>>
  BY DEF clientUnchanged
<1>2. Grows /\ Inv' /\ HInv' /\ UNCHANGED bundles
  BY <1>1, OutsideStep
<1>3. MailInv'
  BY <1>1, <1>2, MailGrows, MailStep DEF DaemonInv
<1> QED
  BY <1>1, <1>2, <1>3, RemoteStays, RoutingStays DEF DaemonInv

\* A client connects.
LEMMA ListenConnectDaemon ==
  ASSUME DaemonInv, NEW c \in Clients, ListenConnect(c)
  PROVE  DaemonInv'
<1>1. /\ UNCHANGED <<fixedVars, finished, bsaMail, bpa, reports, local_bundles,
                     pending_local, local_connections, actorMail, remoteVars, channel,
                     routingVars, answers>>
      /\ stream' = [stream EXCEPT ![c] = "open"]
      /\ actor' = [actor EXCEPT ![c] = "running"]
      /\ connected' = [connected EXCEPT ![ListensTo[c]] = c]
      /\ Tell([type |-> "EventClientConnected", destination |-> ListensTo[c], sender |-> c])
  BY DEF ListenConnect
<1>2. Grows /\ Inv' /\ HInv' /\ UNCHANGED bundles
  BY <1>1, QuietStep
<1>3. ListensTo[c] \in Endpoints
  BY DtrdAssumption
<1>4. PICK m : m = [type |-> "EventClientConnected", destination |-> ListensTo[c], sender |-> c]
  OBVIOUS
<1>5. m \in Events'
  BY <1>3, <1>4 DEF Events, Connections
<1>6. MailInv'
  BY <1>1, <1>2, <1>4, <1>5, Told, MailGrows, MailStep DEF DaemonInv
<1>7. QueuesInv'
  BY <1>1, <1>2, QueuesGrow DEF DaemonInv, QueuesInv
<1>8. StreamsInv'
  BY <1>1, <1>2, <1>3, StreamsGrow DEF DaemonInv, StreamsInv
<1> QED
  BY <1>1, <1>2, <1>6, <1>7, <1>8, RemoteStays, RoutingStays DEF DaemonInv

\* The stream hands a bundle over, or finds it gone.
LEMMA PollStreamDaemon ==
  ASSUME DaemonInv, NEW c \in Clients, PollStream(c)
  PROVE  DaemonInv'
<1>1. PICK r : r = Head(channel[c])
  OBVIOUS
<1>2. /\ channel[c] # <<>> /\ channel' = [channel EXCEPT ![c] = Tail(channel[c])]
      /\ UNCHANGED <<actor, actorMail>> /\ clientUnchanged
      /\ \/ /\ finished' = finished \cup {r.pb}
            /\ stream' = [stream EXCEPT ![c] = "open"]
            /\ Tell(BundleDelivered(r))
         \/ /\ stream' = [stream EXCEPT ![c] = "hung"]
            /\ UNCHANGED <<finished, bpaMail>>
  BY <1>1 DEF PollStream
<1>3. r \in ForClients
  <2>1. channel[c] \in Seq(ForClients)
    BY DEF DaemonInv, StreamsInv
  <2> QED
    BY <1>1, <1>2, <2>1, HeadTailProperties
<1>4. r.pb \in PrimaryBlocks /\ Local(r.pb) /\ ~HeaderOf(r.pb).fragment
  BY <1>3 DEF ForClients, StoredBundles
<1>5. finished \subseteq finished' /\ finished' \subseteq PrimaryBlocks
      /\ \A p \in finished' \ finished : ~(Local(p) /\ HeaderOf(p).fragment)
  BY <1>2, <1>4 DEF DaemonInv, Inv, StorageTypeOK
<1>6. Grows
  BY <1>2, <1>5, OutsideStep DEF clientUnchanged
<1>7. bpaMail' \in Seq(Events')
  <2>1. CASE Tell(BundleDelivered(r)) /\ finished' = finished \cup {r.pb}
    <3>1. r \in ForClients' /\ r.pb \in finished'
      BY <1>3, <1>6, <2>1, Growth
    <3>2. HeaderOf(r.pb).dest \in Endpoints
      BY <1>4 DEF Local
    <3>3. BundleDelivered(r) \in Events'
      BY <3>1, <3>2 DEF BundleDelivered, Events, Deliveries
    <3> QED
      BY <1>6, <2>1, <3>3, Told DEF DaemonInv
  <2>2. CASE UNCHANGED bpaMail
    BY <1>6, <2>2, MailGrows DEF DaemonInv
  <2> QED
    BY <1>2, <2>1, <2>2
<1>8. (Inv /\ HInv /\ MailInv /\ RemoteInv /\ RoutingInv)'
  BY <1>2, <1>5, <1>7, ClientStays
<1>9. QueuesInv'
  BY <1>2, <1>6, QueuesGrow DEF DaemonInv, QueuesInv, clientUnchanged
<1>10. StreamsInv'
  <2>1. /\ channel \in [Clients -> Seq(ForClients')]
        /\ Tail(channel[c]) \in Seq(ForClients') /\ Len(Tail(channel[c])) <= 2
    BY <1>2, <1>6, StreamsGrow DEF DaemonInv
  <2>2. channel' \in [Clients -> Seq(ForClients')] /\ \A d \in Clients : Len(channel'[d]) <= 2
    BY <1>2, <2>1 DEF DaemonInv, StreamsInv
  <2>3. stream' \in [Clients -> {"unused", "open", "hung", "gone"}]
    BY <1>2 DEF DaemonInv, StreamsInv
  <2> QED
    BY <1>2, <2>2, <2>3 DEF DaemonInv, StreamsInv, clientUnchanged
<1> QED
  BY <1>8, <1>9, <1>10 DEF DaemonInv

\* The stream is dropped.
LEMMA DropStreamDaemon ==
  ASSUME DaemonInv, NEW c \in Clients, DropStream(c)
  PROVE  DaemonInv'
<1>1. PICK a : a = connected[ListensTo[c]]
  OBVIOUS
<1>2. /\ stream' = [stream EXCEPT ![c] = "gone"]
      /\ channel' = [channel EXCEPT ![c] = IF Len(channel[c]) = 2 THEN Tail(channel[c]) ELSE <<>>]
      /\ actorMail' = IF a # None /\ actor[a] = "running"
                      THEN [actorMail EXCEPT ![a] = Append(actorMail[a], Stop)] ELSE actorMail
      /\ Tell([type |-> "EventClientDisconnected", destination |-> ListensTo[c]])
      /\ UNCHANGED <<finished, actor>> /\ clientUnchanged
  BY <1>1 DEF DropStream
<1>3. ListensTo[c] \in Endpoints /\ a \in Clients \cup {None}
  BY <1>1, DtrdAssumption DEF DaemonInv, StreamsInv
<1>4. Grows
  BY <1>2, QuietStep DEF clientUnchanged
<1>5. finished \subseteq finished' /\ finished' \subseteq PrimaryBlocks
      /\ \A p \in finished' \ finished : ~(Local(p) /\ HeaderOf(p).fragment)
  BY <1>2 DEF DaemonInv, Inv, StorageTypeOK
<1>6. PICK m : m = [type |-> "EventClientDisconnected", destination |-> ListensTo[c]]
  OBVIOUS
<1>7. m \in Events'
  BY <1>3, <1>6 DEF Events, Connections
<1>8. (Inv /\ HInv /\ MailInv /\ RemoteInv /\ RoutingInv)'
  BY <1>2, <1>4, <1>5, <1>6, <1>7, Told, ClientStays DEF DaemonInv
<1>9. QueuesInv'
  <2>1. /\ local_bundles \in [Endpoints -> Seq(ForClients')]
        /\ pending_local \in [Endpoints -> Seq(ForClients')]
        /\ actorMail \in [Clients -> Seq(ForClients' \cup {Stop})]
    BY <1>4, QueuesGrow DEF DaemonInv
  <2>2. ASSUME NEW s \in Seq(ForClients' \cup {Stop})
        PROVE  Append(s, Stop) \in Seq(ForClients' \cup {Stop})
    BY AppendProperties
  <2>3. actorMail' \in [Clients -> Seq(ForClients' \cup {Stop})]
    BY <1>2, <1>3, <2>1, <2>2
  <2> QED
    BY <1>2, <2>1, <2>3 DEF DaemonInv, QueuesInv, clientUnchanged
<1>10. StreamsInv'
  <2>1. channel \in [Clients -> Seq(ForClients')] /\ <<>> \in Seq(ForClients')
    BY <1>4, StreamsGrow, EmptySeq DEF DaemonInv
  <2>2. channel[c] # <<>> => Tail(channel[c]) \in Seq(ForClients') /\ Len(Tail(channel[c])) <= 2
    BY <1>4, StreamsGrow DEF DaemonInv
  <2>3. Len(channel[c]) = 2 => channel[c] # <<>>
    OBVIOUS
  <2>4. PICK v : v = IF Len(channel[c]) = 2 THEN Tail(channel[c]) ELSE <<>>
    OBVIOUS
  <2>5. v \in Seq(ForClients') /\ Len(v) <= 2
    BY <2>1, <2>2, <2>3, <2>4
  <2>6. channel' \in [Clients -> Seq(ForClients')] /\ \A d \in Clients : Len(channel'[d]) <= 2
    BY <1>2, <2>1, <2>4, <2>5 DEF DaemonInv, StreamsInv
  <2> QED
    BY <1>2, <2>6 DEF DaemonInv, StreamsInv, clientUnchanged
<1> QED
  BY <1>8, <1>9, <1>10 DEF DaemonInv

\* The actor of a stream takes a message.
LEMMA ActorDaemon ==
  ASSUME DaemonInv, NEW c \in Clients,
         PassToStream(c) \/ StopListening(c) \/ FailDelivery(c)
  PROVE  DaemonInv'
<1>1. /\ clientUnchanged /\ UNCHANGED <<stream, finished>>
  BY DEF PassToStream, StopListening, FailDelivery
<1>2. Grows
  BY <1>1, QuietStep DEF clientUnchanged
<1>3. finished \subseteq finished' /\ finished' \subseteq PrimaryBlocks
      /\ \A p \in finished' \ finished : ~(Local(p) /\ HeaderOf(p).fragment)
  BY <1>1 DEF DaemonInv, Inv, StorageTypeOK
<1>4. /\ local_bundles \in [Endpoints -> Seq(ForClients')]
      /\ pending_local \in [Endpoints -> Seq(ForClients')]
      /\ actorMail \in [Clients -> Seq(ForClients' \cup {Stop})]
      /\ channel \in [Clients -> Seq(ForClients')]
  BY <1>2, QueuesGrow, StreamsGrow DEF DaemonInv
<1>5. actorMail[c] # <<>> => Head(actorMail[c]) = Stop \/ Head(actorMail[c]) \in ForClients'
  <2>1. actorMail[c] \in Seq(ForClients' \cup {Stop})
    BY <1>4
  <2>2. ASSUME actorMail[c] # <<>>
        PROVE  Head(actorMail[c]) \in ForClients' \cup {Stop}
    BY <2>1, <2>2, HeadTailProperties
  <2> QED
    BY <2>2
<1>6. ASSUME NEW s, bpaMail' \in Seq(Events'),
             actor' \in [Clients -> {"unused", "running", "stopped"}],
             actorMail' \in [Clients -> Seq(ForClients' \cup {Stop})],
             s \in Seq(ForClients'), Len(s) <= 2, channel' = [channel EXCEPT ![c] = s]
      PROVE  DaemonInv'
  <2>1. (Inv /\ HInv /\ MailInv /\ RemoteInv /\ RoutingInv)'
    BY <1>1, <1>3, <1>6, ClientStays
  <2>2. QueuesInv'
    BY <1>1, <1>4, <1>6 DEF DaemonInv, QueuesInv, clientUnchanged
  <2>3. channel' \in [Clients -> Seq(ForClients')] /\ \A d \in Clients : Len(channel'[d]) <= 2
    BY <1>4, <1>6 DEF DaemonInv, StreamsInv
  <2>4. StreamsInv'
    BY <1>1, <2>3 DEF DaemonInv, StreamsInv, clientUnchanged
  <2> QED
    BY <2>1, <2>2, <2>4 DEF DaemonInv
<1>7. \A S : <<>> \in Seq(S) /\ Len(<<>>) <= 2
  BY EmptySeq
<1>8. CASE PassToStream(c)
  <2>1. /\ ActorReady(c) /\ stream[c] # "gone" /\ Head(actorMail[c]) # Stop
        /\ channel' = [channel EXCEPT ![c] = Append(channel[c], Head(actorMail[c]))]
        /\ actorMail' = [actorMail EXCEPT ![c] = Tail(actorMail[c])]
        /\ UNCHANGED <<bpaMail, actor>>
    BY <1>8 DEF PassToStream
  <2>2. Len(channel[c]) < 2 /\ actorMail[c] # <<>>
    BY <2>1 DEF ActorReady
  <2>3. PICK r \in ForClients' : r = Head(actorMail[c])
    BY <1>5, <2>1, <2>2
  <2>4. PICK s : s = Append(channel[c], r)
    OBVIOUS
  <2>5. s \in Seq(ForClients') /\ Len(s) <= 2
    <3>1. channel[c] \in Seq(ForClients') /\ Len(channel[c]) \in Nat
      BY <1>4, LenProperties
    <3> QED
      BY <2>2, <2>4, <3>1, AppendProperties
  <2>6. actorMail' \in [Clients -> Seq(ForClients' \cup {Stop})]
    <3>1. actorMail[c] \in Seq(ForClients' \cup {Stop})
      BY <1>4
    <3>2. Tail(actorMail[c]) \in Seq(ForClients' \cup {Stop})
      BY <2>2, <3>1, HeadTailProperties
    <3> QED
      BY <1>4, <2>1, <3>2
  <2>7. actor' \in [Clients -> {"unused", "running", "stopped"}]
    BY <2>1 DEF DaemonInv, QueuesInv
  <2>8. bpaMail' \in Seq(Events')
    BY <1>2, <2>1, MailGrows DEF DaemonInv
  <2> QED
    BY <1>6, <2>1, <2>3, <2>4, <2>5, <2>6, <2>7, <2>8
<1>9. ASSUME StopActor(c)
      PROVE  /\ actor' \in [Clients -> {"unused", "running", "stopped"}]
             /\ actorMail' \in [Clients -> Seq(ForClients' \cup {Stop})]
  BY <1>4, <1>7, <1>9 DEF StopActor, DaemonInv, QueuesInv
<1>10. CASE StopListening(c)
  <2>1. StopActor(c) /\ UNCHANGED <<channel, bpaMail>>
    BY <1>10 DEF StopListening
  <2>2. PICK s : s = channel[c]
    OBVIOUS
  <2>3. s \in Seq(ForClients') /\ Len(s) <= 2 /\ channel' = [channel EXCEPT ![c] = s]
    BY <1>4, <2>1, <2>2 DEF DaemonInv, StreamsInv
  <2>4. bpaMail' \in Seq(Events')
    BY <1>2, <2>1, MailGrows DEF DaemonInv
  <2> QED
    BY <1>6, <1>9, <2>1, <2>3, <2>4
<1>11. CASE FailDelivery(c)
  <2>1. StopActor(c) /\ channel' = [channel EXCEPT ![c] = <<>>]
    BY <1>11 DEF FailDelivery
  <2>2. \E r \in ForClients' : Tell(BundleDeliveryFailed(c, r))
    <3>1. CASE channel[c] # <<>> /\ Tell(BundleDeliveryFailed(c, Head(channel[c])))
      <4>1. channel[c] \in Seq(ForClients')
        BY <1>4
      <4>2. Head(channel[c]) \in ForClients'
        BY <3>1, <4>1, HeadTailProperties
      <4> QED
        BY <3>1, <4>2
    <3>2. CASE /\ ActorReady(c) /\ Head(actorMail[c]) # Stop
               /\ Tell(BundleDeliveryFailed(c, Head(actorMail[c])))
      BY <1>5, <3>2 DEF ActorReady
    <3> QED
      BY <1>11, <3>1, <3>2 DEF FailDelivery
  <2>3. PICK r \in ForClients' : Tell(BundleDeliveryFailed(c, r))
    BY <2>2
  <2>4. BundleDeliveryFailed(c, r) \in Events'
    <3>1. ListensTo[c] \in Endpoints
      BY DtrdAssumption
    <3> QED
      BY <3>1 DEF BundleDeliveryFailed, Events, Deliveries
  <2>5. bpaMail' \in Seq(Events')
    BY <1>2, <2>3, <2>4, Told DEF DaemonInv
  <2> QED
    BY <1>6, <1>7, <1>9, <2>1, <2>5
<1> QED
  BY <1>8, <1>10, <1>11

\* What a step of a session leaves alone.
LEMMA SessionStays ==
  ASSUME DaemonInv, sessionUnchanged, finished \subseteq finished',
         finished' \subseteq PrimaryBlocks,
         bpaMail' \in Seq(Events'), answers' \subseteq Forwardings',
         \A p \in finished' \ finished : ~(Local(p) /\ HeaderOf(p).fragment)
  PROVE  (Inv /\ HInv /\ MailInv /\ QueuesInv /\ StreamsInv)'
<1>1. UNCHANGED <<fixedVars, bsaMail, bpa, reports, localVars, clientVars>>
  BY DEF sessionUnchanged
<1>2. Grows /\ Inv' /\ HInv' /\ UNCHANGED bundles
  BY <1>1, OutsideStep
<1>3. MailInv'
  BY <1>1, <1>2, MailGrows, MailStep DEF DaemonInv
<1> QED
  BY <1>1, <1>2, <1>3, QueuesStay, StreamsStay DEF DaemonInv

\* A session comes up.
LEMMA PeerConnectDaemon ==
  ASSUME DaemonInv, NEW s \in Sessions, PeerConnect(s)
  PROVE  DaemonInv'
<1>1. /\ session' = [session EXCEPT ![s] = "up"]
      /\ Tell([type |-> "EventPeerConnected", destination |-> PeerOf[s], sender |-> s])
      /\ routingMail' = Append(routingMail, AddRoute(Connected(PeerOf[s], PeerMru[s])))
      /\ UNCHANGED <<sessionMail, inFlight, answers, finished, routes>>
      /\ sessionUnchanged
  BY DEF PeerConnect
<1>2. Grows
  BY <1>1, QuietStep DEF sessionUnchanged
<1>3. PeerOf[s] \in Nodes /\ PeerMru[s] \in Nat
  BY DtrdAssumption
<1>4. PICK m : m = [type |-> "EventPeerConnected", destination |-> PeerOf[s], sender |-> s]
  OBVIOUS
<1>5. m \in Events'
  BY <1>3, <1>4 DEF Events, Connections
<1>6. bpaMail' \in Seq(Events') /\ answers' \subseteq Forwardings'
  BY <1>1, <1>2, <1>4, <1>5, Told, MailGrows DEF DaemonInv
<1>7. (Inv /\ HInv /\ MailInv /\ QueuesInv /\ StreamsInv)'
  BY <1>1, <1>6, SessionStays DEF DaemonInv, Inv, StorageTypeOK
<1>8. RemoteInv'
  BY <1>1, <1>2, SessionsGrow DEF DaemonInv, RemoteInv, sessionUnchanged
<1>9. RoutingInv'
  <2>1. PICK r : r = AddRoute(Connected(PeerOf[s], PeerMru[s]))
    OBVIOUS
  <2>2. r \in [type : {"AddRoute", "RemoveRoute"}, route : KnownEntries]
    BY <2>1, LimitsKnown DEF AddRoute
  <2> QED
    BY <1>1, <2>1, <2>2, AppendProperties DEF DaemonInv, RoutingInv
<1> QED
  BY <1>7, <1>8, <1>9 DEF DaemonInv

\* The session takes a bundle from its mailbox.
LEMMA TakeDaemon ==
  ASSUME DaemonInv, NEW s \in Sessions, TakeForForwarding(s)
  PROVE  DaemonInv'
<1>1. PICK r : r = Head(sessionMail[s])
  OBVIOUS
<1>2. /\ sessionMail[s] # <<>>
      /\ sessionMail' = [sessionMail EXCEPT ![s] = Tail(sessionMail[s])]
      /\ inFlight' = IF Alive(r.data)
                     THEN [inFlight EXCEPT ![s] = Append(inFlight[s], r)] ELSE inFlight
      /\ UNCHANGED <<bpaMail, session, answers, finished, routingVars>>
      /\ sessionUnchanged
  BY <1>1 DEF TakeForForwarding
<1>3. Grows
  BY <1>2, QuietStep DEF sessionUnchanged
<1>4. bpaMail' \in Seq(Events') /\ answers' \subseteq Forwardings'
  BY <1>2, <1>3, MailGrows DEF DaemonInv
<1>5. (Inv /\ HInv /\ MailInv /\ QueuesInv /\ StreamsInv)'
  BY <1>2, <1>4, SessionStays DEF DaemonInv, Inv, StorageTypeOK
<1>6. /\ sessionMail \in [Sessions -> Seq(ForPeers')] /\ inFlight \in [Sessions -> Seq(ForPeers')]
      /\ remote_bundles \in [Nodes -> Seq(ForPeers')]
      /\ pending_remote \in [Nodes -> Seq(ForPeers')]
      /\ r \in ForPeers' /\ Tail(sessionMail[s]) \in Seq(ForPeers')
      /\ Len(Tail(sessionMail[s])) <= SessionCapacity
  BY <1>1, <1>2, <1>3, SessionsGrow, Growth DEF DaemonInv
<1>7. inFlight' \in [Sessions -> Seq(ForPeers')]
  <2>1. Append(inFlight[s], r) \in Seq(ForPeers')
    BY <1>6, AppendProperties
  <2> QED
    BY <1>2, <1>6, <2>1
<1>8. /\ sessionMail' \in [Sessions -> Seq(ForPeers')]
      /\ \A t \in Sessions : Len(sessionMail'[t]) <= SessionCapacity
  BY <1>2, <1>6 DEF DaemonInv, RemoteInv
<1>9. RemoteInv'
  BY <1>2, <1>6, <1>7, <1>8 DEF DaemonInv, RemoteInv, sessionUnchanged
<1> QED
  BY <1>2, <1>5, <1>9, RoutingStays DEF DaemonInv

\* A transfer is acknowledged, or refused.
LEMMA ResultDaemon ==
  ASSUME DaemonInv, NEW s \in Sessions, Acknowledge(s) \/ Refuse(s)
  PROVE  DaemonInv'
<1>1. PICK r : r = Head(inFlight[s])
  OBVIOUS
<1>2. PICK type \in {"EventBundleForwarded", "EventBundleForwardingFailed"} :
        /\ ForwardResult(s, type)
        /\ \/ type = "EventBundleForwarded" /\ finished' = finished \cup {r.pb}
           \/ type = "EventBundleForwardingFailed" /\ UNCHANGED finished
  BY <1>1 DEF Acknowledge, Refuse
<1>3. /\ inFlight[s] # <<>> /\ inFlight' = [inFlight EXCEPT ![s] = Tail(inFlight[s])]
      /\ answers' = answers \cup
           {[type |-> type, endpoint |-> HeaderOf(r.pb).dest, bundle |-> r]}
      /\ UNCHANGED <<bpaMail, session, sessionMail, routingVars>>
      /\ sessionUnchanged
  BY <1>1, <1>2 DEF ForwardResult
<1>4. r \in ForPeers
  <2>1. inFlight[s] \in Seq(ForPeers)
    BY DEF DaemonInv, RemoteInv
  <2> QED
    BY <1>1, <1>3, <2>1, HeadTailProperties
<1>5. r.pb \in PrimaryBlocks /\ ~Local(r.pb) /\ HeaderOf(r.pb).dest \in Nodes
  BY <1>4, DestType DEF ForPeers, StoredBundles
<1>6. finished \subseteq finished' /\ finished' \subseteq PrimaryBlocks
      /\ \A p \in finished' \ finished : ~(Local(p) /\ HeaderOf(p).fragment)
  BY <1>2, <1>5 DEF DaemonInv, Inv, StorageTypeOK
<1>7. Grows
  BY <1>3, <1>6, OutsideStep DEF sessionUnchanged
<1>8. PICK m : m = [type |-> type, endpoint |-> HeaderOf(r.pb).dest, bundle |-> r]
  OBVIOUS
<1>9. m \in Forwardings'
  <2>1. r \in ForPeers'
    BY <1>4, <1>7, Growth
  <2> QED
    BY <1>2, <1>5, <1>8, <2>1 DEF Forwardings
<1>10. bpaMail' \in Seq(Events') /\ answers' \subseteq Forwardings'
  BY <1>3, <1>7, <1>8, <1>9, MailGrows DEF DaemonInv
<1>11. (Inv /\ HInv /\ MailInv /\ QueuesInv /\ StreamsInv)'
  BY <1>3, <1>6, <1>10, SessionStays
<1>12. RemoteInv'
  <2>1. /\ sessionMail \in [Sessions -> Seq(ForPeers')] /\ inFlight \in [Sessions -> Seq(ForPeers')]
        /\ remote_bundles \in [Nodes -> Seq(ForPeers')]
        /\ pending_remote \in [Nodes -> Seq(ForPeers')]
        /\ Tail(inFlight[s]) \in Seq(ForPeers')
    BY <1>3, <1>7, SessionsGrow DEF DaemonInv
  <2>2. inFlight' \in [Sessions -> Seq(ForPeers')]
    BY <1>3, <2>1
  <2> QED
    BY <1>3, <2>1, <2>2 DEF DaemonInv, RemoteInv, sessionUnchanged
<1> QED
  BY <1>3, <1>11, <1>12, RoutingStays DEF DaemonInv

\* A task passes the result on.
LEMMA AnswerDaemon ==
  ASSUME DaemonInv, NEW m \in answers, Answer(m)
  PROVE  DaemonInv'
<1>1. /\ Tell(m) /\ answers' = answers \ {m}
      /\ UNCHANGED <<session, sessionMail, inFlight, finished, routingVars>>
      /\ sessionUnchanged
  BY DEF Answer
<1>2. Grows
  BY <1>1, QuietStep DEF sessionUnchanged
<1>3. m \in Events' /\ answers' \subseteq Forwardings'
  BY <1>1, <1>2, MailGrows DEF DaemonInv, Events
<1>4. bpaMail' \in Seq(Events')
  BY <1>1, <1>2, <1>3, Told DEF DaemonInv
<1>5. (Inv /\ HInv /\ MailInv /\ QueuesInv /\ StreamsInv)'
  BY <1>1, <1>3, <1>4, SessionStays DEF DaemonInv, Inv, StorageTypeOK
<1>6. UNCHANGED remoteVars
  BY <1>1 DEF sessionUnchanged, remoteVars
<1> QED
  BY <1>1, <1>2, <1>5, <1>6, RemoteStays, RoutingStays DEF DaemonInv

\* A session ends.
LEMMA EndSessionDaemon ==
  ASSUME DaemonInv, NEW s \in Sessions, EndSession(s)
  PROVE  DaemonInv'
<1>1. /\ session' = [session EXCEPT ![s] = "down"]
      /\ sessionMail' = [sessionMail EXCEPT ![s] = <<>>]
      /\ inFlight' = [inFlight EXCEPT ![s] = <<>>]
      /\ Tell([type |-> "EventPeerDisconnected", destination |-> PeerOf[s]])
      /\ routingMail' = Append(routingMail, RemoveRoute(Connected(PeerOf[s], PeerMru[s])))
      /\ UNCHANGED <<answers, finished, routes>>
      /\ sessionUnchanged
  BY DEF EndSession
<1>2. Grows
  BY <1>1, QuietStep DEF sessionUnchanged
<1>3. PeerOf[s] \in Nodes /\ PeerMru[s] \in Nat
  BY DtrdAssumption
<1>4. PICK m : m = [type |-> "EventPeerDisconnected", destination |-> PeerOf[s]]
  OBVIOUS
<1>5. m \in Events'
  BY <1>3, <1>4 DEF Events, Connections
<1>6. bpaMail' \in Seq(Events') /\ answers' \subseteq Forwardings'
  BY <1>1, <1>2, <1>4, <1>5, Told, MailGrows DEF DaemonInv
<1>7. (Inv /\ HInv /\ MailInv /\ QueuesInv /\ StreamsInv)'
  BY <1>1, <1>6, SessionStays DEF DaemonInv, Inv, StorageTypeOK
<1>8. RemoteInv'
  <2>1. /\ sessionMail \in [Sessions -> Seq(ForPeers')] /\ inFlight \in [Sessions -> Seq(ForPeers')]
        /\ remote_bundles \in [Nodes -> Seq(ForPeers')]
        /\ pending_remote \in [Nodes -> Seq(ForPeers')]
    BY <1>2, SessionsGrow DEF DaemonInv
  <2>2. <<>> \in Seq(ForPeers') /\ Len(<<>>) <= SessionCapacity
    BY EmptySeq, CapacityAssumption
  <2>3. /\ sessionMail' \in [Sessions -> Seq(ForPeers')]
        /\ inFlight' \in [Sessions -> Seq(ForPeers')]
        /\ \A t \in Sessions : Len(sessionMail'[t]) <= SessionCapacity
    BY <1>1, <2>1, <2>2 DEF DaemonInv, RemoteInv
  <2> QED
    BY <1>1, <2>1, <2>3 DEF DaemonInv, RemoteInv, sessionUnchanged
<1>9. RoutingInv'
  <2>1. PICK r : r = RemoveRoute(Connected(PeerOf[s], PeerMru[s]))
    OBVIOUS
  <2>2. r \in [type : {"AddRoute", "RemoveRoute"}, route : KnownEntries]
    BY <2>1, LimitsKnown DEF RemoveRoute
  <2> QED
    BY <1>1, <2>1, <2>2, AppendProperties DEF DaemonInv, RoutingInv
<1> QED
  BY <1>7, <1>8, <1>9 DEF DaemonInv

\* An administrator adds or removes a route.
LEMMA ChangeRouteDaemon ==
  ASSUME DaemonInv, NEW r \in StaticRoutes, NEW m, ChangeRoute(m),
         m = AddRoute(r) \/ m = RemoveRoute(r)
  PROVE  DaemonInv'
<1>1. /\ routingMail' = <<m>>
      /\ UNCHANGED <<bpaMail, fixedVars, finished, bsaMail, bpa, reports, localVars,
                     remoteVars, routes, clientVars, answers>>
  BY DEF ChangeRoute, envVars
<1>2. Grows /\ Inv' /\ HInv' /\ UNCHANGED bundles
  BY <1>1, QuietStep
<1>3. MailInv'
  BY <1>1, <1>2, MailGrows, MailStep DEF DaemonInv
<1>4. m \in [type : {"AddRoute", "RemoveRoute"}, route : KnownEntries]
  <2>1. r \in KnownEntries
    BY LimitsKnown
  <2> QED
    BY <2>1 DEF AddRoute, RemoveRoute
<1>5. <<m>> \in Seq([type : {"AddRoute", "RemoveRoute"}, route : KnownEntries])
  BY <1>4, SingletonSeq
<1>6. RoutingInv'
  BY <1>1, <1>5 DEF DaemonInv, RoutingInv
<1> QED
  BY <1>1, <1>2, <1>3, <1>6, QueuesStay, StreamsStay, RemoteStays DEF DaemonInv

\* The tables the routing agent may send.
LEMMA TableType ==
  ASSUME NEW rs \in SUBSET KnownEntries, NEW t \in RoutingTables(rs)
  PROVE  t \in [Nodes -> KnownRoutes]
<1>1. \A n \in Nodes : Preferred(rs, n) \subseteq KnownRoutes
  <2>1. ASSUME NEW n \in Nodes
        PROVE  Preferred(rs, n) \subseteq KnownRoutes
    <3>1. FirstEntries(rs, n) \subseteq KnownEntries
      BY DEF FirstEntries
    <3>2. \A r \in KnownEntries : [next_hop |-> r.next_hop, max_size |-> r.max_size] \in KnownRoutes
      BY DEF KnownEntries, RouteEntries, KnownRoutes
    <3>3. None \in KnownRoutes
      BY DEF KnownRoutes
    <3> QED
      BY <3>1, <3>2, <3>3 DEF Preferred
  <2> QED
    BY <2>1
<1>2. \A n \in Nodes : t[n] \in Preferred(rs, n)
  BY DEF RoutingTables
<1>3. PICK D : t \in [Nodes -> D]
  BY DEF RoutingTables
<1> QED
  BY <1>1, <1>2, <1>3

\* The routing agent takes a message.
LEMMA RoutingDaemon ==
  ASSUME DaemonInv, RoutingAgentStep
  PROVE  DaemonInv'
<1>1. UNCHANGED <<fixedVars, finished, bsaMail, bpa, reports, localVars, remoteVars,
                  clientVars, answers>>
  BY DEF RoutingAgentStep, envVars
<1>2. Grows /\ Inv' /\ HInv' /\ UNCHANGED bundles
  BY <1>1, QuietStep
<1>3. /\ routingMail # <<>> /\ routingMail' = Tail(routingMail)
      /\ \/ UNCHANGED <<routes, bpaMail>>
         \/ send_route_update /\ routes' \subseteq routes \cup {Head(routingMail).route}
  BY DEF RoutingAgentStep, HandleAddRoute, HandleRemoveRoute, TakesRouting
<1>4. RoutingInv'
  <2>1. PICK M : M = [type : {"AddRoute", "RemoveRoute"}, route : KnownEntries]
    OBVIOUS
  <2>2. Head(routingMail) \in M /\ Tail(routingMail) \in Seq(M)
    BY <1>3, <2>1, HeadTailProperties DEF DaemonInv, RoutingInv
  <2>3. Head(routingMail).route \in KnownEntries
    BY <2>1, <2>2
  <2> QED
    BY <1>3, <2>1, <2>2, <2>3 DEF DaemonInv, RoutingInv
<1>5. bpaMail' \in Seq(Events')
  <2>1. CASE UNCHANGED bpaMail
    BY <1>2, <2>1, MailGrows DEF DaemonInv
  <2>2. CASE send_route_update
    <3>1. PICK t \in RoutingTables(routes') :
            bpaMail' = Append(bpaMail, [type |-> "EventRoutingTableUpdate", routes |-> t])
      BY <2>2 DEF send_route_update
    <3>2. t \in [Nodes -> KnownRoutes]
      <4>1. routes' \in SUBSET KnownEntries
        BY <1>4 DEF RoutingInv
      <4> QED
        BY <4>1, TableType
    <3>3. PICK m : m = [type |-> "EventRoutingTableUpdate", routes |-> t]
      OBVIOUS
    <3>4. m \in Events'
      BY <3>2, <3>3 DEF Events, Connections
    <3> QED
      BY <1>2, <3>1, <3>3, <3>4, MailGrows, AppendProperties DEF DaemonInv
  <2> QED
    BY <1>3, <2>1, <2>2
<1>6. MailInv'
  BY <1>1, <1>2, <1>5, MailGrows, MailStep DEF DaemonInv
<1> QED
  BY <1>1, <1>2, <1>4, <1>6, QueuesStay, StreamsStay, RemoteStays DEF DaemonInv

-------------------------------------------------------------------------------
(* The passes over the queues *)

\* l and r are the parts of s before and after n.
Cut(s, n, l, r, S) ==
  /\ l \in Seq(S) /\ Len(l) = n /\ \A i \in 1..n : l[i] = s[i]
  /\ r \in Seq(S) /\ Len(r) = Len(s) - n /\ \A i \in 1..(Len(s) - n) : r[i] = s[n + i]
  /\ Pbs(s) = Pbs(l) \cup Pbs(r)

\* A sequence cut in two.
LEMMA PbsCut ==
  ASSUME NEW S, NEW s \in Seq(S), NEW n \in 0..Len(s),
         NEW l, l = SubSeq(s, 1, n), NEW r, r = SubSeq(s, n + 1, Len(s))
  PROVE  Cut(s, n, l, r, S)
<1>0. PICK N \in Nat : N = Len(s)
  BY LenProperties
<1>1. l \in Seq(S) /\ Len(l) = n /\ \A i \in 1..n : l[i] = s[i]
  BY <1>0, SubSeqProperties, SMT
<1>2. r \in Seq(S) /\ Len(r) = N - n /\ \A i \in 1..(N - n) : r[i] = s[n + i]
  BY <1>0, SubSeqProperties, SMT
<1>3. ASSUME NEW i \in 1..N
      PROVE  s[i].pb \in Pbs(l) \cup Pbs(r)
  <2>1. CASE i <= n
    <3>1. i \in 1..Len(l) /\ l[i] = s[i]
      BY <1>0, <1>1, <2>1
    <3> QED
      BY <3>1 DEF Pbs
  <2>2. CASE ~(i <= n)
    <3>1. PICK k \in 1..(N - n) : n + k = i
      <4>1. i - n \in 1..(N - n) /\ n + (i - n) = i
        BY <1>0, <2>2
      <4> QED
        BY <4>1
    <3>2. k \in 1..Len(r) /\ r[k] = s[i]
      BY <1>2, <3>1
    <3> QED
      BY <3>2 DEF Pbs
  <2> QED
    BY <2>1, <2>2
<1>4. Pbs(s) \subseteq Pbs(l) \cup Pbs(r)
  BY <1>0, <1>3 DEF Pbs
<1>5. Pbs(l) \subseteq Pbs(s)
  <2>1. \A i \in 1..Len(l) : i \in 1..Len(s) /\ l[i] = s[i]
    BY <1>0, <1>1
  <2> QED
    BY <2>1 DEF Pbs
<1>6. Pbs(r) \subseteq Pbs(s)
  <2>1. \A i \in 1..Len(r) : n + i \in 1..Len(s) /\ r[i] = s[n + i]
    BY <1>0, <1>2
  <2> QED
    BY <2>1 DEF Pbs
<1> QED
  BY <1>0, <1>1, <1>2, <1>4, <1>5, <1>6 DEF Cut

\* The first element and the rest.
LEMMA PbsHead ==
  ASSUME NEW S, NEW s \in Seq(S), s # <<>>
  PROVE  /\ Head(s) \in S /\ Tail(s) \in Seq(S)
         /\ Pbs(s) = {Head(s).pb} \cup Pbs(Tail(s))
<1>0. PICK N \in Nat : N = Len(s) /\ N > 0
  <2>1. Len(s) \in Nat /\ Len(s) # 0
    BY LenProperties, EmptySeq
  <2> QED
    BY <2>1
<1>1. PICK h, t : h = Head(s) /\ t = Tail(s)
  OBVIOUS
<1>2. /\ h \in S /\ t \in Seq(S) /\ Len(t) = N - 1 /\ h = s[1]
      /\ \A i \in 1..(N - 1) : t[i] = s[i + 1]
  BY <1>0, <1>1, HeadTailProperties
<1>3. ASSUME NEW i \in 1..N
      PROVE  s[i].pb \in {h.pb} \cup Pbs(t)
  <2>1. CASE i = 1
    BY <1>2, <2>1
  <2>2. CASE i # 1
    <3>1. PICK k \in 1..(N - 1) : k + 1 = i
      <4>1. i - 1 \in 1..(N - 1) /\ (i - 1) + 1 = i
        BY <1>0, <2>2
      <4> QED
        BY <4>1
    <3>2. k \in 1..Len(t) /\ t[k] = s[i]
      BY <1>2, <3>1
    <3> QED
      BY <3>2 DEF Pbs
  <2> QED
    BY <2>1, <2>2
<1>4. Pbs(s) \subseteq {h.pb} \cup Pbs(t)
  BY <1>0, <1>3 DEF Pbs
<1>5. h.pb \in Pbs(s)
  BY <1>0, <1>2 DEF Pbs
<1>6. Pbs(t) \subseteq Pbs(s)
  <2>1. \A i \in 1..Len(t) : i + 1 \in 1..Len(s) /\ t[i] = s[i + 1]
    BY <1>0, <1>2
  <2> QED
    BY <2>1 DEF Pbs
<1> QED
  BY <1>1, <1>2, <1>4, <1>5, <1>6

\* The first element goes to the back.
LEMMA PbsRotate ==
  ASSUME NEW S, NEW s \in Seq(S), s # <<>>
  PROVE  /\ Append(Tail(s), Head(s)) \in Seq(S)
         /\ Pbs(Append(Tail(s), Head(s))) = Pbs(s)
<1>1. PICK h, t : h = Head(s) /\ t = Tail(s)
  OBVIOUS
<1>2. h \in S /\ t \in Seq(S) /\ Pbs(s) = {h.pb} \cup Pbs(t)
  BY <1>1, PbsHead
<1>3. Append(t, h) \in Seq(S) /\ Pbs(Append(t, h)) = Pbs(t) \cup {h.pb}
  BY <1>2, AppendProperties, PbsAppend
<1> QED
  BY <1>1, <1>2, <1>3

\* Keep, for a sequence with a name.
LEMMA KeepIs ==
  ASSUME NEW X, NEW s \in Seq(X), NEW S, NEW k, k = Keep(s, S)
  PROVE  /\ k \in Seq(X)
         /\ \A i \in 1..Len(k) : k[i] \in S /\ \E j \in 1..Len(s) : s[j] = k[i]
         /\ \A j \in 1..Len(s) : s[j] \in S => \E i \in 1..Len(k) : k[i] = s[j]
<1>1. /\ Keep(s, S) \in Seq(X)
      /\ \A i \in 1..Len(Keep(s, S)) :
           Keep(s, S)[i] \in S /\ \E j \in 1..Len(s) : s[j] = Keep(s, S)[i]
      /\ \A j \in 1..Len(s) :
           s[j] \in S => \E i \in 1..Len(Keep(s, S)) : Keep(s, S)[i] = s[j]
  BY KeepHas
<1> QED
  BY <1>1, Zenon

\* Only what has another primary block is retained, and all of that.
LEMMA RetainHas ==
  ASSUME NEW S, NEW s \in Seq(S), NEW r
  PROVE  /\ Retain(s, r) \in Seq(S)
         /\ Pbs(Retain(s, r)) = Pbs(s) \ {r.pb}
<1>1. PICK A : A = {x \in Range(s) : x.pb # r.pb}
  OBVIOUS
<1>2. PICK k : k = Retain(s, r)
  OBVIOUS
<1>3. /\ k \in Seq(S)
      /\ \A i \in 1..Len(k) : k[i] \in A /\ \E j \in 1..Len(s) : s[j] = k[i]
      /\ \A j \in 1..Len(s) : s[j] \in A => \E i \in 1..Len(k) : k[i] = s[j]
  <2>1. k = Keep(s, A)
    BY <1>1, <1>2, Zenon DEF Retain
  <2>2. Keep(s, A) \in Seq(S)
    BY KeepHas
  <2>3. \A i \in 1..Len(Keep(s, A)) :
          Keep(s, A)[i] \in A /\ \E j \in 1..Len(s) : s[j] = Keep(s, A)[i]
    BY KeepHas
  <2>4. \A j \in 1..Len(s) :
          s[j] \in A => \E i \in 1..Len(Keep(s, A)) : Keep(s, A)[i] = s[j]
    BY KeepHas
  <2> QED
    BY <2>1, <2>2, <2>3, <2>4, Zenon
<1>4. \A j \in 1..Len(s) : s[j] \in Range(s)
  BY DEF Range
<1>5. Pbs(k) \subseteq Pbs(s) \ {r.pb}
  BY <1>1, <1>3 DEF Pbs
<1>6. Pbs(s) \ {r.pb} \subseteq Pbs(k)
  <2>1. ASSUME NEW j \in 1..Len(s), s[j].pb # r.pb
        PROVE  s[j].pb \in Pbs(k)
    <3>1. s[j] \in A
      BY <1>1, <1>4, <2>1
    <3>2. PICK i \in 1..Len(k) : k[i] = s[j]
      BY <1>3, <3>1
    <3> QED
      BY <3>2 DEF Pbs
  <2> QED
    BY <2>1 DEF Pbs
<1> QED
  BY <1>2, <1>3, <1>5, <1>6

\* A pass over a local queue only moves bundles, to the pending ones or to the back.
LEMMA LocalPass ==
  ASSUME QueuesInv, UNCHANGED validated, NEW e \in Endpoints,
         NEW q \in Seq(ForClients), NEW pend \in Seq(ForClients),
         NEW conns \in [Endpoints -> Clients \cup {None}], DeliverLocal(e, q, pend, conns)
  PROVE  /\ QueuesInv'
         /\ \A d \in Endpoints : d # e => /\ local_bundles'[d] = local_bundles[d]
                                          /\ pending_local'[d] = pending_local[d]
         /\ Pbs(q) \cup Pbs(pend) \subseteq Pbs(local_bundles'[e]) \cup Pbs(pending_local'[e])
<1>1. ForClients' = ForClients
  BY DEF ForClients
<1>2. /\ local_bundles \in [Endpoints -> Seq(ForClients)]
      /\ pending_local \in [Endpoints -> Seq(ForClients)]
      /\ actor \in [Clients -> {"unused", "running", "stopped"}]
      /\ actorMail \in [Clients -> Seq(ForClients \cup {Stop})]
  BY DEF QueuesInv
<1>3. ASSUME NEW l \in Seq(ForClients), NEW p \in Seq(ForClients),
             local_bundles' = [local_bundles EXCEPT ![e] = l],
             pending_local' = [pending_local EXCEPT ![e] = p],
             local_connections' \in [Endpoints -> Clients \cup {None}],
             actor' = actor,
             actorMail' \in [Clients -> Seq(ForClients \cup {Stop})],
             Pbs(q) \cup Pbs(pend) \subseteq Pbs(l) \cup Pbs(p)
      PROVE  /\ QueuesInv'
             /\ \A d \in Endpoints : d # e => /\ local_bundles'[d] = local_bundles[d]
                                              /\ pending_local'[d] = pending_local[d]
             /\ Pbs(q) \cup Pbs(pend) \subseteq Pbs(local_bundles'[e]) \cup Pbs(pending_local'[e])
  <2>1. /\ local_bundles' \in [Endpoints -> Seq(ForClients)] /\ local_bundles'[e] = l
        /\ pending_local' \in [Endpoints -> Seq(ForClients)] /\ pending_local'[e] = p
        /\ \A d \in Endpoints : d # e => /\ local_bundles'[d] = local_bundles[d]
                                         /\ pending_local'[d] = pending_local[d]
    BY <1>2, <1>3
  <2>2. QueuesInv'
    BY <1>1, <1>2, <1>3, <2>1 DEF QueuesInv
  <2> QED
    BY <1>3, <2>1, <2>2
<1>4. CASE conns[e] = None
  <2>1. /\ local_bundles' = [local_bundles EXCEPT ![e] = q]
        /\ pending_local' = [pending_local EXCEPT ![e] = pend]
        /\ local_connections' = conns
        /\ UNCHANGED <<actor, actorMail>>
    BY <1>4 DEF DeliverLocal
  <2> QED
    BY <1>2, <1>3, <2>1
<1>5. CASE conns[e] # None
  <2>1. PICK c \in Clients : c = conns[e]
    BY <1>5
  <2>2. PICK N \in Nat : N = Len(q)
    BY LenProperties
  <2>3. PICK room : room = IF actor[c] # "stopped" THEN ClientCapacity - Len(actorMail[c]) ELSE 0
    OBVIOUS
  <2>4. room \in Int
    <3>1. actorMail[c] \in Seq(ForClients \cup {Stop}) /\ ClientCapacity \in Nat
      BY <1>2, CapacityAssumption
    <3>2. Len(actorMail[c]) \in Nat
      BY <3>1, LenProperties
    <3> QED
      BY <2>3, <3>1, <3>2
  <2>5. PICK n : n = IF room < 0 THEN 0 ELSE IF room < N THEN room ELSE N
    OBVIOUS
  <2>6. n \in 0..N
    BY <2>2, <2>4, <2>5
  <2>7. PICK sent, rest : sent = SubSeq(q, 1, n) /\ rest = SubSeq(q, n + 1, N)
    OBVIOUS
  <2>8. /\ local_bundles' = [local_bundles EXCEPT ![e] =
                               IF rest = <<>> THEN <<>> ELSE Append(Tail(rest), Head(rest))]
        /\ pending_local' = [pending_local EXCEPT ![e] = pend \o sent]
        /\ actorMail' = [actorMail EXCEPT ![c] = actorMail[c] \o sent]
        /\ local_connections' = conns \/ local_connections' = [conns EXCEPT ![e] = None]
        /\ UNCHANGED actor
    BY <1>5, <2>1, <2>2, <2>3, <2>5, <2>7 DEF DeliverLocal
  <2>9. sent \in Seq(ForClients) /\ rest \in Seq(ForClients) /\ Pbs(q) = Pbs(sent) \cup Pbs(rest)
    <3>1. n \in 0..Len(q) /\ sent = SubSeq(q, 1, n) /\ rest = SubSeq(q, n + 1, Len(q))
      BY <2>2, <2>6, <2>7
    <3>2. Cut(q, n, sent, rest, ForClients)
      BY <3>1, PbsCut, Zenon
    <3> QED
      BY <3>2 DEF Cut
  <2>10. PICK l : l = IF rest = <<>> THEN <<>> ELSE Append(Tail(rest), Head(rest))
    OBVIOUS
  <2>11. l \in Seq(ForClients) /\ Pbs(l) = Pbs(rest)
    BY <2>9, <2>10, PbsRotate, EmptySeq
  <2>12. PICK p : p = pend \o sent
    OBVIOUS
  <2>13. p \in Seq(ForClients) /\ Pbs(p) = Pbs(pend) \cup Pbs(sent)
    BY <2>9, <2>12, PbsConcat, ConcatProperties
  <2>14. actorMail' \in [Clients -> Seq(ForClients \cup {Stop})]
    <3>1. sent \in Seq(ForClients \cup {Stop})
      <4>1. ForClients \subseteq ForClients \cup {Stop}
        OBVIOUS
      <4> QED
        BY <2>9, <4>1, SeqMonotonic
    <3>2. actorMail[c] \o sent \in Seq(ForClients \cup {Stop})
      BY <1>2, <3>1, ConcatProperties
    <3> QED
      BY <1>2, <2>8, <3>2
  <2>15. local_connections' \in [Endpoints -> Clients \cup {None}]
    BY <2>8
  <2> QED
    BY <1>3, <2>8, <2>9, <2>10, <2>11, <2>12, <2>13, <2>14, <2>15
<1> QED
  BY <1>4, <1>5

\* Keep has as many elements as there are places of them.
LEMMA KeepLen ==
  ASSUME NEW X, NEW s \in Seq(X), NEW S, NEW k, k = Keep(s, S),
         NEW A, A = {j \in 1..Len(s) : s[j] \in S}
  PROVE  Len(k) = Cardinality(A)
<1>1. PICK N \in Nat : N = Len(s)
  BY LenProperties
<1>2. PICK f : KeepRun(f, s, S, X)
  BY KeepSteps
<1>3. /\ f \in [0..N -> Seq(X)] /\ f[0] = <<>> /\ k = f[N]
      /\ \A n \in 1..N : f[n] = KeepOne(f[n - 1], s[n], S)
  BY <1>1, <1>2 DEF KeepRun
<1>4. \A n \in 1..N : s[n] \in X
  BY <1>1, ElementOfSeq
<1> DEFINE at(n) == {j \in 1..n : s[j] \in S}
<1>5. \A n \in 0..N : IsFiniteSet(at(n))
  <2>1. ASSUME NEW n \in 0..N
        PROVE  IsFiniteSet(at(n))
    <3>1. IsFiniteSet(1..n)
      BY FS_Interval
    <3>2. at(n) \subseteq 1..n
      OBVIOUS
    <3> QED
      BY <3>1, <3>2, FS_Subset
  <2> QED
    BY <2>1
<1>6. at(0) = {}
  OBVIOUS
<1>7. ASSUME NEW n \in 1..N
      PROVE  /\ s[n] \in S => n \notin at(n - 1) /\ at(n) = at(n - 1) \cup {n}
             /\ s[n] \notin S => at(n) = at(n - 1)
  OBVIOUS
<1>8. at(N) = A
  BY <1>1
<1> HIDE DEF at
<1>9. PICK T : T = {n \in 0..N : Len(f[n]) = Cardinality(at(n))}
  OBVIOUS
<1>10. 0 \in T
  <2>1. Len(f[0]) = 0 /\ Cardinality(at(0)) = 0
    BY <1>3, <1>6, FS_EmptySet, EmptySeq
  <2>2. 0 \in 0..N
    OBVIOUS
  <2> QED
    BY <1>9, <2>1, <2>2
<1>11. ASSUME NEW n \in 1..N, n - 1 \in T
       PROVE  n \in T
  <2>1. /\ f[n - 1] \in Seq(X) /\ Len(f[n - 1]) = Cardinality(at(n - 1))
        /\ f[n] = KeepOne(f[n - 1], s[n], S) /\ s[n] \in X
    BY <1>3, <1>4, <1>9, <1>11
  <2>2. CASE s[n] \in S
    <3>1. f[n] = Append(f[n - 1], s[n])
      BY <2>1, <2>2 DEF KeepOne
    <3>2. Len(f[n]) = Len(f[n - 1]) + 1
      BY <2>1, <3>1, AppendProperties
    <3>3. IsFiniteSet(at(n - 1)) /\ n \notin at(n - 1) /\ at(n) = at(n - 1) \cup {n}
      <4>1. n - 1 \in 0..N
        OBVIOUS
      <4> QED
        BY <1>5, <1>7, <2>2, <4>1
    <3>4. Cardinality(at(n)) = Cardinality(at(n - 1)) + 1
      BY <3>3, FS_AddElement
    <3> QED
      BY <1>9, <2>1, <3>2, <3>4
  <2>3. CASE s[n] \notin S
    <3>1. f[n] = f[n - 1] /\ at(n) = at(n - 1)
      BY <1>7, <2>1, <2>3 DEF KeepOne
    <3> QED
      BY <1>9, <2>1, <3>1
  <2> QED
    BY <2>2, <2>3
<1>12. \A n \in 0..N : n \in T
  BY <1>10, <1>11, Induction
<1>13. N \in 0..N
  OBVIOUS
<1>14. Len(f[N]) = Cardinality(at(N))
  BY <1>9, <1>12, <1>13
<1> QED
  BY <1>3, <1>8, <1>14, Zenon

\* The loop ends somewhere, and sends no more than there is room for.
LEMMA LoopEnds ==
  ASSUME NEW X, NEW q \in Seq(X), NEW limits, NEW room \in Nat,
         NEW k, k = LoopEnd(q, limits, room)
  PROVE  /\ k \in 1..(Len(q) + 1)
         /\ Cardinality({j \in 1..(k - 1) : ~TooLarge(q[j], limits)}) <= room
<1>1. PICK N \in Nat : N = Len(q)
  BY LenProperties
<1> DEFINE stops(i) == Revisits(q, limits, i) \/ Blocks(q, limits, room, i)
           ends(i) == /\ i \in 1..N => stops(i)
                      /\ \A j \in 1..(i - 1) : ~stops(j)
<1>2. \E i \in 1..(N + 1) : ends(i)
  <2>1. PICK T : T = {i \in 1..(N + 1) : i \in 1..N => stops(i)}
    OBVIOUS
  <2> HIDE DEF stops
  <2>2. T \in SUBSET Nat /\ N + 1 \in T
    BY <2>1
  <2>3. PICK i \in T : \A j \in T : i <= j
    BY <2>2, Least
  <2>4. \A j \in 1..(i - 1) : ~stops(j)
    <3>1. ASSUME NEW j \in 1..(i - 1), stops(j)
          PROVE  FALSE
      <4>1. i \in 1..(N + 1)
        BY <2>1
      <4>2. j \in T
        BY <2>1, <3>1, <4>1
      <4> QED
        BY <2>3, <4>1, <4>2
    <3> QED
      BY <3>1
  <2> QED
    BY <2>1, <2>3, <2>4
<1>3. k = CHOOSE i \in 1..(N + 1) : ends(i)
  <2>1. \A i \in 1..(N + 1) :
          ends(i) <=> /\ i \in 1..Len(q) => Revisits(q, limits, i) \/ Blocks(q, limits, room, i)
                      /\ \A j \in 1..(i - 1) : ~Revisits(q, limits, j) /\ ~Blocks(q, limits, room, j)
    BY <1>1
  <2> HIDE DEF ends
  <2>2. k = CHOOSE i \in 1..(N + 1) :
              /\ i \in 1..Len(q) => Revisits(q, limits, i) \/ Blocks(q, limits, room, i)
              /\ \A j \in 1..(i - 1) : ~Revisits(q, limits, j) /\ ~Blocks(q, limits, room, j)
    BY <1>1, Zenon DEF LoopEnd
  <2> QED
    BY <2>1, <2>2
<1>4. k \in 1..(N + 1) /\ ends(k)
  <2> HIDE DEF ends
  <2> QED
    BY <1>2, <1>3, Zenon
<1>5. \A j \in 1..(k - 1) : ~Blocks(q, limits, room, j)
  BY <1>4
<1> HIDE DEF ends, stops
<1> DEFINE fits(n) == {j \in 1..n : ~TooLarge(q[j], limits)}
<1>6. PICK T : T = {n \in 0..(k - 1) : Cardinality(fits(n)) <= room}
  OBVIOUS
<1>7. 0 \in T
  <2>1. fits(0) = {}
    OBVIOUS
  <2> HIDE DEF fits
  <2>2. Cardinality(fits(0)) = 0
    BY <2>1, FS_EmptySet
  <2>3. 0 \in 0..(k - 1)
    BY <1>4
  <2> QED
    BY <1>6, <2>2, <2>3
<1>8. ASSUME NEW n \in 1..(k - 1), n - 1 \in T
      PROVE  n \in T
  <2>1. CASE TooLarge(q[n], limits)
    <3>1. fits(n) = fits(n - 1)
      BY <1>4, <2>1
    <3> HIDE DEF fits
    <3> QED
      BY <1>6, <1>8, <3>1
  <2>2. CASE ~TooLarge(q[n], limits)
    <3>1. ~(Cardinality(fits(n)) > room)
      BY <1>5, <2>2 DEF Blocks
    <3>2. Cardinality(fits(n)) \in Nat
      <4>1. IsFiniteSet(1..n)
        BY <1>4, FS_Interval
      <4>2. fits(n) \subseteq 1..n
        OBVIOUS
      <4> HIDE DEF fits
      <4> QED
        BY <4>1, <4>2, FS_Subset, FS_CardinalityType
    <3> HIDE DEF fits
    <3> QED
      BY <1>6, <3>1, <3>2
  <2> QED
    BY <2>1, <2>2
<1>9. k - 1 \in T
  <2>1. k - 1 \in Nat
    BY <1>4
  <2>2. \A n \in 0..(k - 1) : n \in T
    BY <1>7, <1>8, <2>1, Induction
  <2> QED
    BY <2>1, <2>2
<1>10. Cardinality(fits(k - 1)) <= room
  <2> HIDE DEF fits
  <2> QED
    BY <1>6, <1>9
<1> QED
  BY <1>1, <1>4, <1>10

\* The requests to split bundles that a pass collects.
Splits == {m \in Requests : m.type = "FragmentBundle"}

\* What the passes over the remote queues work on is as it should be.
PassOK(st) ==
  /\ st \in [queues : [Nodes -> Seq(ForPeers)], pending : [Nodes -> Seq(ForPeers)],
             mail : [Sessions -> Seq(ForPeers)], conns : [Nodes -> Sessions \cup {None}],
             routes : [Nodes -> KnownRoutes], split : Seq(Splits)]
  /\ \A s \in Sessions : Len(st.mail[s]) <= SessionCapacity

\* The bundles a pass must not lose.
Carried(st) ==
  (UNION {Pbs(st.queues[n]) \cup Pbs(st.pending[n]) : n \in Nodes}) \cup Pbs(st.split)

Carries(st, nst) == PassOK(nst) /\ Carried(st) \subseteq Carried(nst)

\* Where a carried bundle is.
LEMMA CarriedHas ==
  ASSUME NEW st, NEW p
  PROVE  p \in Carried(st) <=>
           \/ p \in Pbs(st.split)
           \/ \E n \in Nodes : p \in Pbs(st.queues[n]) \/ p \in Pbs(st.pending[n])
<1>1. PICK U : U = {Pbs(st.queues[n]) \cup Pbs(st.pending[n]) : n \in Nodes}
  OBVIOUS
<1>2. Carried(st) = (UNION U) \cup Pbs(st.split)
  BY <1>1, Zenon DEF Carried
<1>3. p \in UNION U <=> \E n \in Nodes : p \in Pbs(st.queues[n]) \cup Pbs(st.pending[n])
  BY <1>1
<1> QED
  BY <1>2, <1>3

\* A request to split a bundle that is too large, for the smallest limit.
LEMMA SplitRequest ==
  ASSUME NEW limits \in SUBSET SizeLimits, NEW r \in ForPeers, TooLarge(r, limits),
         ~Unsplittable(r, limits),
         NEW t, t = CHOOSE l \in limits : \A m \in limits : l <= m
  PROVE  FragmentBundle(r.pb, t) \in Splits
<1>0. limits \subseteq Nat
  BY LimitsKnown
<1>1. PICK l \in limits : HeaderOf(r.pb).size > l
  BY DEF TooLarge
<1>2. \E x \in limits : \A y \in limits : x <= y
  BY <1>0, <1>1, Least
<1>3. t \in limits /\ \A m \in limits : t <= m
  BY <1>2
<1>4. PICK p \in PrimaryBlocks : p = r.pb
  BY DEF ForPeers, StoredBundles
<1>5. HeaderOf(p).size \in Nat /\ HeaderOf(p).minSize \in Nat
  BY DestType
<1>6. HeaderOf(p).size > t /\ t \in Nat
  <2>1. PICK z : z = HeaderOf(p).size
    OBVIOUS
  <2>2. z \in Nat /\ z > l /\ t <= l /\ l \in Nat /\ t \in Nat
    <3>1. l \in Nat /\ t \in Nat /\ t <= l
      BY <1>0, <1>3
    <3>2. z \in Nat /\ z > l
      BY <1>1, <1>4, <1>5, <2>1, Zenon
    <3> QED
      BY <3>1, <3>2
  <2>3. z > t
    BY <2>2
  <2> QED
    BY <2>1, <2>2, <2>3, Zenon
<1>7. HeaderOf(p).mayFragment
  BY <1>4 DEF Unsplittable
<1>8. HeaderOf(p).minSize < t => HeaderOf(p).pieces # <<>>
  BY <1>6, <1>7, HasPieces
<1>9. p \in validated /\ ~Local(p)
  BY <1>4 DEF ForPeers
<1>10. PICK m : m = FragmentBundle(p, t)
  OBVIOUS
<1>11. m.type = "FragmentBundle" /\ m.pb = p /\ m.target = t /\ m \in StorageMessages
  BY <1>6, <1>10 DEF FragmentBundle, StorageMessages
<1>12. RequestOK(m)
  <2>1. MessageOK(m) /\ QueuesRight(m)
    BY <1>8, <1>9, <1>11 DEF MessageOK, QueuesRight
  <2>2. InContract(m)
    BY <1>3, <1>6, <1>7, <1>11 DEF InContract
  <2> QED
    BY <2>1, <2>2 DEF RequestOK
<1> QED
  BY <1>4, <1>10, <1>11, <1>12 DEF Splits, Requests

\* What is left comes before what is put back, but for the bundle that found no room.
Requeued(newq, rest, back) ==
  \/ newq = rest \o back
  \/ rest # <<>> /\ newq = Tail(rest) \o back \o <<Head(rest)>>

\* What a pass leaves in the queue.
LEMMA PutBack ==
  ASSUME NEW S, NEW rest \in Seq(S), NEW back \in Seq(S), NEW newq,
         Requeued(newq, rest, back)
  PROVE  newq \in Seq(S) /\ Pbs(newq) = Pbs(rest) \cup Pbs(back)
<1>1. CASE newq = rest \o back
  BY <1>1, PbsConcat, ConcatProperties
<1>2. CASE rest # <<>> /\ newq = Tail(rest) \o back \o <<Head(rest)>>
  <2>1. PICK h, t : h = Head(rest) /\ t = Tail(rest)
    OBVIOUS
  <2>2. h \in S /\ t \in Seq(S) /\ Pbs(rest) = {h.pb} \cup Pbs(t)
    BY <1>2, <2>1, PbsHead
  <2>3. PICK u : u = t \o back
    OBVIOUS
  <2>4. u \in Seq(S) /\ Pbs(u) = Pbs(t) \cup Pbs(back)
    BY <2>2, <2>3, PbsConcat, ConcatProperties
  <2>5. newq = Append(u, h)
    <3>1. newq = u \o <<h>>
      BY <1>2, <2>1, <2>3
    <3>2. u \o <<h>> = Append(u, h)
      BY <2>4
    <3> QED
      BY <3>1, <3>2
  <2>6. newq \in Seq(S) /\ Pbs(newq) = Pbs(u) \cup {h.pb}
    <3>1. Append(u, h) \in Seq(S) /\ Pbs(Append(u, h)) = Pbs(u) \cup {h.pb}
      BY <2>2, <2>4, PbsAppend, AppendProperties
    <3> QED
      BY <2>5, <3>1, Zenon
  <2> QED
    BY <2>2, <2>4, <2>6
<1> QED
  BY <1>1, <1>2 DEF Requeued

\* A pass that sends these bundles and makes these requests.
Passed(st, nst, n, s, newq, sent, reqs, conns) ==
  nst = [queues |-> [st.queues EXCEPT ![n] = newq],
         pending |-> [st.pending EXCEPT ![n] = st.pending[n] \o sent],
         mail |-> [st.mail EXCEPT ![s] = st.mail[s] \o sent],
         conns |-> conns, routes |-> st.routes, split |-> st.split \o reqs]

\* What a pass does to the fields of its state.
LEMMA PassCarries ==
  ASSUME NEW st, PassOK(st), NEW n \in Nodes, NEW s \in Sessions,
         NEW newq \in Seq(ForPeers), NEW sent \in Seq(ForPeers),
         NEW reqs \in Seq(Splits), Len(st.mail[s]) + Len(sent) <= SessionCapacity,
         Pbs(st.queues[n]) \subseteq Pbs(newq) \cup Pbs(sent) \cup Pbs(reqs),
         NEW conns \in [Nodes -> Sessions \cup {None}],
         NEW nst, Passed(st, nst, n, s, newq, sent, reqs, conns)
  PROVE  Carries(st, nst)
<1>0. PICK pn, mn, sn, queues, pending, mail :
        /\ pn = st.pending[n] \o sent /\ mn = st.mail[s] \o sent /\ sn = st.split \o reqs
        /\ queues = [st.queues EXCEPT ![n] = newq]
        /\ pending = [st.pending EXCEPT ![n] = pn] /\ mail = [st.mail EXCEPT ![s] = mn]
        /\ nst = [queues |-> queues, pending |-> pending, mail |-> mail,
                  conns |-> conns, routes |-> st.routes, split |-> sn]
  BY Zenon DEF Passed
<1>1. PICK qs, pend, ml, rt, split :
        /\ qs = st.queues /\ pend = st.pending /\ ml = st.mail
        /\ rt = st.routes /\ split = st.split
  OBVIOUS
<1>2. /\ qs \in [Nodes -> Seq(ForPeers)] /\ pend \in [Nodes -> Seq(ForPeers)]
      /\ ml \in [Sessions -> Seq(ForPeers)] /\ rt \in [Nodes -> KnownRoutes]
      /\ split \in Seq(Splits)
      /\ \A z \in Sessions : Len(ml[z]) <= SessionCapacity
  BY <1>1 DEF PassOK
<1>3. /\ nst.queues = queues /\ nst.pending = pending /\ nst.mail = mail
      /\ nst.conns = conns /\ nst.routes = rt /\ nst.split = sn
  BY <1>0, <1>1
<1>4. pend[n] \in Seq(ForPeers) /\ ml[s] \in Seq(ForPeers)
  BY <1>2
<1>5. /\ pn \in Seq(ForPeers) /\ Pbs(pn) = Pbs(pend[n]) \cup Pbs(sent)
      /\ sn \in Seq(Splits) /\ Pbs(sn) = Pbs(split) \cup Pbs(reqs)
  <2>1. pn = pend[n] \o sent /\ sn = split \o reqs
    BY <1>0, <1>1, Zenon
  <2> QED
    BY <1>2, <1>4, <2>1, PbsConcat, ConcatProperties
<1>6. mn \in Seq(ForPeers) /\ Len(mn) <= SessionCapacity
  <2>1. mn = ml[s] \o sent /\ Len(ml[s]) + Len(sent) <= SessionCapacity
    BY <1>0, <1>1, Zenon
  <2>2. mn \in Seq(ForPeers) /\ Len(mn) = Len(ml[s]) + Len(sent)
    BY <1>4, <2>1, ConcatProperties
  <2> QED
    BY <2>1, <2>2
<1>7. /\ queues = [qs EXCEPT ![n] = newq] /\ pending = [pend EXCEPT ![n] = pn]
      /\ mail = [ml EXCEPT ![s] = mn]
  BY <1>0, <1>1, Zenon
<1>8. PassOK(nst)
  <2>1. queues \in [Nodes -> Seq(ForPeers)] /\ pending \in [Nodes -> Seq(ForPeers)]
    <3>1. queues \in [Nodes -> Seq(ForPeers)]
      BY <1>2, <1>7
    <3>2. pending \in [Nodes -> Seq(ForPeers)]
      BY <1>2, <1>5, <1>7
    <3> QED
      BY <3>1, <3>2
  <2>2. mail \in [Sessions -> Seq(ForPeers)]
    BY <1>2, <1>6, <1>7
  <2>3. \A z \in Sessions : Len(mail[z]) <= SessionCapacity
    BY <1>2, <1>6, <1>7
  <2>4. nst = [queues |-> queues, pending |-> pending, mail |-> mail,
               conns |-> conns, routes |-> rt, split |-> sn]
    BY <1>0, <1>1, Zenon
  <2>5. nst \in [queues : [Nodes -> Seq(ForPeers)], pending : [Nodes -> Seq(ForPeers)],
                 mail : [Sessions -> Seq(ForPeers)], conns : [Nodes -> Sessions \cup {None}],
                 routes : [Nodes -> KnownRoutes], split : Seq(Splits)]
    BY <1>2, <1>5, <2>1, <2>2, <2>4
  <2>6. \A z \in Sessions : Len(nst.mail[z]) <= SessionCapacity
    BY <1>3, <2>3, Zenon
  <2> QED
    BY <2>5, <2>6 DEF PassOK
<1>9. /\ queues[n] = newq /\ pending[n] = pn
      /\ \A z \in Nodes : z # n => queues[z] = qs[z] /\ pending[z] = pend[z]
  BY <1>2, <1>7
<1>12. \A z \in Nodes : Pbs(queues[z]) \cup Pbs(pending[z]) \subseteq Carried(nst)
  <2>1. ASSUME NEW z \in Nodes, NEW p \in Pbs(queues[z]) \cup Pbs(pending[z])
        PROVE  p \in Carried(nst)
    <3>1. p \in Pbs(nst.queues[z]) \cup Pbs(nst.pending[z])
      BY <1>3, <2>1, Zenon
    <3> QED
      BY <3>1, CarriedHas
  <2> QED
    BY <2>1
<1>13. Pbs(newq) \cup Pbs(pn) \cup Pbs(sn) \subseteq Carried(nst)
  <2>1. Pbs(newq) \cup Pbs(pn) \subseteq Carried(nst)
    BY <1>9, <1>12, Zenon
  <2>2. Pbs(nst.split) \subseteq Carried(nst)
    BY CarriedHas
  <2>3. Pbs(sn) \subseteq Carried(nst)
    BY <1>3, <2>2, Zenon
  <2> QED
    BY <2>1, <2>3
<1>14. ASSUME NEW p \in Carried(st)
       PROVE  p \in Carried(nst)
  <2>2. CASE p \in Pbs(split)
    BY <1>5, <1>13, <2>2, Zenon
  <2>3. ASSUME NEW z \in Nodes, p \in Pbs(qs[z]) \cup Pbs(pend[z])
        PROVE  p \in Carried(nst)
    <3>1. CASE z = n
      <4>1. Pbs(qs[n]) \subseteq Pbs(newq) \cup Pbs(sent) \cup Pbs(reqs)
        BY <1>0, <1>1, Zenon
      <4> QED
        BY <1>5, <1>13, <2>3, <3>1, <4>1, Zenon
    <3>2. CASE z # n
      BY <1>9, <1>12, <2>3, <3>2, Zenon
    <3> QED
      BY <3>1, <3>2
  <2>4. \/ p \in Pbs(st.split)
        \/ \E z \in Nodes : p \in Pbs(st.queues[z]) \/ p \in Pbs(st.pending[z])
    BY <1>14, CarriedHas
  <2>5. p \in Pbs(split) \/ \E z \in Nodes : p \in Pbs(qs[z]) \cup Pbs(pend[z])
    BY <1>1, <2>4, Zenon
  <2> QED
    BY <2>2, <2>3, <2>5
<1> QED
  BY <1>8, <1>14 DEF Carries

\* One pass over the queue of a node keeps every bundle: in the queue, pending, or
\* in a request to split it.
LEMMA LoopKeeps ==
  ASSUME NEW st, PassOK(st), NEW n \in Nodes, NEW s \in Sessions,
         NEW limits \in SUBSET SizeLimits,
         NEW nst, nst = DeliverRemoteLoop(st, n, s, limits)
  PROVE  Carries(st, nst)
<1> DEFINE q == st.queues[n]
           up == session[s] = "up"
           free == SessionCapacity - Len(st.mail[s])
           room == IF up /\ free > 0 THEN free ELSE 0
           k == LoopEnd(q, limits, room)
           visited == SubSeq(q, 1, k - 1)
           rest == SubSeq(q, k, Len(q))
           blocked == rest # <<>> /\ ~Revisits(q, limits, k)
           fitting == {r \in Range(visited) : ~TooLarge(r, limits)}
           unsplittable == {r \in Range(visited) : Unsplittable(r, limits)}
           putBack == Keep(visited, unsplittable)
           sent == Keep(visited, fitting)
           others == Range(visited) \ (fitting \cup unsplittable)
           split == Keep(visited, others)
           target == CHOOSE l \in limits : \A m \in limits : l <= m
           newq == IF blocked THEN Tail(rest) \o putBack \o <<Head(rest)>>
                   ELSE rest \o putBack
           reqs == [i \in 1..Len(split) |-> FragmentBundle(split[i].pb, target)]
           conn == IF blocked /\ ~up THEN None ELSE st.conns[n]
<1>1. nst = [st EXCEPT
               !.queues[n] = newq, !.pending[n] = @ \o sent, !.mail[s] = @ \o sent,
               !.conns[n] = IF blocked /\ ~up THEN None ELSE @, !.split = @ \o reqs]
  BY DEF DeliverRemoteLoop
<1>2. q \in Seq(ForPeers) /\ st.mail[s] \in Seq(ForPeers) /\ Len(st.mail[s]) <= SessionCapacity
  BY DEF PassOK
<1>3. room \in Nat /\ Len(st.mail[s]) \in Nat /\ Len(st.mail[s]) + room <= SessionCapacity
  <2>1. Len(st.mail[s]) \in Nat /\ SessionCapacity \in Nat
    BY <1>2, LenProperties, CapacityAssumption
  <2>2. PICK l \in Nat, c \in Nat : l = Len(st.mail[s]) /\ c = SessionCapacity
    BY <2>1
  <2>3. l <= c /\ free = c - l /\ ((room = free /\ free > 0) \/ room = 0)
    BY <1>2, <2>2
  <2> HIDE DEF room, free
  <2>4. room \in Nat /\ l + room <= c
    BY <2>3
  <2> QED
    BY <2>2, <2>4, Zenon
<1>4. k = LoopEnd(q, limits, room) /\ visited = SubSeq(q, 1, k - 1) /\ rest = SubSeq(q, k, Len(q))
  OBVIOUS
<1>5. /\ fitting = {r \in Range(visited) : ~TooLarge(r, limits)}
      /\ unsplittable = {r \in Range(visited) : Unsplittable(r, limits)}
      /\ others = Range(visited) \ (fitting \cup unsplittable)
  OBVIOUS
<1>6. putBack = Keep(visited, unsplittable) /\ sent = Keep(visited, fitting)
      /\ split = Keep(visited, others)
  OBVIOUS
<1>7. newq = IF blocked THEN Tail(rest) \o putBack \o <<Head(rest)>> ELSE rest \o putBack
  OBVIOUS
<1>8. reqs = [i \in 1..Len(split) |-> FragmentBundle(split[i].pb, target)]
  OBVIOUS
<1>9. target = CHOOSE l \in limits : \A m \in limits : l <= m
  OBVIOUS
<1>10. blocked => rest # <<>>
  OBVIOUS
<1> HIDE DEF q, up, free, room, k, visited, rest, blocked, fitting, unsplittable,
             putBack, sent, others, split, target, newq, reqs
<1>11. PICK Q \in Nat : Q = Len(q)
  BY <1>2, LenProperties
<1>12. k \in 1..(Q + 1) /\ Cardinality({j \in 1..(k - 1) : ~TooLarge(q[j], limits)}) <= room
  BY <1>2, <1>3, <1>4, <1>11, LoopEnds
<1>13. PICK v \in 0..Q : v = k - 1 /\ k = v + 1
  <2>1. k - 1 \in 0..Q /\ k = (k - 1) + 1
    BY <1>12
  <2> QED
    BY <2>1
<1>14. Cut(q, v, visited, rest, ForPeers)
  <2>1. v \in 0..Len(q) /\ visited = SubSeq(q, 1, v) /\ rest = SubSeq(q, v + 1, Len(q))
    BY <1>4, <1>11, <1>13
  <2> QED
    BY <1>2, <2>1, PbsCut, Zenon
<1>15. /\ visited \in Seq(ForPeers) /\ Len(visited) = v
       /\ \A i \in 1..v : visited[i] = q[i]
       /\ rest \in Seq(ForPeers) /\ Pbs(q) = Pbs(visited) \cup Pbs(rest)
  BY <1>14 DEF Cut
<1>16. \A j \in 1..v : visited[j] \in Range(visited) /\ visited[j] \in ForPeers
  <2>1. \A j \in 1..v : visited[j] \in ForPeers
    BY <1>15, ElementOfSeq
  <2>2. DOMAIN visited = 1..v
    BY <1>15
  <2> QED
    BY <2>1, <2>2 DEF Range
<1>18. ASSUME NEW S, NEW kept, kept = Keep(visited, S)
       PROVE  /\ kept \in Seq(ForPeers)
              /\ \A i \in 1..Len(kept) : kept[i] \in S /\ \E j \in 1..v : visited[j] = kept[i]
              /\ \A j \in 1..v : visited[j] \in S => visited[j].pb \in Pbs(kept)
  <2>1. /\ kept \in Seq(ForPeers)
        /\ \A i \in 1..Len(kept) :
             kept[i] \in S /\ \E j \in 1..Len(visited) : visited[j] = kept[i]
        /\ \A j \in 1..Len(visited) :
             visited[j] \in S => \E i \in 1..Len(kept) : kept[i] = visited[j]
    BY <1>15, <1>18, KeepIs
  <2>2. \A j \in 1..v : visited[j] \in S => visited[j].pb \in Pbs(kept)
    BY <1>15, <2>1 DEF Pbs
  <2> QED
    BY <1>15, <2>1, <2>2
<1>17. sent \in Seq(ForPeers) /\ Len(sent) <= room
  <2>1. PICK A : A = {j \in 1..Len(visited) : visited[j] \in fitting}
    OBVIOUS
  <2>2. Len(sent) = Cardinality(A)
    BY <1>6, <1>15, <2>1, KeepLen
  <2>3. A = {j \in 1..(k - 1) : ~TooLarge(q[j], limits)}
    <3>1. ASSUME NEW j \in 1..v
          PROVE  visited[j] \in fitting <=> ~TooLarge(q[j], limits)
      BY <1>5, <1>15, <1>16
    <3>2. A = {j \in 1..v : visited[j] \in fitting}
      BY <1>15, <2>1
    <3>3. A = {j \in 1..v : ~TooLarge(q[j], limits)}
      BY <3>1, <3>2
    <3> QED
      BY <1>13, <3>3, Zenon
  <2>4. sent \in Seq(ForPeers)
    BY <1>6, <1>18
  <2>5. Cardinality(A) <= room
    BY <1>12, <2>3, Zenon
  <2> QED
    BY <2>2, <2>4, <2>5
<1>19. /\ putBack \in Seq(ForPeers) /\ split \in Seq(ForPeers)
       /\ \A i \in 1..Len(split) : split[i] \in others
  BY <1>6, <1>18
<1>20. Pbs(visited) \subseteq Pbs(putBack) \cup Pbs(sent) \cup Pbs(split)
  <2>1. ASSUME NEW j \in 1..v
        PROVE  visited[j].pb \in Pbs(putBack) \cup Pbs(sent) \cup Pbs(split)
    <3>1. visited[j] \in unsplittable \/ visited[j] \in fitting \/ visited[j] \in others
      BY <1>5, <1>16
    <3> QED
      BY <1>6, <1>18, <3>1
  <2> QED
    BY <1>15, <2>1 DEF Pbs
<1>21. newq \in Seq(ForPeers) /\ Pbs(newq) = Pbs(rest) \cup Pbs(putBack)
  <2>1. Requeued(newq, rest, putBack)
    BY <1>7, <1>10, Zenon DEF Requeued
  <2> QED
    BY <1>15, <1>19, <2>1, PutBack
<1>22. reqs \in Seq(Splits) /\ Pbs(reqs) = Pbs(split)
  <2>1. PICK L \in Nat : L = Len(split)
    BY <1>19, LenProperties
  <2>2. ASSUME NEW i \in 1..L
        PROVE  reqs[i] \in Splits /\ reqs[i].pb = split[i].pb
    <3>1. split[i] \in others /\ split[i] \in ForPeers
      BY <1>19, <2>1, ElementOfSeq
    <3>2. TooLarge(split[i], limits) /\ ~Unsplittable(split[i], limits)
      BY <1>5, <3>1
    <3>3. FragmentBundle(split[i].pb, target) \in Splits
      BY <1>9, <3>1, <3>2, SplitRequest
    <3>4. reqs[i] = FragmentBundle(split[i].pb, target)
      BY <1>8, <2>1
    <3> QED
      BY <3>3, <3>4 DEF FragmentBundle
  <2>3. reqs \in [1..L -> Splits]
    BY <1>8, <2>1, <2>2
  <2>4. reqs \in Seq(Splits) /\ Len(reqs) = L
    BY <2>3, SeqDef, LenProperties
  <2> QED
    BY <2>1, <2>2, <2>4 DEF Pbs
<1>23. Pbs(q) \subseteq Pbs(newq) \cup Pbs(sent) \cup Pbs(reqs)
  BY <1>15, <1>20, <1>21, <1>22
<1>24. Len(st.mail[s]) + Len(sent) <= SessionCapacity
  <2>1. Len(sent) \in Nat /\ SessionCapacity \in Nat
    BY <1>17, LenProperties, CapacityAssumption
  <2> QED
    BY <1>3, <1>17, <2>1
<1>25. PICK conns : conns = [st.conns EXCEPT ![n] = conn]
  OBVIOUS
<1>26. conns \in [Nodes -> Sessions \cup {None}]
  BY <1>25 DEF PassOK
<1>27. Passed(st, nst, n, s, newq, sent, reqs, conns)
  BY <1>1, <1>25 DEF PassOK, Passed
<1>28. Pbs(st.queues[n]) \subseteq Pbs(newq) \cup Pbs(sent) \cup Pbs(reqs)
  BY <1>23 DEF q
<1> QED
  BY <1>17, <1>21, <1>22, <1>24, <1>26, <1>27, <1>28, PassCarries

\* deliver_remote_bundles keeps every bundle.
LEMMA DeliverKeeps ==
  ASSUME NEW st, PassOK(st), NEW n \in Nodes, NEW nst, nst = DeliverRemote(st, n)
  PROVE  Carries(st, nst)
<1>1. /\ st.routes \in [Nodes -> KnownRoutes] /\ st.conns \in [Nodes -> Sessions \cup {None}]
  BY DEF PassOK
<1>2. CASE nst = st
  BY <1>2 DEF Carries
<1>3. CASE nst # st
  <2>1. PICK route : route = st.routes[n]
    OBVIOUS
  <2>2. PICK hop : hop = st.routes[route.next_hop]
    OBVIOUS
  <2>3. /\ route # None /\ st.conns[route.next_hop] # None /\ hop # None
        /\ nst = DeliverRemoteLoop(st, n, st.conns[route.next_hop], Limits(route, hop))
    BY <1>3, <2>1, <2>2 DEF DeliverRemote
  <2>4. route.next_hop \in Nodes /\ route.max_size \in SizeLimits \cup {0}
    BY <1>1, <2>1, <2>3 DEF KnownRoutes
  <2>5. hop.max_size \in SizeLimits \cup {0}
    BY <1>1, <2>2, <2>3, <2>4 DEF KnownRoutes
  <2>6. PICK s \in Sessions : s = st.conns[route.next_hop]
    BY <1>1, <2>3, <2>4
  <2>7. PICK limits \in SUBSET SizeLimits : limits = Limits(route, hop)
    BY <2>4, <2>5 DEF Limits
  <2>8. nst = DeliverRemoteLoop(st, n, s, limits)
    BY <2>3, <2>6, <2>7, Zenon
  <2> QED
    BY <2>8, LoopKeeps
<1> QED
  BY <1>2, <1>3

PassStates ==
  {st \in [queues : [Nodes -> Seq(ForPeers)], pending : [Nodes -> Seq(ForPeers)],
           mail : [Sessions -> Seq(ForPeers)], conns : [Nodes -> Sessions \cup {None}],
           routes : [Nodes -> KnownRoutes], split : Seq(Splits)] : PassOK(st)}

\* The states after the passes so far.
PassRun(f, st, order) ==
  f = [k \in 0..Len(order) |-> IF k = 0 THEN st ELSE DeliverRemote(f[k - 1], order[k])]

\* Several passes keep every bundle.
LEMMA PassesKeep ==
  ASSUME NEW st, PassOK(st), NEW order \in Seq(Nodes), NEW nst, nst = Passes(st, order)
  PROVE  Carries(st, nst)
<1>1. PICK N \in Nat : N = Len(order)
  BY LenProperties
<1>2. \A k \in 1..N : order[k] \in Nodes
  BY <1>1, ElementOfSeq
<1>3. \A x : x \in PassStates <=> PassOK(x)
  BY DEF PassStates, PassOK
<1>4. ASSUME NEW x \in PassStates, NEW k \in 1..N
      PROVE  Carries(x, DeliverRemote(x, order[k]))
  <2>1. PICK y : y = DeliverRemote(x, order[k])
    OBVIOUS
  <2>2. PassOK(x) /\ order[k] \in Nodes
    BY <1>2, <1>3
  <2>3. Carries(x, y)
    BY <2>1, <2>2, DeliverKeeps
  <2> QED
    BY <2>1, <2>3, Zenon
<1>5. \A x \in PassStates : \A k \in 1..N : DeliverRemote(x, order[k]) \in PassStates
  BY <1>3, <1>4 DEF Carries
<1>6. PICK g : g = [x \in (1..N) \X PassStates |-> DeliverRemote(x[2], order[x[1]])]
  OBVIOUS
<1>7. \A k \in 1..N : \A x \in PassStates : g[<<k, x>>] = DeliverRemote(x, order[k])
  BY <1>6
<1>8. g \in [(1..N) \X PassStates -> PassStates]
  BY <1>5, <1>6
<1>9. st \in PassStates
  BY <1>3
<1>10. \E f : Iterates(f, N, PassStates, st, g)
  BY <1>8, <1>9, Recursion, Zenon
<1>11. PICK f : /\ f \in [0..N -> PassStates] /\ f[0] = st
                /\ \A k \in 1..N : f[k] = g[<<k, f[k - 1]>>]
  BY <1>10 DEF Iterates
<1>12. \A k \in 1..N : f[k] = DeliverRemote(f[k - 1], order[k])
  <2>1. ASSUME NEW k \in 1..N
        PROVE  f[k] = DeliverRemote(f[k - 1], order[k])
    <3>1. f[k - 1] \in PassStates /\ f[k] = g[<<k, f[k - 1]>>]
      BY <1>11
    <3> QED
      BY <1>7, <3>1
  <2> QED
    BY <2>1
<1>13. PassRun(f, st, order)
  <2>1. f = [k \in 0..N |-> IF k = 0 THEN st ELSE DeliverRemote(f[k - 1], order[k])]
    BY <1>11, <1>12
  <2> QED
    BY <1>1, <2>1 DEF PassRun
<1>14. PICK h : h = CHOOSE x : PassRun(x, st, order)
  OBVIOUS
<1>15. PassRun(h, st, order)
  BY <1>13, <1>14, Zenon
<1>16. nst = h[N]
  BY <1>1, <1>14, Zenon DEF Passes, PassRun
<1>17. h = [k \in 0..N |-> IF k = 0 THEN st ELSE DeliverRemote(h[k - 1], order[k])]
  BY <1>1, <1>15 DEF PassRun
<1>18. h[0] = st /\ \A k \in 1..N : h[k] = DeliverRemote(h[k - 1], order[k])
  BY <1>17
<1>19. PICK T : T = {k \in 0..N : h[k] \in PassStates /\ Carried(st) \subseteq Carried(h[k])}
  OBVIOUS
<1>20. 0 \in T
  <2>1. 0 \in 0..N
    OBVIOUS
  <2> QED
    BY <1>9, <1>18, <1>19, <2>1
<1>21. ASSUME NEW k \in 1..N, k - 1 \in T
       PROVE  k \in T
  <2>1. h[k - 1] \in PassStates /\ Carried(st) \subseteq Carried(h[k - 1])
    BY <1>19, <1>21
  <2>2. Carries(h[k - 1], h[k])
    BY <1>4, <1>18, <2>1
  <2> QED
    BY <1>3, <1>19, <2>1, <2>2 DEF Carries
<1>22. N \in T
  <2>1. \A k \in 0..N : k \in T
    BY <1>20, <1>21, Induction
  <2> QED
    BY <2>1
<1> QED
  BY <1>3, <1>16, <1>19, <1>22 DEF Carries

\* The agent's own state can be passed over.
LEMMA OwnState ==
  ASSUME RemoteInv
  PROVE  PassOK(RemoteState)
<1>1. <<>> \in Seq(Splits)
  BY EmptySeq
<1>2. RemoteState \in [queues : [Nodes -> Seq(ForPeers)], pending : [Nodes -> Seq(ForPeers)],
           mail : [Sessions -> Seq(ForPeers)], conns : [Nodes -> Sessions \cup {None}],
           routes : [Nodes -> KnownRoutes], split : Seq(Splits)]
  BY <1>1 DEF RemoteInv, RemoteState
<1> QED
  BY <1>2 DEF RemoteInv, RemoteState, PassOK

\* The results of the passes become the state of the agent.
LEMMA SetRemoteKeeps ==
  ASSUME RemoteInv, MailInv, UNCHANGED <<validated, finished>>, NEW st, PassOK(st),
         NEW msgs \in Seq(Requests), SetRemote(st, msgs)
  PROVE  RemoteInv' /\ bsaMail' \in Seq(Requests')
<1>1. ForPeers' = ForPeers /\ Requests' = Requests
  BY DEF ForPeers, Requests, RequestOK, MessageOK, QueuesRight, InContract
<1>2. RemoteInv'
  BY <1>1 DEF RemoteInv, SetRemote, PassOK
<1>3. PICK split : split = st.split
  OBVIOUS
<1>4. split \in Seq(Requests)
  <2>1. split \in Seq(Splits)
    BY <1>3 DEF PassOK
  <2>2. Splits \subseteq Requests
    BY DEF Splits
  <2> QED
    BY <2>1, <2>2, SeqMonotonic
<1>5. PICK all : all = msgs \o split
  OBVIOUS
<1>6. all \in Seq(Requests)
  BY <1>4, <1>5, ConcatProperties
<1>7. bsaMail' = bsaMail \o all
  BY <1>3, <1>5 DEF SetRemote, Send
<1>8. bsaMail \o all \in Seq(Requests)
  BY <1>6, ConcatProperties DEF MailInv
<1> QED
  BY <1>1, <1>2, <1>7, <1>8, Zenon

-------------------------------------------------------------------------------
(* The handlers of the protocol agent *)

LocalWaits(p) ==
  \E e \in Endpoints : p \in Pbs(local_bundles[e]) \/ p \in Pbs(pending_local[e])

RemoteWaits(p) ==
  \E n \in Nodes : p \in Pbs(remote_bundles[n]) \/ p \in Pbs(pending_remote[n])

\* A bundle the protocol agent has done something about.
Noted(p) == p \in Pbs(bsaMail) \/ LocalWaits(p) \/ RemoteWaits(p) \/ p \in finished

\* No bundle falls out of sight.
Remembers == \A p : Tracked(p) => Tracked(p)' \/ p \in finished'

\* The ways to be tracked.
LEMMA TrackedIs ==
  ASSUME NEW p
  PROVE  Tracked(p) <=>
           \/ p \in Pbs(bsaMail) \/ LocalWaits(p) \/ RemoteWaits(p)
           \/ \E i \in 1..Len(bpaMail) :
                "bundle" \in DOMAIN bpaMail[i] /\ bpaMail[i].bundle.pb = p
<1>1. \A s : p \in Pbs(s) <=> InSeq(p, s)
  BY DEF Pbs, InSeq
<1>2. LocalWaits(p) <=>
        \E e \in Endpoints : InSeq(p, local_bundles[e]) \/ InSeq(p, pending_local[e])
  BY <1>1, Zenon DEF LocalWaits
<1>3. RemoteWaits(p) <=>
        \E n \in Nodes : InSeq(p, remote_bundles[n]) \/ InSeq(p, pending_remote[n])
  BY <1>1, Zenon DEF RemoteWaits
<1>4. p \in Pbs(bsaMail) <=> \E i \in 1..Len(bsaMail) : bsaMail[i].pb = p
  BY DEF Pbs
<1> QED
  BY <1>2, <1>3, <1>4, Zenon DEF Tracked

\* What an event carries, by its type.
LEMMA EventOf ==
  ASSUME NEW m \in Events
  PROVE  /\ m.type = "EventBundleUpdated" => m.bundle \in Sound
         /\ m.type = "EventBundleDelivered" =>
              m.endpoint \in Endpoints /\ m.bundle \in ForClients /\ m.bundle.pb \in finished
         /\ m.type = "EventBundleDeliveryFailed" =>
              m.endpoint \in Endpoints /\ m.bundle \in ForClients
         /\ m.type = "EventBundleForwarded" =>
              m.endpoint \in Nodes /\ m.bundle \in ForPeers /\ m.bundle.pb \in finished
         /\ m.type = "EventBundleForwardingFailed" =>
              m.endpoint \in Nodes /\ m.bundle \in ForPeers
         /\ m.type = "EventClientConnected" =>
              m.destination \in Endpoints /\ m.sender \in Clients /\ "bundle" \notin DOMAIN m
         /\ m.type = "EventClientDisconnected" =>
              m.destination \in Endpoints /\ "bundle" \notin DOMAIN m
         /\ m.type = "EventPeerConnected" =>
              m.destination \in Nodes /\ m.sender \in Sessions /\ "bundle" \notin DOMAIN m
         /\ m.type = "EventPeerDisconnected" =>
              m.destination \in Nodes /\ "bundle" \notin DOMAIN m
         /\ m.type = "EventRoutingTableUpdate" =>
              m.routes \in [Nodes -> KnownRoutes] /\ "bundle" \notin DOMAIN m
<1>1. CASE m \in Updates
  BY <1>1 DEF Updates
<1>2. CASE m \in Deliveries
  BY <1>2 DEF Deliveries
<1>3. CASE m \in Forwardings
  BY <1>3 DEF Forwardings
<1>4. CASE m \in Connections
  BY <1>4 DEF Connections
<1> QED
  BY <1>1, <1>2, <1>3, <1>4 DEF Events

\* What every handler has in common.
LEMMA AgentStep ==
  ASSUME DaemonInv, UNCHANGED <<fixedVars, routingVars, envVars>>,
         finished \subseteq finished', finished' \subseteq PrimaryBlocks,
         \A p \in finished' \ finished : ~(Local(p) /\ HeaderOf(p).fragment),
         NEW type, Receives(type), NEW h, h = Head(bpaMail),
         bsaMail' \in Seq(Requests'), reports' \in Nat, bpa' \in {"up", "panicked"},
         QueuesInv', RemoteInv',
         bpa' = "up" =>
           /\ \A p : LocalWaits(p) \/ RemoteWaits(p) => Noted(p)'
           /\ Pbs(bsaMail) \subseteq Pbs(bsaMail')
           /\ "bundle" \in DOMAIN h => Noted(h.bundle.pb)'
  PROVE  DaemonInv' /\ (bpa' = "up" => Remembers)
<1>1. Grows /\ Inv' /\ HInv' /\ UNCHANGED bundles
  BY OutsideStep
<1>2. bpaMail # <<>> /\ bpaMail' = Tail(bpaMail)
  BY DEF Receives
<1>3. bpaMail' \in Seq(Events') /\ bpaMail \in Seq(Events)
  BY <1>1, <1>2, MailGrows DEF DaemonInv, MailInv
<1>4. UNCHANGED <<answers, clientVars, routingVars>>
  BY DEF envVars
<1>5. MailInv'
  <2>1. answers' \subseteq Forwardings'
    BY <1>1, <1>4, MailGrows DEF DaemonInv
  <2> QED
    BY <1>1, <1>3, <2>1, MailStep DEF DaemonInv
<1>6. StreamsInv' /\ RoutingInv'
  BY <1>1, <1>4, StreamsStay, RoutingStays DEF DaemonInv
<1>7. ASSUME bpa' = "up", NEW p, Tracked(p)
      PROVE  Tracked(p)' \/ p \in finished'
  <2>1. Noted(p)' => Tracked(p)' \/ p \in finished'
    <3>1. (\/ p \in Pbs(bsaMail) \/ LocalWaits(p) \/ RemoteWaits(p))' => Tracked(p)'
      BY TrackedIs, PTL
    <3> QED
      BY <3>1 DEF Noted
  <2>2. CASE p \in Pbs(bsaMail) \/ LocalWaits(p) \/ RemoteWaits(p)
    <3>1. p \in Pbs(bsaMail) => Noted(p)'
      BY <1>7 DEF Noted
    <3> QED
      BY <1>7, <2>1, <2>2, <3>1
  <2>3. ASSUME NEW i \in 1..Len(bpaMail), "bundle" \in DOMAIN bpaMail[i],
               bpaMail[i].bundle.pb = p
        PROVE  Tracked(p)' \/ p \in finished'
    <3>1. PICK N \in Nat : N = Len(bpaMail) /\ N > 0
      <4>1. Len(bpaMail) \in Nat /\ Len(bpaMail) # 0
        BY <1>2, <1>3, LenProperties, EmptySeq
      <4> QED
        BY <4>1
    <3>2. PICK t : t = Tail(bpaMail)
      OBVIOUS
    <3>3. h = bpaMail[1] /\ Len(t) = N - 1 /\ \A j \in 1..(N - 1) : t[j] = bpaMail[j + 1]
      BY <1>2, <1>3, <3>1, <3>2, HeadTailProperties
    <3>4. CASE i = 1
      BY <1>7, <2>1, <2>3, <3>3, <3>4
    <3>5. CASE i # 1
      <4>1. PICK j \in 1..(N - 1) : j + 1 = i
        <5>1. i - 1 \in 1..(N - 1) /\ (i - 1) + 1 = i
          BY <3>1, <3>5
        <5> QED
          BY <5>1
      <4>2. j \in 1..Len(t) /\ t[j] = bpaMail[i]
        BY <3>3, <4>1
      <4>3. bpaMail' = t
        BY <1>2, <3>2
      <4>4. \E k \in 1..Len(bpaMail') :
              "bundle" \in DOMAIN bpaMail'[k] /\ bpaMail'[k].bundle.pb = p
        BY <2>3, <4>2, <4>3
      <4> QED
        BY <4>4 DEF Tracked
    <3> QED
      BY <3>4, <3>5
  <2> QED
    BY <1>7, <2>2, <2>3, TrackedIs
<1> QED
  BY <1>1, <1>5, <1>6, <1>7 DEF DaemonInv, Remembers

\* A request of the protocol agent to update a bundle.
LEMMA UpdateRequest ==
  ASSUME NEW p \in PrimaryBlocks, NEW s \in States \ {"Received"}, NEW k \in Nat \cup {-1},
         s \in Final => p \in finished,
         s \in {"DeliveryQueued", "ForwardingQueued"} => p \in validated,
         s = "DefragmentationPending" =>
           p \in validated /\ Local(p) /\ HeaderOf(p).fragment,
         s = "DeliveryQueued" => Local(p) /\ ~HeaderOf(p).fragment,
         s = "ForwardingQueued" => ~Local(p) /\ k \in Nat,
         s # "ForwardingQueued" => k = -1
  PROVE  UpdateBundle(p, s, k) \in Requests /\ UpdateBundle(p, s, k).pb = p
<1>1. PICK m : m = UpdateBundle(p, s, k)
  OBVIOUS
<1>2. /\ m.type = "UpdateBundle" /\ m.pb = p /\ m.newState = s /\ m.newHops = k
      /\ m \in StorageMessages
  BY <1>1 DEF UpdateBundle, StorageMessages
<1>3. RequestOK(m)
  BY <1>2 DEF RequestOK, MessageOK, QueuesRight, InContract
<1> QED
  BY <1>1, <1>2, <1>3 DEF Requests

\* A status report is a new bundle.
LEMMA ReportRequest ==
  ASSUME NEW r \in StoredBundles, NEW kind, reports \in Nat,
         NEW msgs, msgs = StatusReport(r, kind)
  PROVE  msgs \in Seq(Requests) /\ Len(msgs) \in Nat
<1>1. CASE kind \in HeaderOf(r.pb).wants
  <2>1. PICK p \in PrimaryBlocks : p = r.pb
    BY DEF StoredBundles
  <2>2. p \in Bundles /\ kind \in Kinds
    BY <1>1, <2>1, DestType
  <2>3. PICK b : b = <<p, kind, reports>>
    OBVIOUS
  <2>4. b \in PrimaryBlocks
    BY <2>2, <2>3 DEF PrimaryBlocks, Reports
  <2>5. PICK m : m = StoreNewBundle(b)
    OBVIOUS
  <2>6. m.type = "StoreNewBundle" /\ m.pb = b /\ m \in StorageMessages
    BY <2>4, <2>5 DEF StoreNewBundle, StorageMessages
  <2>7. m \in Requests
    BY <2>4, <2>6 DEF Requests, RequestOK, MessageOK, QueuesRight, InContract
  <2>8. msgs = <<m>>
    BY <1>1, <2>1, <2>3, <2>5, Zenon DEF StatusReport
  <2> QED
    BY <2>7, <2>8
<1>2. CASE kind \notin HeaderOf(r.pb).wants
  <2>1. msgs = <<>>
    BY <1>2 DEF StatusReport
  <2> QED
    BY <2>1, EmptySeq
<1> QED
  BY <1>1, <1>2

\* Reports are counted.
LEMMA Counted ==
  ASSUME NEW msgs, Len(msgs) \in Nat, reports \in Nat, CountReports(msgs)
  PROVE  reports' \in Nat
BY DEF CountReports

\* A report, if any, and a request.
LEMMA OneMore ==
  ASSUME NEW msgs \in Seq(Requests), NEW m \in Requests
  PROVE  /\ Append(msgs, m) \in Seq(Requests) /\ m.pb \in Pbs(Append(msgs, m))
         /\ msgs \o <<m>> = Append(msgs, m)
<1>1. Append(msgs, m) \in Seq(Requests)
  BY AppendProperties
<1>2. Pbs(Append(msgs, m)) = Pbs(msgs) \cup {m.pb}
  BY PbsAppend
<1>3. msgs \o <<m>> = Append(msgs, m)
  OBVIOUS
<1> QED
  BY <1>1, <1>2, <1>3

\* The mailbox of the storage agent after more messages.
LEMMA SentMail ==
  ASSUME MailInv, Grows, NEW msgs \in Seq(Requests'), Send(msgs)
  PROVE  /\ bsaMail' \in Seq(Requests')
         /\ Pbs(bsaMail') = Pbs(bsaMail) \cup Pbs(msgs)
<1>1. bsaMail \in Seq(Requests')
  BY MailGrows
<1>2. bsaMail' = bsaMail \o msgs
  BY DEF Send
<1>3. bsaMail \o msgs \in Seq(Requests') /\ Pbs(bsaMail \o msgs) = Pbs(bsaMail) \cup Pbs(msgs)
  BY <1>1, ConcatProperties, PbsConcat
<1> QED
  BY <1>2, <1>3, Zenon

\* Queues that do not change keep what waits in them.
LEMMA StillWaits ==
  ASSUME NEW p
  PROVE  /\ UNCHANGED <<local_bundles, pending_local>> => (LocalWaits(p) => LocalWaits(p)')
         /\ UNCHANGED <<remote_bundles, pending_remote>> => (RemoteWaits(p) => RemoteWaits(p)')
BY DEF LocalWaits, RemoteWaits

\* A handler that asks for an update of the bundle, possibly with a report.
LEMMA AskDaemon ==
  ASSUME DaemonInv, UNCHANGED <<fixedVars, bpa, localVars, remoteVars, routingVars, envVars>>,
         finished \subseteq finished', finished' \subseteq PrimaryBlocks,
         \A p \in finished' \ finished : ~(Local(p) /\ HeaderOf(p).fragment),
         NEW type, Receives(type), NEW h, h = Head(bpaMail),
         NEW msgs \in Seq(Requests'), Send(msgs), h.bundle.pb \in Pbs(msgs),
         reports' \in Nat
  PROVE  DaemonInv' /\ (bpa' = "up" => Remembers)
<1>1. Grows
  BY OutsideStep
<1>2. bsaMail' \in Seq(Requests') /\ Pbs(bsaMail') = Pbs(bsaMail) \cup Pbs(msgs)
  BY <1>1, SentMail DEF DaemonInv
<1>3. QueuesInv' /\ RemoteInv'
  BY <1>1, QueuesStay, RemoteStays DEF DaemonInv
<1>4. UNCHANGED <<local_bundles, pending_local, remote_bundles, pending_remote>>
  BY DEF localVars, remoteVars
<1>5. \A p : LocalWaits(p) \/ RemoteWaits(p) => Noted(p)'
  BY <1>4, StillWaits DEF Noted
<1>6. Noted(h.bundle.pb)'
  BY <1>2 DEF Noted
<1>7. bpa' \in {"up", "panicked"}
  BY DEF DaemonInv, MailInv
<1> QED
  BY <1>2, <1>3, <1>5, <1>6, <1>7, AgentStep

\* Nothing else is finished by a handler that only asks.
LEMMA SameFinished ==
  ASSUME DaemonInv, UNCHANGED <<validated, finished>>
  PROVE  /\ finished \subseteq finished' /\ finished' \subseteq PrimaryBlocks
         /\ \A p \in finished' \ finished : ~(Local(p) /\ HeaderOf(p).fragment)
         /\ Requests' = Requests /\ ForClients' = ForClients /\ ForPeers' = ForPeers
<1>1. finished \subseteq PrimaryBlocks
  BY DEF DaemonInv, Inv, StorageTypeOK
<1>2. Requests' = Requests /\ ForClients' = ForClients /\ ForPeers' = ForPeers
  BY DEF Requests, RequestOK, MessageOK, QueuesRight, InContract, ForClients, ForPeers
<1> QED
  BY <1>1, <1>2

\* The message a handler takes is one of the events.
LEMMA ReceivedIs ==
  ASSUME DaemonInv, NEW type, Receives(type), NEW h, h = Head(bpaMail)
  PROVE  h \in Events /\ h.type = type
<1>1. bpaMail # <<>> /\ bpaMail \in Seq(Events) /\ h.type = type
  BY DEF Receives, DaemonInv, MailInv
<1> QED
  BY <1>1, HeadTailProperties

\* EventBundleUpdated, for a bundle just received.
LEMMA ReceivedDaemon ==
  ASSUME DaemonInv, HandleReceived, UNCHANGED <<routingVars, envVars>>
  PROVE  DaemonInv' /\ (bpa' = "up" => Remembers)
<1>1. PICK h : h = Head(bpaMail)
  OBVIOUS
<1>2. PICK r : r = h.bundle
  OBVIOUS
<1>3. PICK report : report = IF HeaderOf(r.pb).mine THEN <<>> ELSE StatusReport(r, "received")
  OBVIOUS
<1>4. PICK u : u = UpdateBundle(r.pb, "Valid", -1)
  OBVIOUS
<1>5. /\ Receives("EventBundleUpdated") /\ r.state = "Received"
      /\ Send(report \o <<u>>) /\ CountReports(report)
      /\ UNCHANGED <<fixedVars, finished, bpa, localVars, remoteVars>>
  BY <1>1, <1>2, <1>3, <1>4, Zenon DEF HandleReceived
<1>6. r \in Sound
  <2>1. h \in Events /\ h.type = "EventBundleUpdated"
    BY <1>1, <1>5, ReceivedIs
  <2> QED
    BY <1>2, <2>1, EventOf
<1>7. r \in StoredBundles /\ r.pb \in PrimaryBlocks
  BY <1>6 DEF Sound, StoredBundles
<1>8. report \in Seq(Requests) /\ Len(report) \in Nat
  <2>1. CASE report = <<>>
    BY <2>1, EmptySeq
  <2>2. CASE report = StatusReport(r, "received")
    BY <1>7, <2>2, ReportRequest DEF DaemonInv, MailInv
  <2> QED
    BY <1>3, <2>1, <2>2
<1>9. u \in Requests /\ u.pb = r.pb
  BY <1>4, <1>7, UpdateRequest DEF States, Final
<1>10. PICK msgs : msgs = Append(report, u)
  OBVIOUS
<1>11. msgs \in Seq(Requests) /\ r.pb \in Pbs(msgs)
  <2>1. Append(report, u) \in Seq(Requests) /\ u.pb \in Pbs(Append(report, u))
    BY <1>8, <1>9, OneMore
  <2> QED
    BY <1>9, <1>10, <2>1, Zenon
<1>12. reports' \in Nat
  BY <1>5, <1>8, Counted DEF DaemonInv, MailInv
<1>13. UNCHANGED <<validated, finished>>
  BY <1>5 DEF fixedVars
<1>14. Send(msgs) /\ h.bundle.pb \in Pbs(msgs) /\ msgs \in Seq(Requests')
  <2>1. report \o <<u>> = Append(report, u)
    BY <1>8
  <2>2. Send(msgs)
    BY <1>5, <1>10, <2>1, Zenon
  <2> QED
    BY <1>2, <1>11, <1>13, <2>2, SameFinished, Zenon
<1> QED
  BY <1>1, <1>5, <1>12, <1>13, <1>14, SameFinished, AskDaemon

\* A request alone.
LEMMA OneOnly ==
  ASSUME NEW m \in Requests, NEW msgs, msgs = <<m>>
  PROVE  msgs \in Seq(Requests) /\ m.pb \in Pbs(msgs)
<1>1. msgs \in Seq(Requests) /\ Len(msgs) = 1 /\ msgs[1] = m
  OBVIOUS
<1> QED
  BY <1>1 DEF Pbs

\* EventBundleUpdated, for a valid bundle: a request to update it and nothing else.
LEMMA AskOnly ==
  ASSUME DaemonInv, UNCHANGED <<routingVars, envVars>>, Receives("EventBundleUpdated"),
         UNCHANGED <<fixedVars, finished, bpa, reports, localVars, remoteVars>>,
         NEW r, r = Head(bpaMail).bundle, NEW u \in Requests, u.pb = r.pb,
         NEW msgs, msgs = <<u>>, Send(msgs)
  PROVE  DaemonInv' /\ (bpa' = "up" => Remembers)
<1>1. UNCHANGED <<validated, finished>>
  BY DEF fixedVars
<1>2. msgs \in Seq(Requests) /\ r.pb \in Pbs(msgs)
  BY OneOnly
<1>3. PICK h : h = Head(bpaMail)
  OBVIOUS
<1>4. h.bundle.pb \in Pbs(msgs) /\ msgs \in Seq(Requests') /\ reports' \in Nat
  BY <1>1, <1>2, <1>3, SameFinished DEF DaemonInv, MailInv
<1> QED
  BY <1>1, <1>3, <1>4, SameFinished, AskDaemon

\* EventBundleUpdated, for a valid bundle of this node.
LEMMA ValidLocalDaemon ==
  ASSUME DaemonInv, HandleValidLocal, UNCHANGED <<routingVars, envVars>>
  PROVE  DaemonInv' /\ (bpa' = "up" => Remembers)
<1>1. PICK r : r = Head(bpaMail).bundle
  OBVIOUS
<1>2. PICK next : next = IF HeaderOf(r.pb).fragment THEN "DefragmentationPending"
                         ELSE "DeliveryQueued"
  OBVIOUS
<1>3. PICK u : u = UpdateBundle(r.pb, next, -1)
  OBVIOUS
<1>4. PICK msgs : msgs = <<u>>
  OBVIOUS
<1>5. /\ Receives("EventBundleUpdated") /\ r.state = "Valid"
      /\ HeaderOf(r.pb).dest \in Endpoints /\ Send(msgs)
      /\ UNCHANGED <<fixedVars, finished, bpa, reports, localVars, remoteVars>>
  BY <1>1, <1>2, <1>3, <1>4, Zenon DEF HandleValidLocal
<1>6. r \in Sound
  BY <1>1, <1>5, ReceivedIs, EventOf
<1>7. r.pb \in PrimaryBlocks /\ r.pb \in validated /\ Local(r.pb)
  BY <1>5, <1>6 DEF Sound, StoredBundles, Local
<1>8. u \in Requests /\ u.pb = r.pb
  <2>1. /\ next \in States \ {"Received"} /\ next \notin Final /\ next # "ForwardingQueued"
        /\ next = "DefragmentationPending" => HeaderOf(r.pb).fragment
        /\ next = "DeliveryQueued" => ~HeaderOf(r.pb).fragment
    BY <1>2 DEF States, Final
  <2> QED
    BY <1>3, <1>7, <2>1, UpdateRequest
<1> QED
  BY <1>1, <1>4, <1>5, <1>8, AskOnly

\* What HandleValidRemote and HandleHopLimitExceeded know of the bundle.
LEMMA ValidRemoteIs ==
  ASSUME DaemonInv, ReceivesValidRemote, NEW r, r = Head(bpaMail).bundle
  PROVE  /\ Receives("EventBundleUpdated")
         /\ r \in StoredBundles /\ r.pb \in PrimaryBlocks /\ r.pb \in validated /\ ~Local(r.pb)
         /\ r.data.hops \in Nat
<1>1. Receives("EventBundleUpdated") /\ r.state = "Valid" /\ HeaderOf(r.pb).dest \in Nodes
  BY DEF ReceivesValidRemote
<1>2. r \in Sound
  BY <1>1, ReceivedIs, EventOf
<1>3. r \in StoredBundles /\ r.pb \in PrimaryBlocks /\ r.pb \in validated /\ r.data.hops \in Nat
  BY <1>1, <1>2 DEF Sound, StoredBundles, Data
<1>4. ~Local(r.pb)
  BY <1>1, <1>3, DestType
<1> QED
  BY <1>1, <1>3, <1>4

\* EventBundleUpdated, for a valid bundle of another node.
LEMMA ValidRemoteDaemon ==
  ASSUME DaemonInv, HandleValidRemote, UNCHANGED <<routingVars, envVars>>
  PROVE  DaemonInv' /\ (bpa' = "up" => Remembers)
<1>1. PICK r : r = Head(bpaMail).bundle
  OBVIOUS
<1>2. PICK u : u = UpdateBundle(r.pb, "ForwardingQueued", r.data.hops - 1)
  OBVIOUS
<1>3. PICK msgs : msgs = <<u>>
  OBVIOUS
<1>4. /\ ReceivesValidRemote /\ r.data.hops > 0 /\ Send(msgs)
      /\ UNCHANGED <<fixedVars, finished, bpa, reports, localVars, remoteVars>>
  BY <1>1, <1>2, <1>3, Zenon DEF HandleValidRemote
<1>5. /\ Receives("EventBundleUpdated")
      /\ r.pb \in PrimaryBlocks /\ r.pb \in validated /\ ~Local(r.pb)
      /\ r.data.hops \in Nat
  BY <1>1, <1>4, ValidRemoteIs
<1>6. r.data.hops - 1 \in Nat
  BY <1>4, <1>5
<1>7. u \in Requests /\ u.pb = r.pb
  BY <1>2, <1>5, <1>6, UpdateRequest DEF States, Final
<1> QED
  BY <1>1, <1>3, <1>4, <1>5, <1>7, AskOnly

\* The hop limit ends the way of a bundle.
LEMMA HopLimitDaemon ==
  ASSUME DaemonInv, HandleHopLimitExceeded, UNCHANGED <<routingVars, envVars>>
  PROVE  DaemonInv' /\ (bpa' = "up" => Remembers)
<1>1. PICK h : h = Head(bpaMail)
  OBVIOUS
<1>2. PICK r : r = h.bundle
  OBVIOUS
<1>3. PICK report : report = StatusReport(r, "deleted")
  OBVIOUS
<1>4. PICK u : u = UpdateBundle(r.pb, "Invalid", -1)
  OBVIOUS
<1>5. /\ ReceivesValidRemote /\ Send(report \o <<u>>) /\ CountReports(report)
      /\ finished' = finished \cup {r.pb}
      /\ UNCHANGED <<fixedVars, bpa, localVars, remoteVars>>
  BY <1>1, <1>2, <1>3, <1>4, Zenon DEF HandleHopLimitExceeded
<1>6. /\ Receives("EventBundleUpdated") /\ r \in StoredBundles
      /\ r.pb \in PrimaryBlocks /\ r.pb \in validated /\ ~Local(r.pb)
  BY <1>1, <1>2, <1>5, ValidRemoteIs
<1>7. report \in Seq(Requests) /\ Len(report) \in Nat
  BY <1>3, <1>6, ReportRequest DEF DaemonInv, MailInv
<1>8. /\ finished \subseteq finished' /\ finished' \subseteq PrimaryBlocks
      /\ \A p \in finished' \ finished : ~(Local(p) /\ HeaderOf(p).fragment)
  BY <1>5, <1>6 DEF DaemonInv, Inv, StorageTypeOK
<1>9. Grows
  BY <1>5, <1>8, OutsideStep
<1>10. report \in Seq(Requests')
  BY <1>7, <1>9, Growth, SeqMonotonic
<1>11. u \in Requests' /\ u.pb = r.pb
  <2>1. /\ u.type = "UpdateBundle" /\ u.pb = r.pb /\ u.newState = "Invalid" /\ u.newHops = -1
        /\ u \in StorageMessages
    BY <1>4, <1>6 DEF UpdateBundle, StorageMessages, States
  <2>2. r.pb \in finished'
    BY <1>5
  <2> QED
    BY <1>6, <2>1, <2>2 DEF Requests, RequestOK, MessageOK, QueuesRight, InContract
<1>12. PICK msgs : msgs = Append(report, u)
  OBVIOUS
<1>13. msgs \in Seq(Requests') /\ r.pb \in Pbs(msgs) /\ report \o <<u>> = msgs
  <2>1. Append(report, u) \in Seq(Requests')
    BY <1>10, <1>11, AppendProperties
  <2>2. Pbs(Append(report, u)) = Pbs(report) \cup {u.pb}
    BY <1>10, <1>11, PbsAppend
  <2>3. report \o <<u>> = Append(report, u)
    BY <1>10, <1>11
  <2>4. r.pb \in Pbs(Append(report, u))
    BY <1>11, <2>2
  <2> QED
    BY <1>12, <2>1, <2>3, <2>4, Zenon
<1>14. reports' \in Nat
  BY <1>5, <1>7, Counted DEF DaemonInv, MailInv
<1>15. Send(msgs) /\ h.bundle.pb \in Pbs(msgs)
  BY <1>2, <1>5, <1>13, Zenon
<1> QED
  BY <1>1, <1>5, <1>6, <1>8, <1>13, <1>14, <1>15, AskDaemon

\* The agent panics on a reference to data that is gone.
LEMMA DanglingDaemon ==
  ASSUME DaemonInv, HandleDanglingReference, UNCHANGED <<routingVars, envVars>>
  PROVE  DaemonInv' /\ (bpa' = "up" => Remembers)
<1>1. /\ Receives("EventBundleUpdated") /\ bpa' = "panicked"
      /\ UNCHANGED <<fixedVars, finished, bsaMail, reports, localVars, remoteVars>>
  BY DEF HandleDanglingReference, ReceivesValidRemote
<1>2. UNCHANGED <<validated, finished>>
  BY <1>1 DEF fixedVars
<1>3. /\ finished \subseteq finished' /\ finished' \subseteq PrimaryBlocks
      /\ \A p \in finished' \ finished : ~(Local(p) /\ HeaderOf(p).fragment)
  BY <1>2, SameFinished
<1>4. Grows
  BY <1>1, <1>3, OutsideStep
<1>5. QueuesInv' /\ RemoteInv' /\ bsaMail' \in Seq(Requests') /\ reports' \in Nat
  BY <1>1, <1>4, QueuesStay, RemoteStays, MailGrows DEF DaemonInv
<1>6. ~(bpa' = "up") /\ bpa' \in {"up", "panicked"}
  BY <1>1
<1> QED
  BY <1>1, <1>3, <1>5, <1>6, AgentStep

\* A handler that ends with a pass over a local queue.
LEMMA LocalAgent ==
  ASSUME DaemonInv,
         UNCHANGED <<fixedVars, finished, bpa, remoteVars, routingVars, envVars>>,
         NEW type, Receives(type), NEW h, h = Head(bpaMail),
         NEW e \in Endpoints, NEW q \in Seq(ForClients), NEW pend \in Seq(ForClients),
         NEW conns \in [Endpoints -> Clients \cup {None}], DeliverLocal(e, q, pend, conns),
         bsaMail' \in Seq(Requests), Pbs(bsaMail) \subseteq Pbs(bsaMail'), reports' \in Nat,
         Pbs(local_bundles[e]) \cup Pbs(pending_local[e])
           \subseteq Pbs(q) \cup Pbs(pend) \cup finished,
         "bundle" \in DOMAIN h => h.bundle.pb \in Pbs(q) \cup Pbs(pend) \cup finished
  PROVE  DaemonInv' /\ (bpa' = "up" => Remembers)
<1>1. UNCHANGED <<validated, finished>> /\ UNCHANGED validated
  BY DEF fixedVars
<1>2. /\ finished \subseteq finished' /\ finished' \subseteq PrimaryBlocks
      /\ \A p \in finished' \ finished : ~(Local(p) /\ HeaderOf(p).fragment)
      /\ bsaMail' \in Seq(Requests')
  BY <1>1, SameFinished
<1>3. Grows
  BY <1>2, OutsideStep
<1>4. RemoteInv' /\ bpa' \in {"up", "panicked"}
  BY <1>3, RemoteStays DEF DaemonInv, MailInv
<1>5. /\ QueuesInv'
      /\ \A d \in Endpoints : d # e => /\ local_bundles'[d] = local_bundles[d]
                                       /\ pending_local'[d] = pending_local[d]
      /\ Pbs(q) \cup Pbs(pend) \subseteq Pbs(local_bundles'[e]) \cup Pbs(pending_local'[e])
  BY <1>1, LocalPass DEF DaemonInv
<1>6. ASSUME NEW p, p \in Pbs(q) \cup Pbs(pend) \cup finished
      PROVE  Noted(p)'
  <2>1. p \in finished' \/ p \in Pbs(local_bundles'[e]) \cup Pbs(pending_local'[e])
    BY <1>1, <1>5, <1>6
  <2> QED
    BY <2>1 DEF Noted, LocalWaits
<1>7. ASSUME NEW p, LocalWaits(p)
      PROVE  Noted(p)'
  <2>1. PICK d \in Endpoints : p \in Pbs(local_bundles[d]) \/ p \in Pbs(pending_local[d])
    BY <1>7 DEF LocalWaits
  <2>2. CASE d = e
    BY <1>6, <2>1, <2>2
  <2>3. CASE d # e
    <3>1. p \in Pbs(local_bundles'[d]) \/ p \in Pbs(pending_local'[d])
      BY <1>5, <2>1, <2>3
    <3> QED
      BY <3>1 DEF Noted, LocalWaits
  <2> QED
    BY <2>2, <2>3
<1>8. ASSUME NEW p, RemoteWaits(p)
      PROVE  Noted(p)'
  <2>1. UNCHANGED <<remote_bundles, pending_remote>>
    BY DEF remoteVars
  <2> QED
    BY <1>8, <2>1, StillWaits DEF Noted
<1> QED
  BY <1>2, <1>4, <1>5, <1>6, <1>7, <1>8, AgentStep

\* EventBundleUpdated, for a bundle to deliver.
LEMMA DeliveryQueuedDaemon ==
  ASSUME DaemonInv, HandleDeliveryQueued, UNCHANGED <<routingVars, envVars>>
  PROVE  DaemonInv' /\ (bpa' = "up" => Remembers)
<1>1. PICK h : h = Head(bpaMail)
  OBVIOUS
<1>2. PICK r : r = h.bundle
  OBVIOUS
<1>3. PICK e : e = HeaderOf(r.pb).dest
  OBVIOUS
<1>4. /\ Receives("EventBundleUpdated") /\ r.state = "DeliveryQueued"
      /\ DeliverLocal(e, Append(local_bundles[e], r), pending_local[e], local_connections)
      /\ UNCHANGED <<fixedVars, finished, bsaMail, bpa, reports, remoteVars>>
  BY <1>1, <1>2, <1>3, Zenon DEF HandleDeliveryQueued
<1>5. r \in Sound
  BY <1>1, <1>2, <1>4, ReceivedIs, EventOf
<1>6. r \in ForClients /\ e \in Endpoints
  BY <1>3, <1>4, <1>5 DEF Sound, ForClients, Local
<1>7. /\ local_bundles[e] \in Seq(ForClients) /\ pending_local[e] \in Seq(ForClients)
      /\ local_connections \in [Endpoints -> Clients \cup {None}]
      /\ bsaMail \in Seq(Requests) /\ reports \in Nat
  BY <1>6 DEF DaemonInv, QueuesInv, MailInv
<1>8. PICK q : q = Append(local_bundles[e], r)
  OBVIOUS
<1>9. q \in Seq(ForClients) /\ Pbs(q) = Pbs(local_bundles[e]) \cup {r.pb}
  <2>1. /\ Append(local_bundles[e], r) \in Seq(ForClients)
        /\ Pbs(Append(local_bundles[e], r)) = Pbs(local_bundles[e]) \cup {r.pb}
    BY <1>6, <1>7, AppendProperties, PbsAppend
  <2> QED
    BY <1>8, <2>1, Zenon
<1>10. /\ Pbs(local_bundles[e]) \cup Pbs(pending_local[e])
            \subseteq Pbs(q) \cup Pbs(pending_local[e]) \cup finished
       /\ h.bundle.pb \in Pbs(q) \cup Pbs(pending_local[e]) \cup finished
       /\ DeliverLocal(e, q, pending_local[e], local_connections)
       /\ bsaMail' \in Seq(Requests) /\ Pbs(bsaMail) \subseteq Pbs(bsaMail') /\ reports' \in Nat
  BY <1>2, <1>4, <1>7, <1>8, <1>9
<1> QED
  BY <1>1, <1>4, <1>6, <1>7, <1>9, <1>10, LocalAgent

\* EventBundleDelivered.
LEMMA DeliveredDaemon ==
  ASSUME DaemonInv, HandleBundleDelivered, UNCHANGED <<routingVars, envVars>>
  PROVE  DaemonInv' /\ (bpa' = "up" => Remembers)
<1>1. PICK h : h = Head(bpaMail)
  OBVIOUS
<1>2. PICK r, e : r = h.bundle /\ e = h.endpoint
  OBVIOUS
<1>3. PICK report : report = StatusReport(r, "delivered")
  OBVIOUS
<1>4. PICK u : u = UpdateBundle(r.pb, "Delivered", -1)
  OBVIOUS
<1>5. PICK pend : pend = Retain(pending_local[e], r)
  OBVIOUS
<1>6. /\ Receives("EventBundleDelivered")
      /\ Send(report \o <<u>>) /\ CountReports(report)
      /\ DeliverLocal(e, local_bundles[e], pend, local_connections)
      /\ UNCHANGED <<fixedVars, finished, bpa, remoteVars>>
  BY <1>1, <1>2, <1>3, <1>4, <1>5, Zenon DEF HandleBundleDelivered
<1>7. e \in Endpoints /\ r \in ForClients /\ r.pb \in finished
  BY <1>1, <1>2, <1>6, ReceivedIs, EventOf
<1>8. r \in StoredBundles /\ r.pb \in PrimaryBlocks
  BY <1>7 DEF ForClients, StoredBundles
<1>9. /\ local_bundles[e] \in Seq(ForClients) /\ pending_local[e] \in Seq(ForClients)
      /\ local_connections \in [Endpoints -> Clients \cup {None}]
      /\ bsaMail \in Seq(Requests) /\ reports \in Nat
  BY <1>7 DEF DaemonInv, QueuesInv, MailInv
<1>10. report \in Seq(Requests) /\ Len(report) \in Nat
  BY <1>3, <1>8, <1>9, ReportRequest
<1>11. u \in Requests
  BY <1>4, <1>7, <1>8, UpdateRequest DEF States, Final
<1>12. PICK msgs : msgs = report \o <<u>> /\ msgs \in Seq(Requests)
  BY <1>10, <1>11, OneMore
<1>13. UNCHANGED <<validated, finished>>
  BY <1>6 DEF fixedVars
<1>14. bsaMail' \in Seq(Requests) /\ Pbs(bsaMail) \subseteq Pbs(bsaMail')
  <2>1. Send(msgs) /\ msgs \in Seq(Requests')
    BY <1>6, <1>12, <1>13, SameFinished
  <2>2. Grows
    BY <1>6, QuietStep
  <2> QED
    BY <1>13, <2>1, <2>2, SentMail, SameFinished DEF DaemonInv
<1>15. reports' \in Nat
  BY <1>6, <1>9, <1>10, Counted
<1>16. pend \in Seq(ForClients) /\ Pbs(pend) = Pbs(pending_local[e]) \ {r.pb}
  BY <1>5, <1>9, RetainHas
<1>17. /\ Pbs(local_bundles[e]) \cup Pbs(pending_local[e])
            \subseteq Pbs(local_bundles[e]) \cup Pbs(pend) \cup finished
       /\ h.bundle.pb \in Pbs(local_bundles[e]) \cup Pbs(pend) \cup finished
  BY <1>2, <1>7, <1>16
<1> QED
  BY <1>1, <1>6, <1>7, <1>9, <1>14, <1>15, <1>16, <1>17, LocalAgent

\* EventClientConnected.
LEMMA ClientConnectedDaemon ==
  ASSUME DaemonInv, HandleClientConnected, UNCHANGED <<routingVars, envVars>>
  PROVE  DaemonInv' /\ (bpa' = "up" => Remembers)
<1>1. PICK h : h = Head(bpaMail)
  OBVIOUS
<1>2. PICK e, c : e = h.destination /\ c = h.sender
  OBVIOUS
<1>3. PICK conns : conns = [local_connections EXCEPT ![e] = c]
  OBVIOUS
<1>4. /\ Receives("EventClientConnected")
      /\ DeliverLocal(e, local_bundles[e], pending_local[e], conns)
      /\ UNCHANGED <<fixedVars, finished, bsaMail, bpa, reports, remoteVars>>
  BY <1>1, <1>2, <1>3, Zenon DEF HandleClientConnected
<1>5. e \in Endpoints /\ c \in Clients /\ "bundle" \notin DOMAIN h
  BY <1>1, <1>2, <1>4, ReceivedIs, EventOf
<1>6. /\ local_bundles[e] \in Seq(ForClients) /\ pending_local[e] \in Seq(ForClients)
      /\ conns \in [Endpoints -> Clients \cup {None}]
      /\ bsaMail' \in Seq(Requests) /\ reports' \in Nat /\ Pbs(bsaMail) \subseteq Pbs(bsaMail')
  BY <1>3, <1>4, <1>5 DEF DaemonInv, QueuesInv, MailInv
<1>7. Pbs(local_bundles[e]) \cup Pbs(pending_local[e])
        \subseteq Pbs(local_bundles[e]) \cup Pbs(pending_local[e]) \cup finished
  OBVIOUS
<1> QED
  BY <1>1, <1>4, <1>5, <1>6, <1>7, LocalAgent

\* A bundle in front of the others.
LEMMA PbsFront ==
  ASSUME NEW S, NEW s \in Seq(S), NEW r \in S, NEW q, q = <<r>> \o s
  PROVE  q \in Seq(S) /\ Pbs(q) = {r.pb} \cup Pbs(s)
<1>1. PICK o : o = <<r>>
  OBVIOUS
<1>2. o \in Seq(S) /\ Len(o) = 1 /\ o[1] = r
  BY <1>1
<1>3. Pbs(o) = {r.pb}
  BY <1>2 DEF Pbs
<1>4. q = o \o s
  BY <1>1, Zenon
<1>5. o \o s \in Seq(S) /\ Pbs(o \o s) = Pbs(o) \cup Pbs(s)
  BY <1>2, PbsConcat, ConcatProperties
<1> QED
  BY <1>3, <1>4, <1>5, Zenon

\* EventBundleDeliveryFailed and EventClientDisconnected: no pass follows.
LEMMA LocalChange ==
  ASSUME DaemonInv,
         UNCHANGED <<fixedVars, finished, bsaMail, bpa, reports, actor, actorMail,
                     remoteVars, routingVars, envVars>>,
         NEW type, Receives(type), NEW h, h = Head(bpaMail), NEW e \in Endpoints,
         NEW q \in Seq(ForClients), NEW pend \in Seq(ForClients),
         local_bundles' = [local_bundles EXCEPT ![e] = q],
         pending_local' = [pending_local EXCEPT ![e] = pend],
         local_connections' \in [Endpoints -> Clients \cup {None}],
         Pbs(local_bundles[e]) \cup Pbs(pending_local[e]) \subseteq Pbs(q) \cup Pbs(pend),
         "bundle" \in DOMAIN h => h.bundle.pb \in Pbs(q)
  PROVE  DaemonInv' /\ (bpa' = "up" => Remembers)
<1>1. UNCHANGED <<validated, finished>>
  BY DEF fixedVars
<1>2. /\ finished \subseteq finished' /\ finished' \subseteq PrimaryBlocks
      /\ \A p \in finished' \ finished : ~(Local(p) /\ HeaderOf(p).fragment)
      /\ Requests' = Requests /\ ForClients' = ForClients
  BY <1>1, SameFinished
<1>3. Grows
  BY <1>2, OutsideStep
<1>4. /\ RemoteInv' /\ bpa' \in {"up", "panicked"} /\ bsaMail' \in Seq(Requests')
      /\ reports' \in Nat
  BY <1>2, <1>3, RemoteStays DEF DaemonInv, MailInv
<1>5. /\ local_bundles \in [Endpoints -> Seq(ForClients)]
      /\ pending_local \in [Endpoints -> Seq(ForClients)]
  BY DEF DaemonInv, QueuesInv
<1>6. /\ local_bundles' \in [Endpoints -> Seq(ForClients)] /\ local_bundles'[e] = q
      /\ pending_local' \in [Endpoints -> Seq(ForClients)] /\ pending_local'[e] = pend
      /\ \A d \in Endpoints : d # e => /\ local_bundles'[d] = local_bundles[d]
                                       /\ pending_local'[d] = pending_local[d]
  BY <1>5
<1>7. QueuesInv'
  BY <1>2, <1>6 DEF DaemonInv, QueuesInv
<1>8. ASSUME NEW p, p \in Pbs(q) \cup Pbs(pend)
      PROVE  Noted(p)'
  BY <1>6, <1>8 DEF Noted, LocalWaits
<1>9. ASSUME NEW p, LocalWaits(p)
      PROVE  Noted(p)'
  <2>1. PICK d \in Endpoints : p \in Pbs(local_bundles[d]) \/ p \in Pbs(pending_local[d])
    BY <1>9 DEF LocalWaits
  <2>2. CASE d = e
    BY <1>8, <2>1, <2>2
  <2>3. CASE d # e
    <3>1. p \in Pbs(local_bundles'[d]) \/ p \in Pbs(pending_local'[d])
      BY <1>6, <2>1, <2>3
    <3> QED
      BY <3>1 DEF Noted, LocalWaits
  <2> QED
    BY <2>2, <2>3
<1>10. ASSUME NEW p, RemoteWaits(p)
       PROVE  Noted(p)'
  <2>1. UNCHANGED <<remote_bundles, pending_remote>>
    BY DEF remoteVars
  <2> QED
    BY <1>10, <2>1, StillWaits DEF Noted
<1>11. Pbs(bsaMail) \subseteq Pbs(bsaMail')
  OBVIOUS
<1> QED
  BY <1>2, <1>4, <1>7, <1>8, <1>9, <1>10, <1>11, AgentStep

\* EventBundleDeliveryFailed.
LEMMA DeliveryFailedDaemon ==
  ASSUME DaemonInv, HandleBundleDeliveryFailed, UNCHANGED <<routingVars, envVars>>
  PROVE  DaemonInv' /\ (bpa' = "up" => Remembers)
<1>1. PICK h : h = Head(bpaMail)
  OBVIOUS
<1>2. PICK r, e : r = h.bundle /\ e = h.endpoint
  OBVIOUS
<1>3. PICK q, pend : q = <<r>> \o local_bundles[e] /\ pend = Retain(pending_local[e], r)
  OBVIOUS
<1>4. /\ Receives("EventBundleDeliveryFailed")
      /\ pending_local' = [pending_local EXCEPT ![e] = pend]
      /\ local_bundles' = [local_bundles EXCEPT ![e] = q]
      /\ UNCHANGED <<fixedVars, finished, bsaMail, bpa, reports, local_connections,
                     actor, actorMail, remoteVars>>
  BY <1>1, <1>2, <1>3 DEF HandleBundleDeliveryFailed
<1>5. e \in Endpoints /\ r \in ForClients
  BY <1>1, <1>2, <1>4, ReceivedIs, EventOf
<1>6. /\ local_bundles[e] \in Seq(ForClients) /\ pending_local[e] \in Seq(ForClients)
      /\ local_connections' \in [Endpoints -> Clients \cup {None}]
  BY <1>4, <1>5 DEF DaemonInv, QueuesInv
<1>7. q \in Seq(ForClients) /\ Pbs(q) = {r.pb} \cup Pbs(local_bundles[e])
  BY <1>3, <1>5, <1>6, PbsFront
<1>8. pend \in Seq(ForClients) /\ Pbs(pend) = Pbs(pending_local[e]) \ {r.pb}
  BY <1>3, <1>6, RetainHas
<1>9. /\ Pbs(local_bundles[e]) \cup Pbs(pending_local[e]) \subseteq Pbs(q) \cup Pbs(pend)
      /\ h.bundle.pb \in Pbs(q)
  BY <1>2, <1>7, <1>8
<1> QED
  BY <1>1, <1>4, <1>5, <1>6, <1>7, <1>8, <1>9, LocalChange

\* EventClientDisconnected.
LEMMA ClientDisconnectedDaemon ==
  ASSUME DaemonInv, HandleClientDisconnected, UNCHANGED <<routingVars, envVars>>
  PROVE  DaemonInv' /\ (bpa' = "up" => Remembers)
<1>1. PICK h : h = Head(bpaMail)
  OBVIOUS
<1>2. PICK e : e = h.destination
  OBVIOUS
<1>3. /\ Receives("EventClientDisconnected")
      /\ local_connections' = [local_connections EXCEPT ![e] = None]
      /\ UNCHANGED <<fixedVars, finished, bsaMail, bpa, reports, local_bundles,
                     pending_local, actor, actorMail, remoteVars>>
  BY <1>1, <1>2 DEF HandleClientDisconnected
<1>4. e \in Endpoints /\ "bundle" \notin DOMAIN h
  BY <1>1, <1>2, <1>3, ReceivedIs, EventOf
<1>5. /\ local_bundles[e] \in Seq(ForClients) /\ pending_local[e] \in Seq(ForClients)
      /\ local_connections' \in [Endpoints -> Clients \cup {None}]
      /\ local_bundles' = [local_bundles EXCEPT ![e] = local_bundles[e]]
      /\ pending_local' = [pending_local EXCEPT ![e] = pending_local[e]]
  BY <1>3, <1>4 DEF DaemonInv, QueuesInv
<1>6. Pbs(local_bundles[e]) \cup Pbs(pending_local[e])
        \subseteq Pbs(local_bundles[e]) \cup Pbs(pending_local[e])
  OBVIOUS
<1> QED
  BY <1>1, <1>3, <1>4, <1>5, <1>6, LocalChange

\* A handler that ends with passes over remote queues.
LEMMA RemoteAgent ==
  ASSUME DaemonInv,
         UNCHANGED <<fixedVars, finished, bpa, localVars, routingVars, envVars>>,
         NEW type, Receives(type), NEW h, h = Head(bpaMail),
         NEW st, NEW nst, Carries(st, nst), NEW msgs \in Seq(Requests),
         SetRemote(nst, msgs), reports' \in Nat,
         \A p : RemoteWaits(p) => p \in Carried(st) \cup finished,
         "bundle" \in DOMAIN h => h.bundle.pb \in Carried(st) \cup finished
  PROVE  DaemonInv' /\ (bpa' = "up" => Remembers)
<1>1. UNCHANGED <<validated, finished>>
  BY DEF fixedVars
<1>2. /\ finished \subseteq finished' /\ finished' \subseteq PrimaryBlocks
      /\ \A p \in finished' \ finished : ~(Local(p) /\ HeaderOf(p).fragment)
  BY <1>1, SameFinished
<1>3. Grows
  BY <1>2, OutsideStep
<1>4. QueuesInv' /\ bpa' \in {"up", "panicked"}
  BY <1>3, QueuesStay DEF DaemonInv, MailInv
<1>5. PassOK(nst) /\ Carried(st) \subseteq Carried(nst)
  BY DEF Carries
<1>6. RemoteInv' /\ bsaMail' \in Seq(Requests')
  BY <1>1, <1>5, SetRemoteKeeps DEF DaemonInv
<1>7. Pbs(bsaMail) \subseteq Pbs(bsaMail') /\ Pbs(nst.split) \subseteq Pbs(bsaMail')
  <2>1. PICK split : split = nst.split
    OBVIOUS
  <2>2. split \in Seq(Requests)
    <3>1. split \in Seq(Splits)
      BY <1>5, <2>1 DEF PassOK
    <3>2. Splits \subseteq Requests
      BY DEF Splits
    <3> QED
      BY <3>1, <3>2, SeqMonotonic
  <2>3. PICK all : all = msgs \o split
    OBVIOUS
  <2>4. all \in Seq(Requests) /\ Pbs(all) = Pbs(msgs) \cup Pbs(split)
    BY <2>2, <2>3, PbsConcat, ConcatProperties
  <2>5. bsaMail' = bsaMail \o all
    BY <2>1, <2>3 DEF SetRemote, Send
  <2>6. Pbs(bsaMail \o all) = Pbs(bsaMail) \cup Pbs(all)
    BY <2>4, PbsConcat DEF DaemonInv, MailInv
  <2>7. Pbs(bsaMail') = Pbs(bsaMail) \cup Pbs(all)
    BY <2>5, <2>6, Zenon
  <2> QED
    BY <2>1, <2>4, <2>7, Zenon
<1>8. remote_bundles' = nst.queues /\ pending_remote' = nst.pending
  BY DEF SetRemote
<1>9. ASSUME NEW p, p \in Carried(st) \cup finished
      PROVE  Noted(p)'
  <2>1. CASE p \in finished
    BY <1>1, <2>1 DEF Noted
  <2>2. CASE p \in Carried(nst)
    <3>1. CASE p \in Pbs(nst.split)
      BY <1>7, <3>1 DEF Noted
    <3>2. ASSUME NEW n \in Nodes, p \in Pbs(nst.queues[n]) \/ p \in Pbs(nst.pending[n])
          PROVE  Noted(p)'
      <4>1. p \in Pbs(remote_bundles'[n]) \/ p \in Pbs(pending_remote'[n])
        BY <1>8, <3>2
      <4> QED
        BY <4>1 DEF Noted, RemoteWaits
    <3> QED
      BY <2>2, <3>1, <3>2, CarriedHas
  <2> QED
    BY <1>5, <1>9, <2>1, <2>2
<1>10. ASSUME NEW p, LocalWaits(p)
       PROVE  Noted(p)'
  <2>1. UNCHANGED <<local_bundles, pending_local>>
    BY DEF localVars
  <2> QED
    BY <1>10, <2>1, StillWaits DEF Noted
<1> QED
  BY <1>2, <1>4, <1>6, <1>7, <1>9, <1>10, AgentStep

\* The state the passes start from: that of the agent, with new connections or routes.
LEMMA FreshState ==
  ASSUME RemoteInv, NEW conns \in [Nodes -> Sessions \cup {None}],
         NEW table \in [Nodes -> KnownRoutes],
         NEW st, st = [queues |-> remote_bundles, pending |-> pending_remote,
                       mail |-> sessionMail, conns |-> conns, routes |-> table,
                       split |-> <<>>]
  PROVE  PassOK(st) /\ \A p : RemoteWaits(p) => p \in Carried(st)
<1>1. <<>> \in Seq(Splits)
  BY EmptySeq
<1>2. st \in [queues : [Nodes -> Seq(ForPeers)], pending : [Nodes -> Seq(ForPeers)],
              mail : [Sessions -> Seq(ForPeers)], conns : [Nodes -> Sessions \cup {None}],
              routes : [Nodes -> KnownRoutes], split : Seq(Splits)]
  BY <1>1 DEF RemoteInv
<1>3. PassOK(st)
  BY <1>2 DEF RemoteInv, PassOK
<1>4. st.queues = remote_bundles /\ st.pending = pending_remote
  OBVIOUS
<1>5. \A p : RemoteWaits(p) => p \in Carried(st)
  BY <1>4, CarriedHas, Zenon DEF RemoteWaits
<1> QED
  BY <1>3, <1>5

\* Or with a new queue and new pending bundles for one node.
Requeues(st, n, q, pend) ==
  st = [queues |-> [remote_bundles EXCEPT ![n] = q],
        pending |-> [pending_remote EXCEPT ![n] = pend],
        mail |-> sessionMail, conns |-> remote_connections,
        routes |-> remote_routes, split |-> <<>>]

\* It carries what is in them.
LEMMA QueuedState ==
  ASSUME RemoteInv, NEW n \in Nodes, NEW q \in Seq(ForPeers), NEW pend \in Seq(ForPeers),
         NEW st, Requeues(st, n, q, pend),
         Pbs(remote_bundles[n]) \cup Pbs(pending_remote[n])
           \subseteq Pbs(q) \cup Pbs(pend) \cup finished
  PROVE  /\ PassOK(st) /\ Pbs(q) \cup Pbs(pend) \subseteq Carried(st)
         /\ \A p : RemoteWaits(p) => p \in Carried(st) \cup finished
<1>0. PICK queues, pending :
        /\ queues = [remote_bundles EXCEPT ![n] = q]
        /\ pending = [pending_remote EXCEPT ![n] = pend]
        /\ st = [queues |-> queues, pending |-> pending, mail |-> sessionMail,
                 conns |-> remote_connections, routes |-> remote_routes, split |-> <<>>]
  BY Zenon DEF Requeues
<1>1. <<>> \in Seq(Splits)
  BY EmptySeq
<1>2. /\ queues \in [Nodes -> Seq(ForPeers)] /\ pending \in [Nodes -> Seq(ForPeers)]
      /\ queues[n] = q /\ pending[n] = pend
      /\ \A z \in Nodes : z # n => queues[z] = remote_bundles[z] /\ pending[z] = pending_remote[z]
  BY <1>0 DEF RemoteInv
<1>3. st \in [queues : [Nodes -> Seq(ForPeers)], pending : [Nodes -> Seq(ForPeers)],
              mail : [Sessions -> Seq(ForPeers)], conns : [Nodes -> Sessions \cup {None}],
              routes : [Nodes -> KnownRoutes], split : Seq(Splits)]
  BY <1>0, <1>1, <1>2 DEF RemoteInv
<1>4. PassOK(st)
  BY <1>0, <1>3 DEF RemoteInv, PassOK
<1>5. st.queues = queues /\ st.pending = pending
  BY <1>0
<1>6. ASSUME NEW z \in Nodes, NEW p, p \in Pbs(queues[z]) \cup Pbs(pending[z])
      PROVE  p \in Carried(st)
  <2>1. p \in Pbs(st.queues[z]) \/ p \in Pbs(st.pending[z])
    BY <1>5, <1>6, Zenon
  <2> QED
    BY <2>1, CarriedHas
<1>7. Pbs(q) \cup Pbs(pend) \subseteq Carried(st)
  BY <1>2, <1>6, Zenon
<1>8. ASSUME NEW p, RemoteWaits(p)
      PROVE  p \in Carried(st) \cup finished
  <2>1. PICK z \in Nodes : p \in Pbs(remote_bundles[z]) \/ p \in Pbs(pending_remote[z])
    BY <1>8 DEF RemoteWaits
  <2>2. CASE z = n
    BY <1>7, <2>1, <2>2, Zenon
  <2>3. CASE z # n
    <3>1. p \in Pbs(queues[z]) \cup Pbs(pending[z])
      BY <1>2, <2>1, <2>3, Zenon
    <3> QED
      BY <1>6, <3>1
  <2> QED
    BY <2>2, <2>3
<1> QED
  BY <1>4, <1>7, <1>8

\* EventBundleUpdated, for a bundle to forward.
LEMMA ForwardingQueuedDaemon ==
  ASSUME DaemonInv, HandleForwardingQueued, UNCHANGED <<routingVars, envVars>>
  PROVE  DaemonInv' /\ (bpa' = "up" => Remembers)
<1>1. PICK h : h = Head(bpaMail)
  OBVIOUS
<1>2. PICK r : r = h.bundle
  OBVIOUS
<1>3. PICK n : n = HeaderOf(r.pb).dest
  OBVIOUS
<1>4. PICK st : st = [RemoteState EXCEPT !.queues[n] = Append(@, r)]
  OBVIOUS
<1>5. PICK nst : nst = DeliverRemote(st, n)
  OBVIOUS
<1>6. /\ Receives("EventBundleUpdated") /\ r.state = "ForwardingQueued"
      /\ SetRemote(nst, <<>>)
      /\ UNCHANGED <<fixedVars, finished, bpa, reports, localVars>>
  BY <1>1, <1>2, <1>3, <1>4, <1>5, Zenon DEF HandleForwardingQueued
<1>7. r \in Sound
  BY <1>1, <1>2, <1>6, ReceivedIs, EventOf
<1>8. r \in ForPeers /\ n \in Nodes
  <2>1. r \in StoredBundles /\ r.pb \in PrimaryBlocks /\ r.pb \in validated /\ ~Local(r.pb)
    BY <1>6, <1>7 DEF Sound, StoredBundles
  <2> QED
    BY <1>3, <2>1, DestType DEF ForPeers
<1>9. /\ remote_bundles[n] \in Seq(ForPeers) /\ pending_remote[n] \in Seq(ForPeers)
      /\ reports \in Nat /\ RemoteInv
  BY <1>8 DEF DaemonInv, RemoteInv, MailInv
<1>10. PICK q : q = Append(remote_bundles[n], r)
  OBVIOUS
<1>11. q \in Seq(ForPeers) /\ Pbs(q) = Pbs(remote_bundles[n]) \cup {r.pb}
  <2>1. /\ Append(remote_bundles[n], r) \in Seq(ForPeers)
        /\ Pbs(Append(remote_bundles[n], r)) = Pbs(remote_bundles[n]) \cup {r.pb}
    BY <1>8, <1>9, AppendProperties, PbsAppend
  <2> QED
    BY <1>10, <2>1, Zenon
<1>13. Requeues(st, n, q, pending_remote[n])
  <2>1. [pending_remote EXCEPT ![n] = pending_remote[n]] = pending_remote
    BY <1>9 DEF RemoteInv
  <2> QED
    BY <1>4, <1>10, <2>1 DEF RemoteState, Requeues
<1>14. Pbs(remote_bundles[n]) \cup Pbs(pending_remote[n])
         \subseteq Pbs(q) \cup Pbs(pending_remote[n]) \cup finished
  BY <1>11
<1>15. /\ PassOK(st) /\ Pbs(q) \cup Pbs(pending_remote[n]) \subseteq Carried(st)
       /\ \A p : RemoteWaits(p) => p \in Carried(st) \cup finished
  BY <1>8, <1>9, <1>11, <1>13, <1>14, QueuedState
<1>16. Carries(st, nst)
  BY <1>5, <1>8, <1>15, DeliverKeeps
<1>17. PICK msgs \in Seq(Requests) : msgs = <<>>
  BY EmptySeq
<1>18. /\ SetRemote(nst, msgs) /\ reports' \in Nat
       /\ h.bundle.pb \in Carried(st) \cup finished
  BY <1>2, <1>6, <1>9, <1>11, <1>15, <1>17
<1> QED
  BY <1>1, <1>6, <1>15, <1>16, <1>17, <1>18, RemoteAgent

\* EventBundleForwarded.
LEMMA ForwardedDaemon ==
  ASSUME DaemonInv, HandleBundleForwarded, UNCHANGED <<routingVars, envVars>>
  PROVE  DaemonInv' /\ (bpa' = "up" => Remembers)
<1>1. PICK h : h = Head(bpaMail)
  OBVIOUS
<1>2. PICK r, n : r = h.bundle /\ n = h.endpoint
  OBVIOUS
<1>3. PICK report : report = StatusReport(r, "forwarded")
  OBVIOUS
<1>4. PICK u : u = UpdateBundle(r.pb, "Forwarded", -1)
  OBVIOUS
<1>5. PICK st : st = [RemoteState EXCEPT !.pending[n] = Retain(@, r)]
  OBVIOUS
<1>6. PICK nst : nst = DeliverRemote(st, n)
  OBVIOUS
<1>7. /\ Receives("EventBundleForwarded")
      /\ SetRemote(nst, report \o <<u>>) /\ CountReports(report)
      /\ UNCHANGED <<fixedVars, finished, bpa, localVars>>
  BY <1>1, <1>2, <1>3, <1>4, <1>5, <1>6, Zenon DEF HandleBundleForwarded
<1>8. n \in Nodes /\ r \in ForPeers /\ r.pb \in finished
  BY <1>1, <1>2, <1>7, ReceivedIs, EventOf
<1>9. /\ remote_bundles[n] \in Seq(ForPeers) /\ pending_remote[n] \in Seq(ForPeers)
      /\ reports \in Nat /\ RemoteInv
  BY <1>8 DEF DaemonInv, RemoteInv, MailInv
<1>10. PICK pend : pend = Retain(pending_remote[n], r)
  OBVIOUS
<1>11. pend \in Seq(ForPeers) /\ Pbs(pend) = Pbs(pending_remote[n]) \ {r.pb}
  BY <1>9, <1>10, RetainHas
<1>12. PICK q \in Seq(ForPeers) : q = remote_bundles[n]
  BY <1>9
<1>13. Requeues(st, n, q, pend)
  <2>1. [remote_bundles EXCEPT ![n] = q] = remote_bundles
    BY <1>9, <1>12 DEF RemoteInv
  <2> QED
    BY <1>5, <1>10, <2>1 DEF RemoteState, Requeues
<1>14. Pbs(remote_bundles[n]) \cup Pbs(pending_remote[n])
         \subseteq Pbs(q) \cup Pbs(pend) \cup finished
  BY <1>8, <1>11, <1>12
<1>15. /\ PassOK(st) /\ Pbs(q) \cup Pbs(pend) \subseteq Carried(st)
       /\ \A p : RemoteWaits(p) => p \in Carried(st) \cup finished
  BY <1>8, <1>9, <1>11, <1>13, <1>14, QueuedState
<1>16. Carries(st, nst)
  BY <1>6, <1>8, <1>15, DeliverKeeps
<1>17. r \in StoredBundles /\ r.pb \in PrimaryBlocks
  BY <1>8 DEF ForPeers, StoredBundles
<1>18. report \in Seq(Requests) /\ Len(report) \in Nat
  BY <1>3, <1>9, <1>17, ReportRequest
<1>19. u \in Requests
  BY <1>4, <1>8, <1>17, UpdateRequest DEF States, Final
<1>20. PICK msgs \in Seq(Requests) : msgs = report \o <<u>>
  BY <1>18, <1>19, OneMore
<1>21. /\ SetRemote(nst, msgs) /\ reports' \in Nat
       /\ h.bundle.pb \in Carried(st) \cup finished
  <2>1. reports' \in Nat
    BY <1>7, <1>9, <1>18, Counted
  <2> QED
    BY <1>2, <1>7, <1>8, <1>20, <2>1
<1> QED
  BY <1>1, <1>7, <1>15, <1>16, <1>20, <1>21, RemoteAgent

\* EventPeerConnected.
LEMMA PeerConnectedDaemon ==
  ASSUME DaemonInv, HandlePeerConnected, UNCHANGED <<routingVars, envVars>>
  PROVE  DaemonInv' /\ (bpa' = "up" => Remembers)
<1>1. PICK h : h = Head(bpaMail)
  OBVIOUS
<1>2. PICK n, s : n = h.destination /\ s = h.sender
  OBVIOUS
<1>3. PICK st : st = [RemoteState EXCEPT !.conns[n] = s]
  OBVIOUS
<1>4. PICK nst : nst = DeliverRemote(st, n)
  OBVIOUS
<1>5. /\ Receives("EventPeerConnected") /\ SetRemote(nst, <<>>)
      /\ UNCHANGED <<fixedVars, finished, bpa, reports, localVars>>
  BY <1>1, <1>2, <1>3, <1>4, Zenon DEF HandlePeerConnected
<1>6. n \in Nodes /\ s \in Sessions /\ "bundle" \notin DOMAIN h
  BY <1>1, <1>2, <1>5, ReceivedIs, EventOf
<1>7. PICK conns : conns = [remote_connections EXCEPT ![n] = s]
  OBVIOUS
<1>8. /\ conns \in [Nodes -> Sessions \cup {None}] /\ remote_routes \in [Nodes -> KnownRoutes]
      /\ RemoteInv /\ reports \in Nat
  BY <1>6, <1>7 DEF DaemonInv, RemoteInv, MailInv
<1>9. st = [queues |-> remote_bundles, pending |-> pending_remote, mail |-> sessionMail,
            conns |-> conns, routes |-> remote_routes, split |-> <<>>]
  BY <1>3, <1>7 DEF RemoteState
<1>10. PassOK(st) /\ \A p : RemoteWaits(p) => p \in Carried(st)
  BY <1>8, <1>9, FreshState
<1>11. Carries(st, nst)
  BY <1>4, <1>6, <1>10, DeliverKeeps
<1>12. PICK msgs \in Seq(Requests) : msgs = <<>>
  BY EmptySeq
<1>13. /\ SetRemote(nst, msgs) /\ reports' \in Nat
       /\ \A p : RemoteWaits(p) => p \in Carried(st) \cup finished
  BY <1>5, <1>8, <1>10, <1>12
<1> QED
  BY <1>1, <1>5, <1>6, <1>11, <1>12, <1>13, RemoteAgent

\* EventBundleForwardingFailed and EventPeerDisconnected: no pass follows.
LEMMA RemoteChange ==
  ASSUME DaemonInv,
         UNCHANGED <<fixedVars, finished, bsaMail, bpa, reports, localVars, remote_routes,
                     session, sessionMail, inFlight, routingVars, envVars>>,
         NEW type, Receives(type), NEW h, h = Head(bpaMail), NEW n \in Nodes,
         NEW q \in Seq(ForPeers), NEW pend \in Seq(ForPeers),
         remote_bundles' = [remote_bundles EXCEPT ![n] = q],
         pending_remote' = [pending_remote EXCEPT ![n] = pend],
         remote_connections' \in [Nodes -> Sessions \cup {None}],
         Pbs(remote_bundles[n]) \cup Pbs(pending_remote[n]) \subseteq Pbs(q) \cup Pbs(pend),
         "bundle" \in DOMAIN h => h.bundle.pb \in Pbs(q)
  PROVE  DaemonInv' /\ (bpa' = "up" => Remembers)
<1>1. UNCHANGED <<validated, finished>>
  BY DEF fixedVars
<1>2. /\ finished \subseteq finished' /\ finished' \subseteq PrimaryBlocks
      /\ \A p \in finished' \ finished : ~(Local(p) /\ HeaderOf(p).fragment)
      /\ Requests' = Requests /\ ForPeers' = ForPeers
  BY <1>1, SameFinished
<1>3. Grows
  BY <1>2, OutsideStep
<1>4. /\ QueuesInv' /\ bpa' \in {"up", "panicked"} /\ bsaMail' \in Seq(Requests')
      /\ reports' \in Nat
  BY <1>2, <1>3, QueuesStay DEF DaemonInv, MailInv
<1>5. /\ remote_bundles \in [Nodes -> Seq(ForPeers)]
      /\ pending_remote \in [Nodes -> Seq(ForPeers)]
  BY DEF DaemonInv, RemoteInv
<1>6. /\ remote_bundles' \in [Nodes -> Seq(ForPeers)] /\ remote_bundles'[n] = q
      /\ pending_remote' \in [Nodes -> Seq(ForPeers)] /\ pending_remote'[n] = pend
      /\ \A d \in Nodes : d # n => /\ remote_bundles'[d] = remote_bundles[d]
                                   /\ pending_remote'[d] = pending_remote[d]
  BY <1>5
<1>7. RemoteInv'
  BY <1>2, <1>6 DEF DaemonInv, RemoteInv
<1>8. ASSUME NEW p, p \in Pbs(q) \cup Pbs(pend)
      PROVE  Noted(p)'
  BY <1>6, <1>8 DEF Noted, RemoteWaits
<1>9. ASSUME NEW p, RemoteWaits(p)
      PROVE  Noted(p)'
  <2>1. PICK d \in Nodes : p \in Pbs(remote_bundles[d]) \/ p \in Pbs(pending_remote[d])
    BY <1>9 DEF RemoteWaits
  <2>2. CASE d = n
    BY <1>8, <2>1, <2>2
  <2>3. CASE d # n
    <3>1. p \in Pbs(remote_bundles'[d]) \/ p \in Pbs(pending_remote'[d])
      BY <1>6, <2>1, <2>3
    <3> QED
      BY <3>1 DEF Noted, RemoteWaits
  <2> QED
    BY <2>2, <2>3
<1>10. ASSUME NEW p, LocalWaits(p)
       PROVE  Noted(p)'
  <2>1. UNCHANGED <<local_bundles, pending_local>>
    BY DEF localVars
  <2> QED
    BY <1>10, <2>1, StillWaits DEF Noted
<1>11. Pbs(bsaMail) \subseteq Pbs(bsaMail')
  OBVIOUS
<1> QED
  BY <1>2, <1>4, <1>7, <1>8, <1>9, <1>10, <1>11, AgentStep

\* EventBundleForwardingFailed.
LEMMA ForwardingFailedDaemon ==
  ASSUME DaemonInv, HandleBundleForwardingFailed, UNCHANGED <<routingVars, envVars>>
  PROVE  DaemonInv' /\ (bpa' = "up" => Remembers)
<1>1. PICK h : h = Head(bpaMail)
  OBVIOUS
<1>2. PICK r, n : r = h.bundle /\ n = h.endpoint
  OBVIOUS
<1>3. PICK q, pend : q = <<r>> \o remote_bundles[n] /\ pend = Retain(pending_remote[n], r)
  OBVIOUS
<1>4. /\ Receives("EventBundleForwardingFailed")
      /\ pending_remote' = [pending_remote EXCEPT ![n] = pend]
      /\ remote_bundles' = [remote_bundles EXCEPT ![n] = q]
      /\ UNCHANGED <<fixedVars, finished, bsaMail, bpa, reports, localVars,
                     remote_connections, remote_routes, session, sessionMail, inFlight>>
  BY <1>1, <1>2, <1>3 DEF HandleBundleForwardingFailed
<1>5. n \in Nodes /\ r \in ForPeers
  BY <1>1, <1>2, <1>4, ReceivedIs, EventOf
<1>6. /\ remote_bundles[n] \in Seq(ForPeers) /\ pending_remote[n] \in Seq(ForPeers)
      /\ remote_connections' \in [Nodes -> Sessions \cup {None}]
  BY <1>4, <1>5 DEF DaemonInv, RemoteInv
<1>7. q \in Seq(ForPeers) /\ Pbs(q) = {r.pb} \cup Pbs(remote_bundles[n])
  BY <1>3, <1>5, <1>6, PbsFront
<1>8. pend \in Seq(ForPeers) /\ Pbs(pend) = Pbs(pending_remote[n]) \ {r.pb}
  BY <1>3, <1>6, RetainHas
<1>9. /\ Pbs(remote_bundles[n]) \cup Pbs(pending_remote[n]) \subseteq Pbs(q) \cup Pbs(pend)
      /\ h.bundle.pb \in Pbs(q)
  BY <1>2, <1>7, <1>8
<1> QED
  BY <1>1, <1>4, <1>5, <1>6, <1>7, <1>8, <1>9, RemoteChange

\* EventPeerDisconnected.
LEMMA PeerDisconnectedDaemon ==
  ASSUME DaemonInv, HandlePeerDisconnected, UNCHANGED <<routingVars, envVars>>
  PROVE  DaemonInv' /\ (bpa' = "up" => Remembers)
<1>1. PICK h : h = Head(bpaMail)
  OBVIOUS
<1>2. PICK n : n = h.destination
  OBVIOUS
<1>3. /\ Receives("EventPeerDisconnected")
      /\ remote_connections' = [remote_connections EXCEPT ![n] = None]
      /\ UNCHANGED <<fixedVars, finished, bsaMail, bpa, reports, localVars,
                     remote_bundles, pending_remote, remote_routes, session, sessionMail,
                     inFlight>>
  BY <1>1, <1>2 DEF HandlePeerDisconnected
<1>4. n \in Nodes /\ "bundle" \notin DOMAIN h
  BY <1>1, <1>2, <1>3, ReceivedIs, EventOf
<1>5. /\ remote_bundles[n] \in Seq(ForPeers) /\ pending_remote[n] \in Seq(ForPeers)
      /\ remote_connections' \in [Nodes -> Sessions \cup {None}]
      /\ remote_bundles' = [remote_bundles EXCEPT ![n] = remote_bundles[n]]
      /\ pending_remote' = [pending_remote EXCEPT ![n] = pending_remote[n]]
  BY <1>3, <1>4 DEF DaemonInv, RemoteInv
<1>6. Pbs(remote_bundles[n]) \cup Pbs(pending_remote[n])
        \subseteq Pbs(remote_bundles[n]) \cup Pbs(pending_remote[n])
  OBVIOUS
<1> QED
  BY <1>1, <1>3, <1>4, <1>5, <1>6, RemoteChange

\* EventRoutingTableUpdate.
LEMMA RoutingTableDaemon ==
  ASSUME DaemonInv, HandleRoutingTableUpdate, UNCHANGED <<routingVars, envVars>>
  PROVE  DaemonInv' /\ (bpa' = "up" => Remembers)
<1>1. PICK h : h = Head(bpaMail)
  OBVIOUS
<1>2. PICK new : new = h.routes
  OBVIOUS
<1>3. PICK added, updated :
        /\ added = {n \in Nodes : new[n] # None /\ remote_routes[n] = None}
        /\ updated = {n \in Nodes : new[n] # None /\ remote_routes[n] # None}
  OBVIOUS
<1>4. PICK st : st = [RemoteState EXCEPT !.routes = new]
  OBVIOUS
<1>5. /\ Receives("EventRoutingTableUpdate")
      /\ \E a \in SetToSeqs(added), u \in SetToSeqs(updated) :
           SetRemote(Passes(st, a \o u), <<>>)
      /\ UNCHANGED <<fixedVars, finished, bpa, reports, localVars>>
  BY <1>1, <1>2, <1>3, <1>4, Zenon DEF HandleRoutingTableUpdate
<1>6. PICK a \in SetToSeqs(added), u \in SetToSeqs(updated) :
        SetRemote(Passes(st, a \o u), <<>>)
  BY <1>5
<1>7. ASSUME NEW S \in SUBSET Nodes, NEW s \in SetToSeqs(S)
      PROVE  s \in Seq(Nodes)
  <2>1. IsFiniteSet(S)
    BY FS_Subset, DtrdAssumption
  <2>2. PICK N \in Nat : N = Cardinality(S)
    BY <2>1, FS_CardinalityType
  <2>3. s \in [1..N -> Nodes]
    BY <1>7, <2>2 DEF SetToSeqs
  <2> QED
    BY <2>3, SeqDef
<1>8. a \in Seq(Nodes) /\ u \in Seq(Nodes)
  <2>1. added \in SUBSET Nodes /\ updated \in SUBSET Nodes
    BY <1>3
  <2> QED
    BY <1>6, <1>7, <2>1
<1>9. PICK order \in Seq(Nodes) : order = a \o u
  BY <1>8, ConcatProperties
<1>10. PICK nst : nst = Passes(st, order)
  OBVIOUS
<1>11. new \in [Nodes -> KnownRoutes] /\ "bundle" \notin DOMAIN h
  BY <1>1, <1>2, <1>5, ReceivedIs, EventOf
<1>12. /\ remote_connections \in [Nodes -> Sessions \cup {None}]
       /\ RemoteInv /\ reports \in Nat
  BY DEF DaemonInv, RemoteInv, MailInv
<1>13. st = [queues |-> remote_bundles, pending |-> pending_remote, mail |-> sessionMail,
             conns |-> remote_connections, routes |-> new, split |-> <<>>]
  BY <1>4 DEF RemoteState
<1>14. PassOK(st) /\ \A p : RemoteWaits(p) => p \in Carried(st)
  BY <1>11, <1>12, <1>13, FreshState
<1>15. Carries(st, nst)
  BY <1>10, <1>14, PassesKeep
<1>16. PICK msgs \in Seq(Requests) : msgs = <<>>
  BY EmptySeq
<1>17. SetRemote(nst, msgs)
  BY <1>6, <1>9, <1>10, <1>16, Zenon
<1>18. reports' \in Nat /\ \A p : RemoteWaits(p) => p \in Carried(st) \cup finished
  BY <1>5, <1>12, <1>14
<1> QED
  BY <1>1, <1>5, <1>11, <1>15, <1>16, <1>17, <1>18, RemoteAgent

\* Every handler of the protocol agent keeps the invariant, and forgets no bundle.
LEMMA ProtocolAgentDaemon ==
  ASSUME DaemonInv, ProtocolAgentStep
  PROVE  DaemonInv' /\ (bpa' = "up" => Remembers)
<1>1. HandleProtocolMessage /\ UNCHANGED <<routingVars, envVars>>
  BY DEF ProtocolAgentStep
<1> QED
  BY <1>1, ReceivedDaemon, ValidLocalDaemon, ValidRemoteDaemon, HopLimitDaemon,
     DanglingDaemon, DeliveryQueuedDaemon, ForwardingQueuedDaemon, DeliveredDaemon,
     DeliveryFailedDaemon, ForwardedDaemon, ForwardingFailedDaemon, ClientConnectedDaemon,
     ClientDisconnectedDaemon, PeerConnectedDaemon, PeerDisconnectedDaemon,
     RoutingTableDaemon DEF HandleProtocolMessage

\* Every step keeps the invariant.
LEMMA NextDaemon ==
  ASSUME DaemonInv, [Next]_vars
  PROVE  DaemonInv'
<1>1. CASE UNCHANGED vars
  <2>1. UNCHANGED <<bpaMail, fixedVars, finished, bsaMail, bpa, reports, localVars,
                    remoteVars, routingVars, envVars>>
    BY <1>1 DEF vars, fixedVars, historyVars
  <2>2. Grows /\ Inv' /\ HInv' /\ UNCHANGED bundles
    BY <2>1, QuietStep
  <2>3. UNCHANGED <<validated, finished>> /\ UNCHANGED <<clientVars, answers>>
    BY <2>1 DEF fixedVars, envVars
  <2>4. MailInv'
    <3>1. /\ bsaMail' \in Seq(Requests') /\ bpaMail' \in Seq(Events')
          /\ answers' \subseteq Forwardings' /\ reports' \in Nat /\ bpa' \in {"up", "panicked"}
      BY <2>1, <2>2, <2>3, MailGrows DEF DaemonInv
    <3> QED
      BY <2>2, <2>3, <3>1, MailStep DEF DaemonInv
  <2> QED
    BY <2>1, <2>2, <2>3, <2>4, QueuesStay, StreamsStay, RemoteStays, RoutingStays
       DEF DaemonInv
<1>2. CASE StorageAgentStep \/ StartStorageAgent \/ ProtocolAgentStep \/ CrashDaemon
  BY <1>2, StorageAgentDaemon, StartDaemon, ProtocolAgentDaemon, CrashDaemonInv
<1>3. ASSUME NEW b \in Bundles, SubmitBundle(b) \/ ReceiveTransfer(b)
      PROVE  DaemonInv'
  BY <1>3, ArrivesDaemon DEF SubmitBundle, ReceiveTransfer
<1>4. ASSUME NEW c \in Clients, ClientStep(c)
      PROVE  DaemonInv'
  BY <1>4, ListenConnectDaemon, PollStreamDaemon, DropStreamDaemon, ActorDaemon
     DEF ClientStep
<1>5. ASSUME NEW s \in Sessions, SessionStep(s)
      PROVE  DaemonInv'
  BY <1>5, PeerConnectDaemon, TakeDaemon, ResultDaemon, EndSessionDaemon DEF SessionStep
<1>6. ASSUME NEW m \in answers, Answer(m)
      PROVE  DaemonInv'
  BY <1>6, AnswerDaemon
<1>7. ASSUME NEW r \in StaticRoutes,
             ChangeRoute(AddRoute(r)) \/ ChangeRoute(RemoveRoute(r))
      PROVE  DaemonInv'
  <2>1. PICK m : (m = AddRoute(r) \/ m = RemoveRoute(r)) /\ ChangeRoute(m)
    BY <1>7, Zenon
  <2> QED
    BY <2>1, ChangeRouteDaemon
<1>8. CASE RoutingAgentStep
  BY <1>8, RoutingDaemon
<1>9. Submitted \subseteq Bundles /\ Incoming \subseteq Bundles /\ Removable \subseteq StaticRoutes
  BY DtrdAssumption
<1> QED
  BY <1>1, <1>2, <1>3, <1>4, <1>5, <1>6, <1>7, <1>8, <1>9 DEF Next

\* The invariant holds in every reachable state.
LEMMA Invariance == Spec => []DaemonInv
<1>1. Init => DaemonInv
  BY InitDaemon
<1>2. DaemonInv /\ [Next]_vars => DaemonInv'
  BY NextDaemon
<1> QED
  BY <1>1, <1>2, PTL DEF Spec

\* The daemon's state always has its type: every queue, mailbox and connection.
THEOREM TypeCorrect == Spec => []TypeOK
<1>1. DaemonInv => TypeOK
  BY Typed
<1> QED
  BY <1>1, Invariance, PTL

\* No fragment waits for a client: deliver_local_bundles asserts that a bundle it
\* takes from a queue is none ("It should have been reassembled before calling this").
WholeBundles ==
  /\ \A e \in Endpoints : \A i \in 1..Len(local_bundles[e]) :
       ~HeaderOf(local_bundles[e][i].pb).fragment
  /\ \A e \in Endpoints : \A i \in 1..Len(pending_local[e]) :
       ~HeaderOf(pending_local[e][i].pb).fragment
  /\ \A c \in Clients : \A i \in 1..Len(actorMail[c]) :
       actorMail[c][i] = Stop \/ ~HeaderOf(actorMail[c][i].pb).fragment

\* The assertion of deliver_local_bundles holds, also for fragments that arrive while
\* their bundle is delivered, and after a restart.
THEOREM DeliversWholeBundles == Spec => []WholeBundles
<1>1. ASSUME DaemonInv
      PROVE  WholeBundles
  <2>1. /\ local_bundles \in [Endpoints -> Seq(ForClients)]
        /\ pending_local \in [Endpoints -> Seq(ForClients)]
        /\ actorMail \in [Clients -> Seq(ForClients \cup {Stop})]
    BY <1>1 DEF DaemonInv, QueuesInv
  <2>2. ASSUME NEW q \in Seq(ForClients), NEW i \in 1..Len(q)
        PROVE  ~HeaderOf(q[i].pb).fragment
    <3>1. q[i] \in ForClients
      BY <2>2, ElementOfSeq
    <3> QED
      BY <3>1 DEF ForClients
  <2>3. ASSUME NEW q \in Seq(ForClients \cup {Stop}), NEW i \in 1..Len(q)
        PROVE  q[i] = Stop \/ ~HeaderOf(q[i].pb).fragment
    <3>1. q[i] \in ForClients \cup {Stop}
      BY <2>3, ElementOfSeq
    <3> QED
      BY <3>1 DEF ForClients
  <2> QED
    BY <2>1, <2>2, <2>3 DEF WholeBundles
<1> QED
  BY <1>1, Invariance, PTL

-------------------------------------------------------------------------------
(* No stored bundle is forgotten *)

\* The daemon knows what to do with the stored bundle p, or needs more fragments.
Known(p) ==
  \/ Tracked(p) \/ Gone(p)
  \/ /\ Local(p) /\ HeaderOf(p).fragment
     /\ \/ ~Complete(HeaderOf(p).whole)
        \/ \E q \in FragmentsOf(HeaderOf(p).whole) : Tracked(q)

AllKnown == bpa = "up" => \A p \in Held : Known(p)

\* All fragments of a bundle are local, or none is.
LEMMA SiblingsLocal ==
  ASSUME Inv, NEW p \in PrimaryBlocks, HeaderOf(p).fragment,
         NEW q \in FragmentsOf(HeaderOf(p).whole)
  PROVE  q \in Held /\ HeaderOf(q).fragment /\ (Local(p) <=> Local(q))
<1>1. q \in Held /\ HeaderOf(q).fragment /\ HeaderOf(q).whole = HeaderOf(p).whole
  BY DEF FragmentsOf
<1>2. q \in PrimaryBlocks
  <2>1. PICK i \in 1..Len(bundles) : bundles[i].pb = q
    BY <1>1 DEF Held, Pbs
  <2>2. bundles \in Seq(StoredBundles)
    BY DEF Inv, StorageTypeOK
  <2>3. bundles[i] \in StoredBundles
    BY <2>1, <2>2, ElementOfSeq
  <2> QED
    BY <2>1, <2>3 DEF StoredBundles
<1> QED
  BY <1>1, <1>2, SameDest

\* A bundle stays known when it is still tracked, and so are its fragments.
LEMMA KnownStays ==
  ASSUME finished \subseteq finished', replaced \subseteq replaced',
         NEW p, Known(p), Tracked(p) => Known(p)',
         Local(p) /\ HeaderOf(p).fragment =>
           \/ \E q \in FragmentsOf(HeaderOf(p).whole)' : Tracked(q)'
           \/ ~Complete(HeaderOf(p).whole)'
           \/ /\ FragmentsOf(HeaderOf(p).whole)' = FragmentsOf(HeaderOf(p).whole)
              /\ \A q \in FragmentsOf(HeaderOf(p).whole) : Tracked(q) => Tracked(q)'
  PROVE  Known(p)'
<1>1. PICK w : w = HeaderOf(p).whole
  OBVIOUS
<1>2. CASE Tracked(p)
  BY <1>2
<1>3. CASE Gone(p)
  <2>1. Gone(p)'
    BY <1>3 DEF Gone
  <2> QED
    BY <2>1 DEF Known
<1>4. CASE /\ Local(p) /\ HeaderOf(p).fragment
           /\ ~Complete(w) \/ \E q \in FragmentsOf(w) : Tracked(q)
  <2>1. CASE \E q \in FragmentsOf(w)' : Tracked(q)'
    BY <1>1, <1>4, <2>1 DEF Known
  <2>2. CASE ~Complete(w)'
    BY <1>1, <1>4, <2>2 DEF Known
  <2>3. CASE /\ FragmentsOf(w)' = FragmentsOf(w)
             /\ \A q \in FragmentsOf(w) : Tracked(q) => Tracked(q)'
    <3>1. Complete(w)' <=> Complete(w)
      BY <2>3 DEF Complete
    <3> QED
      BY <1>4, <2>1, <2>2, <2>3, <3>1
  <2> QED
    BY <1>1, <1>4, <2>1, <2>2, <2>3
<1> QED
  BY <1>1, <1>2, <1>3, <1>4 DEF Known

\* Steps that leave what is stored alone, and forget nothing.
LEMMA RememberStays ==
  ASSUME DaemonInv, DaemonInv', AllKnown, Held' = Held, replaced' = replaced,
         finished \subseteq finished', bpa' = "up" => Remembers /\ bpa = "up"
  PROVE  AllKnown'
<1>1. SUFFICES ASSUME bpa' = "up", NEW p \in Held'
               PROVE  Known(p)'
  BY DEF AllKnown
<1>2. p \in Held /\ Known(p)
  BY <1>1 DEF AllKnown
<1>3. \A q : Tracked(q) => Tracked(q)' \/ q \in finished'
  BY <1>1 DEF Remembers
<1>4. Tracked(p) => Known(p)'
  BY <1>3 DEF Known, Gone
<1>5. p \in PrimaryBlocks
  <2>1. PICK i \in 1..Len(bundles) : bundles[i].pb = p
    BY <1>2 DEF Held, Pbs
  <2>2. bundles \in Seq(StoredBundles)
    BY DEF DaemonInv, Inv, StorageTypeOK
  <2>3. bundles[i] \in StoredBundles
    BY <2>1, <2>2, ElementOfSeq
  <2> QED
    BY <2>1, <2>3 DEF StoredBundles
<1>6. PICK w : w = HeaderOf(p).whole
  OBVIOUS
<1>7. FragmentsOf(w)' = FragmentsOf(w)
  BY DEF FragmentsOf
<1>8. ASSUME Local(p), HeaderOf(p).fragment, NEW q \in FragmentsOf(w), Tracked(q)
      PROVE  Tracked(q)'
  <2>1. HeaderOf(q).fragment /\ Local(q)
    BY <1>5, <1>6, <1>8, SiblingsLocal DEF DaemonInv
  <2>2. q \notin finished'
    BY <2>1 DEF DaemonInv, MailInv
  <2> QED
    BY <1>3, <1>8, <2>2
<1> QED
  BY <1>2, <1>4, <1>6, <1>7, <1>8, KnownStays

\* More messages and the same queues.
LEMMA MoreMail ==
  ASSUME DaemonInv, UNCHANGED <<local_bundles, pending_local, remote_bundles, pending_remote>>,
         \/ UNCHANGED bsaMail
         \/ \E msgs \in Seq(StorageMessages) : bsaMail' = bsaMail \o msgs,
         UNCHANGED bpaMail \/ \E m : Tell(m)
  PROVE  Remembers
<1>1. SUFFICES ASSUME NEW p, Tracked(p)
               PROVE  Tracked(p)'
  BY DEF Remembers
<1>2. CASE LocalWaits(p) \/ RemoteWaits(p)
  <2>1. (LocalWaits(p) \/ RemoteWaits(p))'
    BY <1>2, StillWaits
  <2>2. (LocalWaits(p) \/ RemoteWaits(p))' => Tracked(p)'
    BY TrackedIs, PTL
  <2> QED
    BY <2>1, <2>2
<1>3. CASE p \in Pbs(bsaMail)
  <2>1. p \in Pbs(bsaMail')
    <3>1. ASSUME NEW msgs \in Seq(StorageMessages), bsaMail' = bsaMail \o msgs
          PROVE  p \in Pbs(bsaMail')
      <4>1. bsaMail \in Seq(StorageMessages)
        BY Typed DEF TypeOK
      <4>2. Pbs(bsaMail \o msgs) = Pbs(bsaMail) \cup Pbs(msgs)
        BY <4>1, PbsConcat
      <4> QED
        BY <1>3, <3>1, <4>2
    <3> QED
      BY <1>3, <3>1
  <2> QED
    BY <2>1 DEF Pbs, Tracked
<1>4. CASE \E i \in 1..Len(bpaMail) :
             "bundle" \in DOMAIN bpaMail[i] /\ bpaMail[i].bundle.pb = p
  <2>1. PICK i \in 1..Len(bpaMail) :
          "bundle" \in DOMAIN bpaMail[i] /\ bpaMail[i].bundle.pb = p
    BY <1>4
  <2>2. i \in 1..Len(bpaMail') /\ bpaMail'[i] = bpaMail[i]
    <3>1. CASE UNCHANGED bpaMail
      BY <3>1
    <3>2. ASSUME NEW m, Tell(m)
          PROVE  i \in 1..Len(bpaMail') /\ bpaMail'[i] = bpaMail[i]
      <4>1. bpaMail \in Seq(Events \cup {m}) /\ m \in Events \cup {m}
        <5>1. bpaMail \in Seq(Events) /\ Events \subseteq Events \cup {m}
          BY DEF DaemonInv, MailInv
        <5> QED
          BY <5>1, SeqMonotonic
      <4>2. bpaMail' = Append(bpaMail, m)
        BY <3>2 DEF Tell
      <4>3. Len(bpaMail) \in Nat
        BY <4>1, LenProperties
      <4> QED
        BY <4>1, <4>2, <4>3, AppendProperties
    <3> QED
      BY <3>1, <3>2
  <2> QED
    BY <2>1, <2>2 DEF Tracked
<1> QED
  BY <1>1, <1>2, <1>3, <1>4, TrackedIs

\* What is announced is tracked, and so is what was under way to the protocol agent.
LEMMA AnnouncedTracked ==
  ASSUME DaemonInv, NEW refs \in Seq(StoredBundles), Announce(refs)
  PROVE  /\ \A p \in Pbs(refs) : Tracked(p)'
         /\ \A i \in 1..Len(bpaMail) : i \in 1..Len(bpaMail') /\ bpaMail'[i] = bpaMail[i]
<1>1. PICK n \in Nat : n = Len(refs)
  BY LenProperties
<1>2. PICK l \in Nat : l = Len(bpaMail)
  BY LenProperties DEF DaemonInv, MailInv
<1>3. PICK t : t = [i \in 1..n |-> EventBundleUpdated(refs[i])]
  OBVIOUS
<1>4. PICK U : U = Events \cup {EventBundleUpdated(refs[i]) : i \in 1..n}
  OBVIOUS
<1>5. t \in [1..n -> U]
  BY <1>3, <1>4
<1>6. t \in Seq(U) /\ Len(t) = n
  <2>1. t \in Seq(U)
    BY <1>5, SeqDef
  <2>2. Len(t) \in Nat /\ 1..Len(t) = 1..n
    BY <1>5, <2>1, LenProperties
  <2> QED
    BY <1>1, <2>1, <2>2
<1>7. bpaMail \in Seq(U)
  <2>1. bpaMail \in Seq(Events) /\ Events \subseteq U
    BY <1>4 DEF DaemonInv, MailInv
  <2> QED
    BY <2>1, SeqMonotonic
<1>8. bpaMail' = bpaMail \o t
  BY <1>1, <1>3 DEF Announce
<1>9. /\ Len(bpaMail') = l + n
      /\ \A i \in 1..l : bpaMail'[i] = bpaMail[i]
      /\ \A i \in 1..n : bpaMail'[l + i] = t[i]
  BY <1>2, <1>6, <1>7, <1>8, ConcatProperties
<1>10. ASSUME NEW p \in Pbs(refs)
       PROVE  Tracked(p)'
  <2>1. PICK i \in 1..n : refs[i].pb = p
    BY <1>1 DEF Pbs
  <2>2. bpaMail'[l + i] = EventBundleUpdated(refs[i])
    BY <1>3, <1>9
  <2>3. l + i \in 1..Len(bpaMail')
    BY <1>1, <1>2, <1>9
  <2>4. "bundle" \in DOMAIN bpaMail'[l + i] /\ bpaMail'[l + i].bundle.pb = p
    BY <2>1, <2>2 DEF EventBundleUpdated
  <2> QED
    BY <2>3, <2>4 DEF Tracked
<1> QED
  BY <1>2, <1>9, <1>10

\* Queues that stay as they are, and mailboxes that lose at most messages about others.
LEMMA StillTracked ==
  ASSUME DaemonInv,
         UNCHANGED <<local_bundles, pending_local, remote_bundles, pending_remote>>,
         \A i \in 1..Len(bpaMail) : i \in 1..Len(bpaMail') /\ bpaMail'[i] = bpaMail[i],
         NEW p, Tracked(p), p \in Pbs(bsaMail) => p \in Pbs(bsaMail')
  PROVE  Tracked(p)'
<1>1. CASE LocalWaits(p) \/ RemoteWaits(p)
  <2>1. (LocalWaits(p) \/ RemoteWaits(p))'
    BY <1>1, StillWaits
  <2>2. (LocalWaits(p) \/ RemoteWaits(p))' => Tracked(p)'
    BY TrackedIs, PTL
  <2> QED
    BY <2>1, <2>2
<1>2. CASE p \in Pbs(bsaMail)
  BY <1>2 DEF Pbs, Tracked
<1>3. CASE \E i \in 1..Len(bpaMail) :
             "bundle" \in DOMAIN bpaMail[i] /\ bpaMail[i].bundle.pb = p
  <2>1. PICK i \in 1..Len(bpaMail) :
          "bundle" \in DOMAIN bpaMail[i] /\ bpaMail[i].bundle.pb = p
    BY <1>3
  <2>2. i \in 1..Len(bpaMail') /\ bpaMail'[i] = bpaMail[i]
    OBVIOUS
  <2> QED
    BY <2>1, <2>2 DEF Tracked
<1> QED
  BY <1>1, <1>2, <1>3, TrackedIs

\* A bundle that is tracked otherwise stays tracked when a message is taken.
LEMMA TakenTracked ==
  ASSUME DaemonInv, bsaMail # <<>>, bsaMail' = Tail(bsaMail),
         UNCHANGED <<local_bundles, pending_local, remote_bundles, pending_remote>>,
         \A i \in 1..Len(bpaMail) : i \in 1..Len(bpaMail') /\ bpaMail'[i] = bpaMail[i],
         NEW p, Tracked(p), p # Head(bsaMail).pb
  PROVE  Tracked(p)'
<1>1. bsaMail \in Seq(StorageMessages)
  BY Typed DEF TypeOK
<1>2. Pbs(bsaMail) = {Head(bsaMail).pb} \cup Pbs(Tail(bsaMail))
  BY <1>1, PbsHead
<1>3. p \in Pbs(bsaMail) => p \in Pbs(bsaMail')
  BY <1>2
<1> QED
  BY <1>3, StillTracked

\* The fragments of the bundle q belongs to are of no more concern: one of them is
\* missing, or they are all new.
Excused(q, N) ==
  \/ q \in N
  \/ ~Complete(HeaderOf(q).whole)
  \/ FragmentsOf(HeaderOf(q).whole) \subseteq N

\* The storage agent changes what it stores: N is announced, a was the message's.
LEMMA KnownCore ==
  ASSUME DaemonInv, DaemonInv', AllKnown, bpa = "up",
         finished \subseteq finished', replaced \subseteq replaced', NEW a, NEW N,
         Held' \subseteq Held \cup N, N \subseteq Held',
         \A p \in N : Tracked(p)',
         \A p : Tracked(p) /\ p # a => Tracked(p)',
         a \in Held' => a \in N \/ Known(a)',
         \A q \in Held : (q \notin Held' \/ q = a) /\ Local(q) /\ HeaderOf(q).fragment
                           => Excused(q, N)'
  PROVE  AllKnown'
<1>1. SUFFICES ASSUME NEW p \in Held'
               PROVE  Known(p)'
  BY DEF AllKnown
<1>2. CASE p \in N
  BY <1>2 DEF Known
<1>3. CASE p = a
  BY <1>1, <1>2, <1>3
<1>4. CASE p \notin N /\ p # a
  <2>1. p \in Held /\ Known(p)
    BY <1>4 DEF AllKnown
  <2>2. Tracked(p) => Known(p)'
    BY <1>4 DEF Known
  <2>3. PICK w : w = HeaderOf(p).whole
    OBVIOUS
  <2>4. p \in PrimaryBlocks
    <3>1. PICK i \in 1..Len(bundles) : bundles[i].pb = p
      BY <2>1 DEF Held, Pbs
    <3>2. bundles \in Seq(StoredBundles)
      BY DEF DaemonInv, Inv, StorageTypeOK
    <3>3. bundles[i] \in StoredBundles
      BY <3>1, <3>2, ElementOfSeq
    <3> QED
      BY <3>1, <3>3 DEF StoredBundles
  <2>5. ASSUME Local(p), HeaderOf(p).fragment
        PROVE  \/ \E q \in FragmentsOf(w)' : Tracked(q)'
               \/ ~Complete(w)'
               \/ /\ FragmentsOf(w)' = FragmentsOf(w)
                  /\ \A q \in FragmentsOf(w) : Tracked(q) => Tracked(q)'
    <3>1. \A q \in FragmentsOf(w) :
            q \in Held /\ HeaderOf(q).fragment /\ Local(q) /\ HeaderOf(q).whole = w
      <4>1. ASSUME NEW q \in FragmentsOf(w)
            PROVE  q \in Held /\ HeaderOf(q).fragment /\ Local(q) /\ HeaderOf(q).whole = w
        BY <2>3, <2>4, <2>5, <4>1, SiblingsLocal DEF DaemonInv, FragmentsOf
      <4> QED
        BY <4>1
    <3>2. p \in FragmentsOf(w)'
      BY <1>1, <2>3, <2>5 DEF FragmentsOf
    <3>3. ASSUME NEW q \in FragmentsOf(w), q \notin Held' \/ q = a
          PROVE  (\E s \in FragmentsOf(w)' : Tracked(s)') \/ ~Complete(w)'
      <4>1. HeaderOf(q).whole = w
        BY <3>1, <3>3
      <4>2. q \in N \/ ~Complete(w)' \/ FragmentsOf(w)' \subseteq N
        <5>1. Excused(q, N)'
          BY <3>1, <3>3
        <5> QED
          BY <4>1, <5>1 DEF Excused
      <4>3. q \in N => q \in FragmentsOf(w)'
        BY <3>1 DEF FragmentsOf
      <4> QED
        BY <1>4, <3>2, <4>2, <4>3
    <3>4. CASE \E q \in FragmentsOf(w) : q \notin Held' \/ q = a
      BY <3>3, <3>4
    <3>5. CASE \A q \in FragmentsOf(w) : q \in Held' /\ q # a
      <4>1. FragmentsOf(w) \subseteq FragmentsOf(w)'
        BY <3>1, <3>5 DEF FragmentsOf
      <4>2. CASE \E q \in FragmentsOf(w)' : q \in N
        BY <4>2
      <4>3. CASE \A q \in FragmentsOf(w)' : q \notin N
        <5>1. FragmentsOf(w)' \subseteq FragmentsOf(w)
          BY <4>3 DEF FragmentsOf
        <5> QED
          BY <3>5, <4>1, <5>1
      <4> QED
        BY <4>2, <4>3
    <3> QED
      BY <3>4, <3>5
  <2>6. Local(p) /\ HeaderOf(p).fragment =>
          \/ \E q \in FragmentsOf(HeaderOf(p).whole)' : Tracked(q)'
          \/ ~Complete(HeaderOf(p).whole)'
          \/ /\ FragmentsOf(HeaderOf(p).whole)' = FragmentsOf(HeaderOf(p).whole)
             /\ \A q \in FragmentsOf(HeaderOf(p).whole) : Tracked(q) => Tracked(q)'
    BY <2>3, <2>5
  <2> QED
    BY <2>1, <2>2, <2>6, KnownStays
<1> QED
  BY <1>2, <1>3, <1>4

\* A storage message is handled: what it stores or changes is announced.
LEMMA HandleKnown ==
  ASSUME DaemonInv, DaemonInv', AllKnown, bsaMail # <<>>, NEW m, m = Head(bsaMail),
         HandleStorageMessage(m), bsaMail' = Tail(bsaMail),
         UNCHANGED <<bpa, local_bundles, pending_local, remote_bundles, pending_remote>>
  PROVE  AllKnown'
<1>1. SUFFICES ASSUME bpa = "up"
               PROVE  AllKnown'
  BY DEF AllKnown
<1>2. MessageOK(m) /\ Inv
  <2>1. bsaMail \in Seq(Requests)
    BY DEF DaemonInv, MailInv
  <2>2. m \in Requests
    BY <2>1, HeadTailProperties
  <2> QED
    BY <2>2 DEF Requests, RequestOK, DaemonInv
<1>3. finished' = finished /\ replaced \subseteq replaced'
  BY HandleGrows
<1>4. PICK a : a = m.pb
  OBVIOUS
<1>5. ASSUME NEW refs \in Seq(StoredBundles), Announce(refs)
      PROVE  /\ \A p \in Pbs(refs) : Tracked(p)'
             /\ \A p : Tracked(p) /\ p # a => Tracked(p)'
  BY <1>4, <1>5, AnnouncedTracked, TakenTracked
<1>6. ASSUME UNCHANGED bpaMail
      PROVE  \A p : Tracked(p) /\ p # a => Tracked(p)'
  <2>1. \A i \in 1..Len(bpaMail) : i \in 1..Len(bpaMail') /\ bpaMail'[i] = bpaMail[i]
    BY <1>6
  <2> QED
    BY <1>4, <2>1, TakenTracked
\* One bundle is announced again, or anew.
<1>7. ASSUME NEW r \in StoredBundles, Announce(<<r>>), r.pb = a, Held' = Held \cup {a}
      PROVE  AllKnown'
  <2>1. PICK refs \in Seq(StoredBundles) : refs = <<r>>
    BY SingletonSeq
  <2>2. Pbs(refs) = {a}
    BY <1>7, <2>1, SingletonSeq DEF Pbs
  <2>3. Announce(refs)
    BY <1>7, <2>1
  <2>4. PICK N : N = {a}
    OBVIOUS
  <2>5. \A p \in N : Tracked(p)'
    BY <1>5, <2>2, <2>3, <2>4
  <2>6. \A p : Tracked(p) /\ p # a => Tracked(p)'
    BY <1>5, <2>3
  <2>7. Held' \subseteq Held \cup N /\ N \subseteq Held' /\ (a \in Held' => a \in N)
    BY <1>7, <2>4
  <2>8. \A q \in Held : (q \notin Held' \/ q = a) /\ Local(q) /\ HeaderOf(q).fragment
                          => Excused(q, N)'
    BY <1>7, <2>4 DEF Excused
  <2> QED
    BY <1>1, <1>3, <2>5, <2>6, <2>7, <2>8, KnownCore
\* What is stored shrinks by the bundle at most, which is gone or unknown.
<1>8. ASSUME UNCHANGED bpaMail, Held' \subseteq Held, Held \ {a} \subseteq Held',
             a \in Held => Gone(a) /\ ~(Local(a) /\ HeaderOf(a).fragment)
      PROVE  AllKnown'
  <2>1. PICK N : N = {}
    OBVIOUS
  <2>2. \A p : Tracked(p) /\ p # a => Tracked(p)'
    BY <1>6, <1>8
  <2>3. a \in Held' => Known(a)'
    <3>1. Gone(a) => Gone(a)'
      BY <1>3 DEF Gone
    <3> QED
      BY <1>8, <3>1 DEF Known
  <2>4. \A q \in Held : (q \notin Held' \/ q = a) /\ Local(q) /\ HeaderOf(q).fragment
                          => Excused(q, N)'
    BY <1>8
  <2>5. Held' \subseteq Held \cup N /\ N \subseteq Held' /\ (\A p \in N : Tracked(p)')
    BY <1>8, <2>1
  <2> QED
    BY <1>1, <1>3, <2>2, <2>3, <2>4, <2>5, KnownCore
<1>9. ASSUME NEW type, HandleStore(m, type)
      PROVE  AllKnown'
  BY <1>2, <1>4, <1>7, <1>9, StoreHeld
<1>10. ASSUME NEW type, HandleUnknownBundle(m, type)
       PROVE  AllKnown'
  <2>1. UNCHANGED bpaMail /\ UNCHANGED bundles /\ a \notin Held
    BY <1>4, <1>10 DEF HandleUnknownBundle, Holds, Held, Pbs, storageVars
  <2> QED
    BY <1>8, <2>1 DEF Held
<1>11. ASSUME NEW i \in 1..Len(bundles), HandleFragmentBundle(m, i)
       PROVE  AllKnown'
  <2>1. PICK N : /\ Held' \subseteq Held \cup N /\ (Held \ {a}) \cup N \subseteq Held'
                 /\ \E refs \in Seq(StoredBundles) : Announce(refs) /\ Pbs(refs) = N
                 /\ \E r \in replaced' : r[1] = a
    BY <1>2, <1>4, <1>11, FragmentHeld
  <2>2. PICK refs \in Seq(StoredBundles) : Announce(refs) /\ Pbs(refs) = N
    BY <2>1
  <2>3. ~Local(a)
    BY <1>2, <1>4, <1>11 DEF HandleFragmentBundle, HandlesBundle, Handles, MessageOK
  <2>4. (\A p \in N : Tracked(p)') /\ \A p : Tracked(p) /\ p # a => Tracked(p)'
    BY <1>5, <2>2
  <2>5. Known(a)'
    BY <2>1 DEF Known, Gone
  <2>6. \A q \in Held : (q \notin Held' \/ q = a) /\ Local(q) /\ HeaderOf(q).fragment
                          => Excused(q, N)'
    BY <2>1, <2>3
  <2>7. N \subseteq Held'
    BY <2>1
  <2> QED
    BY <1>1, <1>3, <2>1, <2>4, <2>5, <2>6, <2>7, KnownCore
<1>12. ASSUME NEW i \in 1..Len(bundles), HandleFragmentTooSmall(m, i)
       PROVE  AllKnown'
  <2>1. a \in Held
    BY <1>4, <1>12 DEF HandleFragmentTooSmall, HandlesBundle, IsFirst, Held, Pbs
  <2>2. Held' = Held \cup {a} /\ \E r \in StoredBundles : Announce(<<r>>) /\ r.pb = a
    BY <1>2, <1>4, <1>12, <2>1, TooSmallHeld
  <2> QED
    BY <1>7, <2>2
<1>13. ASSUME NEW i \in 1..Len(bundles), HandleFragmentPanic(m, i)
       PROVE  AllKnown'
  <2>1. Held' = {}
    BY <1>13 DEF HandleFragmentPanic, Held, Pbs
  <2> QED
    BY <2>1 DEF AllKnown
<1>14. ASSUME NEW i \in 1..Len(bundles), HandleUpdateBundle(m, i)
       PROVE  AllKnown'
  <2>1. Held' = Held \cup {a} /\ \E r \in StoredBundles : Announce(<<r>>) /\ r.pb = a
    BY <1>2, <1>4, <1>14, UpdateHeld
  <2> QED
    BY <1>7, <2>1
<1>15. ASSUME NEW i \in 1..Len(bundles), HandleFinishedBundle(m, i)
       PROVE  AllKnown'
  <2>1. Held' \subseteq Held /\ Held \ {a} \subseteq Held' /\ UNCHANGED bpaMail
    BY <1>2, <1>4, <1>15, FinishedHeld DEF HandleFinishedBundle
  <2>2. a \in finished
    BY <1>2, <1>4, <1>15 DEF HandleFinishedBundle, HandlesBundle, Handles, MessageOK
  <2>3. Gone(a) /\ ~(Local(a) /\ HeaderOf(a).fragment)
    BY <2>2 DEF Gone, DaemonInv, MailInv
  <2> QED
    BY <1>8, <2>1, <2>3
<1>16. ASSUME NEW i \in 1..Len(bundles), HandleDefragmentBundle(m, i)
       PROVE  AllKnown'
  <2>1. PICK w : w = HeaderOf(a).whole
    OBVIOUS
  <2>2. Local(a) /\ HeaderOf(a).fragment
    BY <1>2, <1>4, <1>16 DEF HandleDefragmentBundle, HandlesBundle, Handles, MessageOK
  <2>3. \/ /\ Held' = (Held \ FragmentsOf(w)) \cup {w}
           /\ \E r \in StoredBundles : Announce(<<r>>) /\ r.pb = w
        \/ /\ ~Complete(w) /\ Held' = Held
           /\ UNCHANGED bpaMail
    BY <1>2, <1>4, <1>16, <2>1, DefragmentHeld
  <2>4. CASE /\ Held' = (Held \ FragmentsOf(w)) \cup {w}
             /\ \E r \in StoredBundles : Announce(<<r>>) /\ r.pb = w
    <3>1. PICK r \in StoredBundles : Announce(<<r>>) /\ r.pb = w
      BY <2>4
    <3>2. PICK refs \in Seq(StoredBundles) : refs = <<r>>
      BY SingletonSeq
    <3>3. PICK N : N = {w}
      OBVIOUS
    <3>4. Pbs(refs) = N /\ Announce(refs)
      BY <3>1, <3>2, <3>3, SingletonSeq DEF Pbs
    <3>5. (\A p \in N : Tracked(p)') /\ \A p : Tracked(p) /\ p # a => Tracked(p)'
      BY <1>5, <3>4
    <3>6. Held' \subseteq Held \cup N /\ N \subseteq Held'
      BY <2>4, <3>3
    <3>7. FragmentsOf(w)' \subseteq N
      <4>1. ASSUME NEW q \in FragmentsOf(w)', q # w
            PROVE  FALSE
        <5>1. q \in Held' /\ HeaderOf(q).fragment /\ HeaderOf(q).whole = w
          BY <4>1 DEF FragmentsOf
        <5>2. q \in Held \ FragmentsOf(w)
          BY <2>4, <4>1, <5>1
        <5> QED
          BY <5>1, <5>2 DEF FragmentsOf
      <4> QED
        BY <3>3, <4>1
    <3>8. a \in Held' => a \in N
      BY <2>1, <2>2, <3>7 DEF FragmentsOf
    <3>9. ASSUME NEW q \in Held, q \notin Held' \/ q = a, Local(q), HeaderOf(q).fragment
          PROVE  Excused(q, N)'
      <4>1. HeaderOf(q).whole = w
        <5>1. CASE q = a
          BY <2>1, <5>1
        <5>2. CASE q \notin Held'
          BY <2>4, <3>9, <5>2 DEF FragmentsOf
        <5> QED
          BY <3>9, <5>1, <5>2
      <4> QED
        BY <3>7, <4>1 DEF Excused
    <3> QED
      BY <1>1, <1>3, <3>5, <3>6, <3>8, <3>9, KnownCore
  <2>5. CASE ~Complete(w) /\ Held' = Held /\ UNCHANGED bpaMail
    <3>1. PICK N : N = {}
      OBVIOUS
    <3>2. ~Complete(w)'
      BY <2>5 DEF Complete, FragmentsOf
    <3>3. a \in Held' => Known(a)'
      BY <2>1, <2>2, <3>2 DEF Known
    <3>4. \A p : Tracked(p) /\ p # a => Tracked(p)'
      BY <1>6, <2>5
    <3>5. ASSUME NEW q \in Held, q \notin Held' \/ q = a, Local(q), HeaderOf(q).fragment
          PROVE  Excused(q, N)'
      BY <2>1, <2>5, <3>2, <3>5 DEF Excused
    <3>6. Held' \subseteq Held \cup N /\ N \subseteq Held' /\ (\A p \in N : Tracked(p)')
      BY <2>5, <3>1
    <3> QED
      BY <1>1, <1>3, <3>3, <3>4, <3>5, <3>6, KnownCore
  <2> QED
    BY <2>3, <2>4, <2>5
<1> QED
  BY <1>9, <1>10, <1>11, <1>12, <1>13, <1>14, <1>15, <1>16
     DEF HandleStorageMessage, HandleStoreReceivedBundle, HandleStoreNewBundle

\* What the storage agent does, or the disk.
LEMMA StorageAgentKnown ==
  ASSUME DaemonInv, DaemonInv', AllKnown, StorageAgentStep
  PROVE  AllKnown'
<1>1. UNCHANGED bpa /\ UNCHANGED <<local_bundles, pending_local, remote_bundles, pending_remote>>
  BY DEF StorageAgentStep, localVars, remoteVars
<1>2. CASE bsaMail # <<>> /\ HandleStorageMessage(Head(bsaMail)) /\ bsaMail' = Tail(bsaMail)
  <2>1. PICK m : m = Head(bsaMail)
    OBVIOUS
  <2>2. HandleStorageMessage(m)
    BY <1>2, <2>1, Zenon
  <2> QED
    BY <1>1, <1>2, <2>1, <2>2, HandleKnown
<1>3. CASE FileStep /\ UNCHANGED bsaMail
  <2>1. UNCHANGED <<bpaMail, bundles, finished, replaced>>
    BY <1>3 DEF FileStep, BeginWrite, EndWrite, FailWrite, PollDeletes, RunDelete, historyVars
  <2>2. Remembers
    BY <1>1, <1>3, <2>1, MoreMail
  <2> QED
    BY <1>1, <2>1, <2>2, RememberStays DEF Held
<1> QED
  BY <1>2, <1>3 DEF StorageAgentStep

\* An agent that starts announces all it has loaded.
LEMMA StartKnown ==
  ASSUME DaemonInv, DaemonInv', AllKnown, StartStorageAgent
  PROVE  AllKnown'
<1>1. /\ UNCHANGED <<bpa, bsaMail>>
      /\ UNCHANGED <<local_bundles, pending_local, remote_bundles, pending_remote>>
      /\ StartAgent \/ TriggerLoading
  BY DEF StartStorageAgent, localVars, remoteVars
<1>2. ASSUME UNCHANGED <<bundles, bpaMail, historyVars>>
      PROVE  AllKnown'
  <2>1. Remembers
    BY <1>1, <1>2, MoreMail
  <2> QED
    BY <1>1, <1>2, <2>1, RememberStays DEF Held, historyVars
<1>3. CASE StartAgent
  <2>1. UNCHANGED historyVars
    BY <1>3 DEF StartAgent
  <2>2. CASE bsa' = "up"
    <3>1. PICK refs \in Seq(StoredBundles) : Announce(refs) /\ Pbs(refs) = Held'
      BY <1>3, <2>2, StartHeld DEF DaemonInv
    <3>2. \A p \in Pbs(refs) : Tracked(p)'
      BY <3>1, AnnouncedTracked
    <3> QED
      BY <3>1, <3>2 DEF AllKnown, Known
  <2>3. CASE bsa' # "up"
    <3>1. UNCHANGED <<bundles, bpaMail>>
      BY <1>3, <2>3 DEF StartAgent
    <3> QED
      BY <1>2, <2>1, <3>1
  <2> QED
    BY <2>2, <2>3
<1>4. CASE TriggerLoading
  <2>1. UNCHANGED <<bundles, finished, replaced>>
    BY <1>4 DEF TriggerLoading, historyVars
  <2>2. CASE UNCHANGED bpaMail
    BY <1>2, <1>4, <2>2 DEF TriggerLoading
  <2>3. ASSUME NEW s \in Listings, Announce([i \in 1..Len(s) |-> LoadedBundle(s[i], 0)])
        PROVE  AllKnown'
    <3>1. PICK refs : refs = [i \in 1..Len(s) |-> LoadedBundle(s[i], 0)]
      OBVIOUS
    <3>2. refs = [i \in 1..Len(s) |-> LoadedBundle(s[i], IF 0 = 0 THEN 0 ELSE 0 + i - 1)]
      BY <3>1
    <3>3. refs \in Seq(StoredBundles)
      BY <3>2, LoadedType DEF DaemonInv
    <3>4. Announce(refs)
      BY <2>3, <3>1
    <3>5. \A i \in 1..Len(bpaMail) : i \in 1..Len(bpaMail') /\ bpaMail'[i] = bpaMail[i]
      BY <3>3, <3>4, AnnouncedTracked
    <3>6. Remembers
      BY <1>1, <3>5, StillTracked DEF Remembers
    <3> QED
      BY <1>1, <2>1, <3>6, RememberStays DEF Held
  <2> QED
    BY <1>4, <2>2, <2>3 DEF TriggerLoading
<1> QED
  BY <1>1, <1>3, <1>4

\* The protocol agent stores nothing itself.
LEMMA ProtocolKeeps ==
  ASSUME DaemonInv, ProtocolAgentStep
  PROVE  /\ bpa = "up" /\ finished \subseteq finished'
         /\ UNCHANGED <<storageVars, validated, replaced, torn, failed, written>>
<1>1. UNCHANGED fixedVars /\ finished \subseteq finished' /\ \E t : Receives(t)
  BY DEF ProtocolAgentStep, HandleProtocolMessage, HandleReceived, HandleValidLocal,
     HandleValidRemote, HandleHopLimitExceeded, HandleDanglingReference,
     HandleDeliveryQueued, HandleForwardingQueued, HandleBundleDelivered,
     HandleBundleDeliveryFailed, HandleBundleForwarded, HandleBundleForwardingFailed,
     HandleClientConnected, HandleClientDisconnected, HandlePeerConnected,
     HandlePeerDisconnected, HandleRoutingTableUpdate, ReceivesValidRemote
<1> QED
  BY <1>1 DEF fixedVars, Receives

\* Clients, sessions, routes and the arrival of bundles.
Outside ==
  \/ \E b \in Bundles : SubmitBundle(b) \/ ReceiveTransfer(b)
  \/ \E c \in Clients : ClientStep(c)
  \/ \E s \in Sessions : SessionStep(s)
  \/ \E m \in answers : Answer(m)
  \/ \E m : ChangeRoute(m)
  \/ RoutingAgentStep

\* A step that only adds messages, and finished bundles.
Adds ==
  /\ finished \subseteq finished' /\ UNCHANGED bpa /\ UNCHANGED fixedVars
  /\ UNCHANGED <<local_bundles, pending_local, remote_bundles, pending_remote>>
  /\ \/ UNCHANGED bsaMail
     \/ \E msgs \in Seq(StorageMessages) : bsaMail' = bsaMail \o msgs
  /\ UNCHANGED bpaMail \/ \E m : Tell(m)

\* They touch neither what is stored nor the queues, and only add messages.
LEMMA OutsideKeeps ==
  ASSUME DaemonInv, Outside
  PROVE  /\ finished \subseteq finished' /\ UNCHANGED bpa
         /\ UNCHANGED <<storageVars, validated, replaced, torn, failed, written>>
         /\ Remembers
<1>1. Adds
  <2>1. ASSUME NEW b \in Bundles, NEW m \in {StoreNewBundle(b), StoreReceivedBundle(b)},
               Arrives(b, m)
        PROVE  Adds
    <3>1. <<m>> \in Seq(StorageMessages)
      <4>1. m \in StorageMessages
        BY <2>1 DEF StorageMessages, StoreNewBundle, StoreReceivedBundle, PrimaryBlocks
      <4> QED
        BY <4>1
    <3> QED
      BY <2>1, <3>1 DEF Arrives, Send, localVars, remoteVars, Adds
  <2>2. ASSUME NEW c \in Clients, ClientStep(c)
        PROVE  Adds
    BY <2>2 DEF ClientStep, ListenConnect, PollStream, DropStream, PassToStream,
       StopListening, FailDelivery, clientUnchanged, remoteVars, Adds
  <2>3. ASSUME NEW s \in Sessions, SessionStep(s)
        PROVE  Adds
    BY <2>3 DEF SessionStep, PeerConnect, TakeForForwarding, Acknowledge, Refuse,
       EndSession, ForwardResult, sessionUnchanged, localVars, Adds
  <2>4. ASSUME NEW m \in answers, Answer(m)
        PROVE  Adds
    BY <2>4 DEF Answer, sessionUnchanged, localVars, Adds
  <2>5. ASSUME NEW m, ChangeRoute(m)
        PROVE  Adds
    BY <2>5 DEF ChangeRoute, localVars, remoteVars, Adds
  <2>6. CASE RoutingAgentStep
    BY <2>6 DEF RoutingAgentStep, HandleAddRoute, HandleRemoveRoute, send_route_update,
       Tell, localVars, remoteVars, Adds
  <2> QED
    BY <2>1, <2>2, <2>3, <2>4, <2>5, <2>6 DEF Outside, SubmitBundle, ReceiveTransfer
<1>2. Remembers
  BY <1>1, MoreMail DEF Adds
<1> QED
  BY <1>1, <1>2 DEF Adds, fixedVars

\* Every other step is one of these.
LEMMA OutsideIs ==
  ASSUME Next
  PROVE  StorageAgentStep \/ StartStorageAgent \/ ProtocolAgentStep \/ CrashDaemon \/ Outside
BY DtrdAssumption DEF Next, Outside

\* Every step keeps all stored bundles known.
LEMMA NextKnown ==
  ASSUME DaemonInv, AllKnown, [Next]_vars
  PROVE  AllKnown'
<1>1. DaemonInv'
  BY NextDaemon
<1>2. CASE UNCHANGED vars
  <2>1. UNCHANGED <<bpaMail, bundles, finished, replaced, bsaMail, bpa>>
    BY <1>2 DEF vars, storageVars, historyVars
  <2>2. UNCHANGED <<local_bundles, pending_local, remote_bundles, pending_remote>>
    BY <1>2 DEF vars, localVars, remoteVars
  <2>3. Remembers
    BY <2>1, <2>2, MoreMail
  <2> QED
    BY <1>1, <2>1, <2>3, RememberStays DEF Held
<1>3. CASE StorageAgentStep
  BY <1>1, <1>3, StorageAgentKnown
<1>4. CASE StartStorageAgent
  BY <1>1, <1>4, StartKnown
<1>5. CASE ProtocolAgentStep
  <2>1. bpa' = "up" => Remembers
    BY <1>5, ProtocolAgentDaemon
  <2>2. bpa = "up" /\ finished \subseteq finished' /\ UNCHANGED bundles /\ UNCHANGED replaced
    BY <1>5, ProtocolKeeps DEF storageVars
  <2> QED
    BY <1>1, <2>1, <2>2, RememberStays DEF Held
<1>6. CASE CrashDaemon
  <2>1. Held' = {}
    BY <1>6 DEF CrashDaemon, Crash, Held, Pbs
  <2> QED
    BY <2>1 DEF AllKnown
<1>7. CASE Outside
  <2>1. /\ finished \subseteq finished' /\ UNCHANGED bpa /\ Remembers
        /\ UNCHANGED bundles /\ UNCHANGED replaced
    BY <1>7, OutsideKeeps DEF storageVars
  <2> QED
    BY <1>1, <2>1, RememberStays DEF Held
<1> QED
  BY <1>2, <1>3, <1>4, <1>5, <1>6, <1>7, OutsideIs

\* The fragments of a bundle, with and without their data.
LEMMA FragmentsAre ==
  ASSUME NEW w
  PROVE  /\ FragmentsOf(w) = {f.pb : f \in StoredFragments(w)}
         /\ Complete(w) <=> CanReassemble(w, StoredFragments(w))
<1>1. PICK F : F = StoredFragments(w)
  OBVIOUS
<1>2. FragmentsOf(w) = {f.pb : f \in F}
  <2>1. ASSUME NEW p \in FragmentsOf(w)
        PROVE  \E f \in F : f.pb = p
    <3>1. PICK i \in 1..Len(bundles) : bundles[i].pb = p
      BY <2>1 DEF FragmentsOf, Held, Pbs
    <3>2. HeaderOf(bundles[i].pb).fragment /\ HeaderOf(bundles[i].pb).whole = w
      BY <2>1, <3>1 DEF FragmentsOf
    <3> QED
      BY <1>1, <3>1, <3>2 DEF StoredFragments
  <2>2. ASSUME NEW f \in F
        PROVE  f.pb \in FragmentsOf(w)
    <3>1. PICK i \in 1..Len(bundles) :
            /\ HeaderOf(bundles[i].pb).fragment /\ HeaderOf(bundles[i].pb).whole = w
            /\ f = bundles[i]
      BY <1>1, <2>2 DEF StoredFragments
    <3> QED
      BY <3>1 DEF FragmentsOf, Held, Pbs
  <2> QED
    BY <2>1, <2>2
<1>3. UNION {HeaderOf(p).span : p \in FragmentsOf(w)} = UNION {HeaderOf(f.pb).span : f \in F}
  BY <1>2
<1> QED
  BY <1>1, <1>2, <1>3 DEF Complete, CanReassemble

\* As long as the protocol agent runs, the daemon forgets no stored bundle, whatever
\* arrives, connects, fails or restarts: it is queued, handed over or spoken of in a
\* message, or waits for the missing fragments, or a copy of it is done with.
THEOREM NothingForgotten == Spec => [](NoDanglingReference => NoneForgotten)
<1>1. Init => DaemonInv /\ AllKnown
  <2>1. Init => DaemonInv
    BY InitDaemon
  <2>2. Init => AllKnown
    <3>1. ASSUME Init
          PROVE  Held = {}
      BY <3>1 DEF Init, StorageInit, Held, Pbs
    <3> QED
      BY <3>1 DEF AllKnown
  <2> QED
    BY <2>1, <2>2
<1>2. DaemonInv /\ AllKnown /\ [Next]_vars => (DaemonInv /\ AllKnown)'
  BY NextDaemon, NextKnown
<1>3. DaemonInv /\ AllKnown => (NoDanglingReference => NoneForgotten)
  <2>1. SUFFICES ASSUME AllKnown, bpa = "up"
                 PROVE  NoneForgotten
    BY DEF NoDanglingReference
  <2>2. ASSUME NEW i \in 1..Len(bundles)
        PROVE  LET p == bundles[i].pb
                   fragments == StoredFragments(HeaderOf(p).whole)
               IN  \/ Tracked(p)
                   \/ /\ HeaderOf(p).fragment /\ HeaderOf(p).dest \in Endpoints
                      /\ \/ ~CanReassemble(HeaderOf(p).whole, fragments)
                         \/ \E f \in fragments : Tracked(f.pb)
                   \/ p \in finished
                   \/ \E r \in replaced : r[1] = p
    <3>1. PICK p : p = bundles[i].pb
      OBVIOUS
    <3>2. PICK w : w = HeaderOf(p).whole
      OBVIOUS
    <3>3. Known(p)
      BY <2>1, <3>1 DEF AllKnown, Held, Pbs
    <3>4. /\ FragmentsOf(w) = {f.pb : f \in StoredFragments(w)}
          /\ Complete(w) <=> CanReassemble(w, StoredFragments(w))
      BY FragmentsAre
    <3>5. \/ Tracked(p)
          \/ /\ HeaderOf(p).fragment /\ HeaderOf(p).dest \in Endpoints
             /\ \/ ~CanReassemble(w, StoredFragments(w))
                \/ \E f \in StoredFragments(w) : Tracked(f.pb)
          \/ p \in finished
          \/ \E r \in replaced : r[1] = p
      <4>1. CASE Tracked(p) \/ Gone(p)
        BY <4>1 DEF Gone
      <4>2. CASE /\ Local(p) /\ HeaderOf(p).fragment
                 /\ ~Complete(w) \/ \E q \in FragmentsOf(w) : Tracked(q)
        BY <3>4, <4>2 DEF Local
      <4> QED
        BY <3>2, <3>3, <4>1, <4>2 DEF Known
    <3> QED
      BY <3>1, <3>2, <3>5
  <2> QED
    BY <2>2 DEF NoneForgotten
<1> QED
  BY <1>1, <1>2, <1>3, PTL DEF Spec

-------------------------------------------------------------------------------
(* What the storage agent promises holds in the daemon *)

\* What was persisted survives, with the daemon's own protocol agent and all its
\* clients and peers.
THEOREM Durability == Spec => []Durable
<1>1. DaemonInv => Durable
  BY SafeBundles DEF DaemonInv
<1> QED
  BY <1>1, Invariance, PTL

\* Splitting and reassembly are crash-safe in the daemon: the whole set of new bundles
\* is written before the old files go.
THEOREM CrashSafeHandover == Spec => []HandoverIsCrashSafe
<1>1. DaemonInv => HandoverIsCrashSafe
  BY SafeHandover DEF DaemonInv
<1> QED
  BY <1>1, Invariance, PTL

\* Every step keeps track of what has a file.
LEMMA NextLeft ==
  ASSUME DaemonInv, NothingLeft, ~DiskFaults, [Next]_vars
  PROVE  NothingLeft'
<1>1. CASE UNCHANGED vars \/ ProtocolAgentStep \/ Outside
  <2>1. UNCHANGED storageVars
    BY <1>1, ProtocolKeeps, OutsideKeeps DEF vars
  <2> QED
    BY <2>1, OthersLeft
<1>2. CASE StorageAgentStep
  <2>1. CASE bsaMail # <<>> /\ HandleStorageMessage(Head(bsaMail))
    <3>1. PICK m : m = Head(bsaMail)
      OBVIOUS
    <3>2. HandleStorageMessage(m)
      BY <2>1, <3>1, Zenon
    <3>3. MessageOK(m)
      <4>1. bsaMail \in Seq(Requests)
        BY DEF DaemonInv, MailInv
      <4>2. m \in Requests
        BY <2>1, <3>1, <4>1, HeadTailProperties
      <4> QED
        BY <4>2 DEF Requests, RequestOK
    <3> QED
      BY <3>2, <3>3, HandleLeft DEF DaemonInv
  <2>2. CASE FileStep
    BY <2>2, FileStepLeft DEF DaemonInv
  <2> QED
    BY <1>2, <2>1, <2>2 DEF StorageAgentStep
<1>3. CASE StartStorageAgent
  BY <1>3, StartLeft DEF StartStorageAgent, StartStep, DaemonInv
<1>4. CASE CrashDaemon
  BY <1>4, CrashLeft DEF CrashDaemon
<1> QED
  BY <1>1, <1>2, <1>3, <1>4, OutsideIs

\* On a disk that does not fail, no file of a finished, split or reassembled bundle is
\* left behind once the storage agent has nothing more to do.
THEOREM NothingLeftBehind ==
  ASSUME ~DiskFaults
  PROVE  Spec => []NoLeftovers
<1>1. Init => DaemonInv /\ NothingLeft
  BY InitDaemon, InitLeft DEF Init
<1>2. DaemonInv /\ NothingLeft /\ [Next]_vars => (DaemonInv /\ NothingLeft)'
  BY NextDaemon, NextLeft
<1>3. DaemonInv /\ NothingLeft => NoLeftovers
  <2>1. SUFFICES ASSUME NothingLeft, bsa = "up", deletes = {}, NEW f \in files
                 PROVE  Holds(bundles, f.pb)
    BY DEF NoLeftovers
  <2>2. f.pb \in Held
    BY <2>1 DEF NothingLeft, Deleting
  <2> QED
    BY <2>2 DEF Held, Pbs, Holds
<1> QED
  BY <1>1, <1>2, <1>3, PTL DEF Spec

-------------------------------------------------------------------------------
(***************************************************************************)
(* The daemon implements BundleStorage.  Seen by the storage agent, the    *)
(* mailbox of the protocol agent holds the announcements alone.  The       *)
(* operators of BundleStorage take their parts from the instance, so that  *)
(* they mean the same is shown first.                                      *)
(***************************************************************************)

\* What the storage agent announces is what it is seen to announce.
LEMMA AnnounceSeen ==
  ASSUME MailInv, MailInv', NEW U, NEW refs \in Seq(U), Announce(refs)
  PROVE  Storage!Announce(refs)
<1>1. PICK anns : anns = [i \in 1..Len(refs) |-> EventBundleUpdated(refs[i])]
  OBVIOUS
<1>2. PICK n \in Nat : n = Len(refs)
  BY LenProperties
<1>3. PICK V : V = {anns[i] : i \in 1..n}
  OBVIOUS
<1>4. anns \in Seq(V) /\ Len(anns) = n
  <2>1. anns \in [1..n -> V]
    BY <1>1, <1>2, <1>3
  <2> QED
    BY <2>1, SeqDef, LenProperties
<1>5. bpaMail' = bpaMail \o anns
  BY <1>1 DEF Announce
<1>6. PICK W : W = V \cup Events
  OBVIOUS
<1>7. bpaMail \in Seq(W) /\ anns \in Seq(W)
  BY <1>4, <1>6, SeqMonotonic DEF MailInv
<1>8. ASSUME NEW i \in 1..n
      PROVE  anns[i] \in Announcements
  <2>1. PICK l \in Nat : l = Len(bpaMail)
    BY <1>7, LenProperties
  <2>2. /\ Len(bpaMail') = l + n /\ bpaMail'[l + i] = anns[i]
    <3>1. /\ Len(bpaMail') = l + n
          /\ \A k \in 1..(l + n) : bpaMail'[k] = IF k <= l THEN bpaMail[k] ELSE anns[k - l]
      BY <1>4, <1>5, <1>7, <2>1, ConcatProperties
    <3>2. l + i \in 1..(l + n) /\ ~(l + i <= l) /\ (l + i) - l = i
      OBVIOUS
    <3> QED
      BY <3>1, <3>2
  <2>3. l + i \in 1..Len(bpaMail')
    BY <2>2
  <2>4. anns[i] \in Events'
    BY <2>2, <2>3, ElementOfSeq DEF MailInv
  <2>5. anns[i] = EventBundleUpdated(refs[i])
    BY <1>1, <1>2
  <2>6. anns[i] \in Updates'
    BY <2>4, <2>5 DEF EventBundleUpdated, Events, Deliveries, Forwardings, Connections
  <2> QED
    BY <2>6 DEF Updates, Sound, Announcements
<1>9. Keep(anns, Announcements) = anns
  BY <1>4, <1>7, <1>8, KeepAll
<1>10. Keep(bpaMail \o anns, Announcements) = Keep(bpaMail, Announcements) \o anns
  BY <1>7, <1>9, KeepConcat
<1>11. Keep(bpaMail, Announcements)' = Keep(bpaMail, Announcements) \o anns
  BY <1>5, <1>10, Zenon
<1>12. anns = [i \in 1..Len(refs) |-> Storage!EventBundleUpdated(refs[i])]
  BY <1>1 DEF EventBundleUpdated, Storage!EventBundleUpdated
<1> QED
  BY <1>11, <1>12, Zenon DEF Storage!Announce

\* The headers are the same in both specifications.
LEMMA SameHeader ==
  ASSUME NEW p
  PROVE  Storage!HeaderOf(p) = HeaderOf(p)
BY DEF Storage!HeaderOf, HeaderOf

\* So are cardinalities.
LEMMA SameCardinality ==
  ASSUME NEW S
  PROVE  Storage!Cardinality(S) = Cardinality(S)
BY DEF Storage!Cardinality, Cardinality

\* So is everything else the handlers are built from.
LEMMA SameParts ==
  /\ \A p : Storage!HeaderOf(p) = HeaderOf(p)
  /\ \A s, i : Storage!Without(s, i) = Without(s, i)
  /\ \A s, p : Storage!Holds(s, p) <=> Holds(s, p)
  /\ \A sb : Storage!WriteOf(sb) = WriteOf(sb)
  /\ \A p : Storage!DeleteOf(p) = DeleteOf(p)
  /\ \A m, type : Storage!Handles(m, type) <=> Handles(m, type)
  /\ \A m, type, i : Storage!HandlesBundle(m, type, i) <=> HandlesBundle(m, type, i)
<1>1. \A p : Storage!HeaderOf(p) = HeaderOf(p)
  BY SameHeader
<1>2. \A s, p, i : Storage!IsFirst(s, p, i) <=> IsFirst(s, p, i)
  BY DEF Storage!IsFirst, IsFirst
<1>3. \A m, type : Storage!Handles(m, type) <=> Handles(m, type)
  BY DEF Storage!Handles, Handles
<1>4. \A m, type, i : Storage!HandlesBundle(m, type, i) <=> HandlesBundle(m, type, i)
  BY <1>2, <1>3 DEF Storage!HandlesBundle, HandlesBundle
<1>5. \A s, i : Storage!Without(s, i) = Without(s, i)
  BY DEF Storage!Without, Without
<1>6. \A s, p : Storage!Holds(s, p) <=> Holds(s, p)
  BY DEF Storage!Holds, Holds
<1>7. \A sb : Storage!WriteOf(sb) = WriteOf(sb)
  BY DEF Storage!WriteOf, WriteOf
<1>8. \A p : Storage!DeleteOf(p) = DeleteOf(p)
  BY DEF Storage!DeleteOf, DeleteOf
<1> QED
  BY <1>1, <1>3, <1>4, <1>5, <1>6, <1>7, <1>8

\* A bundle is stored.
LEMMA StoreSeen ==
  ASSUME MailInv, MailInv', NEW m, NEW type, HandleStore(m, type)
  PROVE  Storage!HandleStore(m, type)
<1>1. PICK sb : sb = [pb |-> m.pb, state |-> "Received", min |-> FALSE,
                      data |-> [id |-> nextData, hops |-> HeaderOf(m.pb).hops]]
  OBVIOUS
<1>2. Announce(<<sb>>)
  BY <1>1 DEF HandleStore
<1>3. Storage!Announce(<<sb>>)
  <2>1. <<sb>> \in Seq({sb})
    OBVIOUS
  <2> QED
    BY <1>2, <2>1, AnnounceSeen
<1> QED
  BY <1>1, <1>3, SameParts DEF HandleStore, Storage!HandleStore, historyVars,
     Storage!historyVars

\* A bundle is split.
LEMMA FragmentSeen ==
  ASSUME MailInv, MailInv', Inv, NEW m, MessageOK(m), NEW i, HandleFragmentBundle(m, i)
  PROVE  Storage!HandleFragmentBundle(m, i)
<1>1. PICK ps : ps = HeaderOf(bundles[i].pb).pieces
  OBVIOUS
<1>2. PICK pieces :
        pieces = [k \in 1..Len(ps) |->
                   [pb |-> ps[k], state |-> "Valid", min |-> TRUE,
                    data |-> [id |-> nextData + k - 1, hops |-> bundles[i].data.hops]]]
  OBVIOUS
<1>3. Announce(pieces)
  BY <1>1, <1>2, Zenon DEF HandleFragmentBundle
<1>4. bundles[i].pb \in PrimaryBlocks
  BY DEF HandleFragmentBundle, HandlesBundle, IsFirst, MessageOK
<1>5. PICK n \in Nat : n = Len(ps)
  BY <1>1, <1>4, HeaderType, LenProperties
<1>6. pieces \in Seq({pieces[k] : k \in 1..n})
  <2>1. pieces \in [1..n -> {pieces[k] : k \in 1..n}]
    BY <1>2, <1>5
  <2> QED
    BY <2>1, SeqDef
<1>7. Storage!Announce(pieces)
  BY <1>3, <1>6, AnnounceSeen
<1> QED
  BY <1>1, <1>2, <1>7, SameParts DEF HandleFragmentBundle, Storage!HandleFragmentBundle,
     WriteOf, Storage!WriteOf

\* A bundle that cannot be split that small goes back.
LEMMA TooSmallSeen ==
  ASSUME MailInv, MailInv', NEW m, NEW i, HandleFragmentTooSmall(m, i)
  PROVE  Storage!HandleFragmentTooSmall(m, i)
<1>1. PICK sb : sb = [bundles[i] EXCEPT !.min = TRUE]
  OBVIOUS
<1>2. Announce(<<sb>>)
  BY <1>1 DEF HandleFragmentTooSmall
<1>3. Storage!Announce(<<sb>>)
  <2>1. <<sb>> \in Seq({sb})
    OBVIOUS
  <2> QED
    BY <1>2, <2>1, AnnounceSeen
<1> QED
  BY <1>1, <1>3, SameParts DEF HandleFragmentTooSmall, Storage!HandleFragmentTooSmall,
     historyVars, Storage!historyVars

\* A bundle is updated.
LEMMA UpdateSeen ==
  ASSUME MailInv, MailInv', NEW m, NEW i, HandleUpdateBundle(m, i)
  PROVE  Storage!HandleUpdateBundle(m, i)
<1>1. PICK new : new = [bundles[i] EXCEPT !.state = m.newState,
                          !.data = IF m.newHops = -1 THEN @
                                   ELSE [id |-> nextData, hops |-> m.newHops]]
  OBVIOUS
<1>2. Announce(<<new>>)
  BY <1>1 DEF HandleUpdateBundle
<1>3. Storage!Announce(<<new>>)
  <2>1. <<new>> \in Seq({new})
    OBVIOUS
  <2> QED
    BY <1>2, <2>1, AnnounceSeen
<1> QED
  BY <1>1, <1>3, SameParts DEF HandleUpdateBundle, Storage!HandleUpdateBundle

\* The handlers that send no mail.
LEMMA QuietSeen ==
  ASSUME NEW m, NEW i
  PROVE  /\ HandleFinishedBundle(m, i) => Storage!HandleFinishedBundle(m, i)
         /\ HandleFragmentPanic(m, i) => Storage!HandleFragmentPanic(m, i)
         /\ HandleUnknownBundle(m, i) => Storage!HandleUnknownBundle(m, i)
<1>1. HandleFinishedBundle(m, i) => Storage!HandleFinishedBundle(m, i)
  BY SameParts DEF HandleFinishedBundle, Storage!HandleFinishedBundle, Final,
     Storage!Final, historyVars, Storage!historyVars
<1>2. HandleFragmentPanic(m, i) => Storage!HandleFragmentPanic(m, i)
  BY SameParts DEF HandleFragmentPanic, Storage!HandleFragmentPanic, historyVars,
     Storage!historyVars
<1>3. HandleUnknownBundle(m, i) => Storage!HandleUnknownBundle(m, i)
  BY SameParts DEF HandleUnknownBundle, Storage!HandleUnknownBundle, storageVars,
     Storage!storageVars, historyVars, Storage!historyVars
<1> QED
  BY <1>1, <1>2, <1>3

\* The choice of the fragments.
LEMMA SameFragments ==
  /\ \A w, F : Storage!CanReassemble(w, F) <=> CanReassemble(w, F)
  /\ \A F : Storage!FirstFragment(F) = FirstFragment(F)
  /\ \A K : Storage!InOrder(K) = InOrder(K)
  /\ \A s, f : Storage!Pick(s, f) = Pick(s, f)
<1>1. \A w, F : Storage!CanReassemble(w, F) <=> CanReassemble(w, F)
  <2>1. ASSUME NEW w, NEW F
        PROVE  Storage!CanReassemble(w, F) <=> CanReassemble(w, F)
    <3>1. {Storage!HeaderOf(f.pb).span : f \in F} = {HeaderOf(f.pb).span : f \in F}
      BY SameHeader
    <3>2. Storage!HeaderOf(w) = HeaderOf(w)
      BY SameHeader
    <3> QED
      BY <3>1, <3>2, Zenon DEF Storage!CanReassemble, CanReassemble
  <2> QED
    BY <2>1
<1>2. \A F : Storage!FirstFragment(F) = FirstFragment(F)
  BY DEF Storage!FirstFragment, FirstFragment, Storage!HeaderOf, HeaderOf
<1>3. \A K : Storage!InOrder(K) = InOrder(K)
  <2>1. ASSUME NEW K
        PROVE  Storage!InOrder(K) = InOrder(K)
    <3>1. ASSUME NEW f
          PROVE  f \in Storage!InOrder(K) <=> f \in InOrder(K)
      BY SameCardinality DEF Storage!InOrder, InOrder
    <3> QED
      BY <3>1
  <2> QED
    BY <2>1
<1>4. \A s, f : Storage!Pick(s, f) = Pick(s, f)
  BY Zenon DEF Storage!Pick, Pick
<1> QED
  BY <1>1, <1>2, <1>3, <1>4

\* Fragments are reassembled, or wait for the others.
LEMMA DefragmentSeen ==
  ASSUME MailInv, MailInv', NEW m, NEW i, HandleDefragmentBundle(m, i)
  PROVE  Storage!HandleDefragmentBundle(m, i)
<1> DEFINE whole == HeaderOf(bundles[i].pb).whole
           stored == Append(Without(bundles, i), bundles[i])
           parts == {k \in 1..Len(stored) : /\ HeaderOf(stored[k].pb).fragment
                                            /\ HeaderOf(stored[k].pb).whole = whole}
           others == 1..Len(stored) \ parts
           fragments == {stored[k] : k \in parts}
           sb == [pb |-> whole, state |-> "Valid", min |-> FALSE,
                  data |-> [id |-> nextData, hops |-> FirstFragment(fragments).data.hops]]
           seenWhole == Storage!HeaderOf(bundles[i].pb).whole
           seenStored == Append(Storage!Without(bundles, i), bundles[i])
           seenParts == {k \in 1..Len(seenStored) :
                          /\ Storage!HeaderOf(seenStored[k].pb).fragment
                          /\ Storage!HeaderOf(seenStored[k].pb).whole = seenWhole}
           seenOthers == 1..Len(seenStored) \ seenParts
           seenFragments == {seenStored[k] : k \in seenParts}
           seenBundle == [pb |-> seenWhole, state |-> "Valid", min |-> FALSE,
                          data |-> [id |-> nextData,
                                    hops |-> Storage!FirstFragment(seenFragments).data.hops]]
           Done(w, s, r, t, F, b) ==
             \/ /\ CanReassemble(w, F)
                /\ bundles' = Append(Pick(s, r), b)
                /\ writes' = <<WriteOf(b)>>
                /\ deletes' = deletes \cup {DeleteOf(f.pb) : f \in F}
                /\ Announce(<<b>>)
                /\ nextData' = nextData + 1
                /\ validated' = validated \cup {w}
                /\ replaced' = replaced \cup {<<f.pb, w>> : f \in F}
             \/ /\ ~CanReassemble(w, F)
                /\ bundles' = Pick(s, r) \o Pick(s, t)
                /\ UNCHANGED <<writes, deletes, bpaMail, nextData, validated, replaced>>
           SeenDone(w, s, r, t, F, b) ==
             \/ /\ Storage!CanReassemble(w, F)
                /\ bundles' = Append(Storage!Pick(s, r), b)
                /\ writes' = <<Storage!WriteOf(b)>>
                /\ deletes' = deletes \cup {Storage!DeleteOf(f.pb) : f \in F}
                /\ Storage!Announce(<<b>>)
                /\ nextData' = nextData + 1
                /\ validated' = validated \cup {w}
                /\ replaced' = replaced \cup {<<f.pb, w>> : f \in F}
             \/ /\ ~Storage!CanReassemble(w, F)
                /\ bundles' = Storage!Pick(s, r) \o Storage!Pick(s, t)
                /\ UNCHANGED <<writes, deletes, Keep(bpaMail, Announcements), nextData,
                               validated, replaced>>
<1>1. /\ HandlesBundle(m, "UpdateBundle", i) /\ m.newState = "DefragmentationPending"
      /\ UNCHANGED <<files, bsa, boot, crashes, finished, torn, failed, written>>
  BY DEF HandleDefragmentBundle
<1>2. PICK rest \in InOrder(others), taken \in InOrder(parts) :
        Done(whole, stored, rest, taken, fragments, sb)
  BY DEF HandleDefragmentBundle
<1>3. ASSUME NEW w, NEW s, NEW r, NEW t, NEW F, NEW b, Done(w, s, r, t, F, b)
      PROVE  SeenDone(w, s, r, t, F, b)
  <2>1. Storage!CanReassemble(w, F) <=> CanReassemble(w, F)
    BY SameFragments
  <2>2. /\ Storage!Pick(s, r) = Pick(s, r) /\ Storage!Pick(s, t) = Pick(s, t)
        /\ Storage!WriteOf(b) = WriteOf(b)
    BY SameFragments, SameParts
  <2>3. {Storage!DeleteOf(f.pb) : f \in F} = {DeleteOf(f.pb) : f \in F}
    BY SameParts
  <2>4. Announce(<<b>>) => Storage!Announce(<<b>>)
    <3>1. <<b>> \in Seq({b})
      OBVIOUS
    <3> QED
      BY <3>1, AnnounceSeen
  <2> QED
    BY <1>3, <2>1, <2>2, <2>3, <2>4
<1>4. seenWhole = whole
  BY SameHeader
<1>5. seenStored = stored
  BY SameParts
<1> HIDE DEF whole, stored, seenWhole, seenStored
<1>6. seenParts = parts
  BY <1>4, <1>5, SameHeader
<1>7. seenOthers = others /\ seenFragments = fragments
  BY <1>5, <1>6
<1> HIDE DEF parts, others, fragments, seenParts, seenOthers, seenFragments
<1>8. seenBundle = sb
  BY <1>4, <1>7, SameFragments
<1> HIDE DEF sb, seenBundle, Done, SeenDone
<1>9. SeenDone(seenWhole, seenStored, rest, taken, seenFragments, seenBundle)
  BY <1>2, <1>3, <1>4, <1>5, <1>7, <1>8, Zenon
<1>10. rest \in Storage!InOrder(seenOthers) /\ taken \in Storage!InOrder(seenParts)
  BY <1>6, <1>7, SameFragments
<1>11. Storage!HandlesBundle(m, "UpdateBundle", i)
  BY <1>1, SameParts
<1>12. \E r \in Storage!InOrder(seenOthers), t \in Storage!InOrder(seenParts) :
         SeenDone(seenWhole, seenStored, r, t, seenFragments, seenBundle)
  BY <1>9, <1>10
<1> QED
  BY <1>1, <1>11, <1>12 DEF Storage!HandleDefragmentBundle, whole, stored, seenWhole,
     seenStored, seenParts, seenOthers, seenFragments, seenBundle, SeenDone

\* Every message is handled as BundleStorage says.
LEMMA HandleSeen ==
  ASSUME MailInv, MailInv', Inv, NEW m, MessageOK(m), HandleStorageMessage(m)
  PROVE  Storage!HandleStorageMessage(m)
<1>1. CASE HandleStoreReceivedBundle(m) \/ HandleStoreNewBundle(m)
  BY <1>1, StoreSeen DEF HandleStoreReceivedBundle, HandleStoreNewBundle,
     Storage!HandleStoreReceivedBundle, Storage!HandleStoreNewBundle,
     Storage!HandleStorageMessage
<1>2. CASE HandleUnknownBundle(m, "FragmentBundle") \/ HandleUnknownBundle(m, "UpdateBundle")
  BY <1>2, QuietSeen DEF Storage!HandleStorageMessage
<1>3. ASSUME NEW i \in 1..Len(bundles),
             \/ HandleFragmentBundle(m, i) \/ HandleFragmentTooSmall(m, i)
             \/ HandleFragmentPanic(m, i) \/ HandleUpdateBundle(m, i)
             \/ HandleFinishedBundle(m, i) \/ HandleDefragmentBundle(m, i)
      PROVE  Storage!HandleStorageMessage(m)
  BY <1>3, FragmentSeen, TooSmallSeen, UpdateSeen, QuietSeen, DefragmentSeen
     DEF Storage!HandleStorageMessage
<1> QED
  BY <1>1, <1>2, <1>3 DEF HandleStorageMessage

\* The disk does the same.
LEMMA FileSeen ==
  ASSUME FileStep
  PROVE  Storage!FileStep
<1>1. CASE BeginWrite
  BY <1>1 DEF BeginWrite, PutFile, historyVars, Storage!FileStep, Storage!BeginWrite,
     Storage!PutFile, Storage!historyVars
<1>2. CASE EndWrite
  BY <1>2 DEF EndWrite, PutFile, Storage!FileStep, Storage!EndWrite, Storage!PutFile
<1>3. CASE FailWrite
  BY <1>3 DEF FailWrite, Storage!FileStep, Storage!FailWrite
<1>4. CASE PollDeletes
  BY <1>4 DEF PollDeletes, historyVars, Storage!FileStep, Storage!PollDeletes,
     Storage!historyVars
<1>5. CASE \E d \in deletes : RunDelete(d)
  BY <1>5 DEF RunDelete, historyVars, Storage!FileStep, Storage!RunDelete,
     Storage!historyVars
<1> QED
  BY <1>1, <1>2, <1>3, <1>4, <1>5 DEF FileStep

\* So does the start of the daemon.
LEMMA StartSeen ==
  ASSUME MailInv, MailInv', Inv, StartStep
  PROVE  Storage!StartStep
<1>1. Storage!Listings = Listings /\ (Storage!Readable <=> Readable)
  BY SameCardinality DEF Storage!Listings, Listings, Storage!Readable, Readable
<1>2. \A f, n : Storage!LoadedBundle(f, n) = LoadedBundle(f, n)
  BY DEF Storage!LoadedBundle, LoadedBundle
<1>3. CASE TriggerLoading
  <2>1. CASE Readable
    <3>1. PICK s \in Listings : Announce([i \in 1..Len(s) |-> LoadedBundle(s[i], 0)])
      BY <1>3, <2>1 DEF TriggerLoading
    <3>2. PICK l : l = [i \in 1..Len(s) |-> LoadedBundle(s[i], 0)]
      OBVIOUS
    <3>3. l = [i \in 1..Len(s) |-> LoadedBundle(s[i], IF 0 = 0 THEN 0 ELSE 0 + i - 1)]
      BY <3>2
    <3>4. l \in Seq(StoredBundles)
      BY <3>3, LoadedType
    <3>5. Storage!Announce(l)
      BY <3>1, <3>2, <3>4, AnnounceSeen
    <3>6. l = [i \in 1..Len(s) |-> Storage!LoadedBundle(s[i], 0)]
      BY <1>2, <3>2
    <3> QED
      BY <1>1, <1>3, <2>1, <3>5, <3>6 DEF TriggerLoading, historyVars, Storage!StartStep,
         Storage!TriggerLoading, Storage!historyVars
  <2>2. CASE ~Readable
    BY <1>1, <1>3, <2>2 DEF TriggerLoading, historyVars, Storage!StartStep,
       Storage!TriggerLoading, Storage!historyVars
  <2> QED
    BY <2>1, <2>2
<1>4. CASE StartAgent
  <2>1. CASE Readable
    <3>1. PICK s \in Listings :
            LET loaded == [i \in 1..Len(s) |-> LoadedBundle(s[i], nextData + i - 1)]
            IN  bundles' = loaded /\ Announce(loaded)
      BY <1>4, <2>1 DEF StartAgent
    <3>2. PICK l : l = [i \in 1..Len(s) |-> LoadedBundle(s[i], nextData + i - 1)]
      OBVIOUS
    <3>3. l = [i \in 1..Len(s) |-> LoadedBundle(s[i], IF 1 = 0 THEN 0 ELSE nextData + i - 1)]
      BY <3>2
    <3>4. l \in Seq(StoredBundles) /\ Announce(l) /\ bundles' = l
      <4>1. nextData \in Nat
        BY DEF Inv, StorageTypeOK
      <4> QED
        BY <3>1, <3>2, <3>3, <4>1, LoadedType
    <3>5. Storage!Announce(l)
      BY <3>4, AnnounceSeen
    <3>6. l = [i \in 1..Len(s) |-> Storage!LoadedBundle(s[i], nextData + i - 1)]
      BY <1>2, <3>2
    <3>7. /\ s \in Storage!Listings /\ Storage!Readable
          /\ nextData' = nextData + Storage!Cardinality(files)
      BY <1>1, <1>4, <2>1, SameCardinality DEF StartAgent
    <3> QED
      BY <1>4, <2>1, <3>4, <3>5, <3>6, <3>7 DEF StartAgent, historyVars, Storage!StartStep,
         Storage!StartAgent, Storage!historyVars
  <2>2. CASE ~Readable
    BY <1>1, <1>4, <2>2 DEF StartAgent, historyVars, Storage!StartStep,
       Storage!StartAgent, Storage!historyVars
  <2> QED
    BY <2>1, <2>2
<1> QED
  BY <1>3, <1>4 DEF StartStep

\* And its end.
LEMMA CrashSeen ==
  ASSUME Crash
  PROVE  Storage!Crash
<1>1. PICK S : S = Announcements
  OBVIOUS
<1>2. Keep(<<>>, S) = <<>>
  <2>1. <<>> \in Seq({}) /\ \A i \in 1..Len(<<>>) : <<>>[i] \notin S
    OBVIOUS
  <2> QED
    BY <2>1, KeepNone
<1>3. Keep(bpaMail, Announcements)' = <<>>
  <2>1. bpaMail' = <<>>
    BY DEF Crash
  <2> QED
    BY <1>1, <1>2, <2>1, Zenon
<1> QED
  BY <1>3 DEF Crash, Writing, Storage!Crash, Storage!Writing

\* The storage agent is only asked for what its contract permits.
LEMMA PermittedSeen ==
  ASSUME Observed = PrimaryBlocks, HopBudgets = Nat, NEW m \in Requests
  PROVE  m \in Storage!Permitted
<1>1. m \in StorageMessages /\ MessageOK(m) /\ InContract(m) /\ m.pb \in Observed
  BY DEF Requests, RequestOK, MessageOK
<1>2. PICK p : p = m.pb /\ p \in Observed
  BY <1>1
<1>3. /\ Storage!Local(p) <=> Local(p)
      /\ Storage!HeaderOf(p) = HeaderOf(p)
  BY SameHeader DEF Storage!Local, Local
<1>4. CASE m.type = "StoreReceivedBundle" \/ m.type = "StoreNewBundle"
  <2>1. m = [type |-> m.type, pb |-> p]
    BY <1>1, <1>2, <1>4 DEF StorageMessages
  <2> QED
    BY <1>2, <1>4, <2>1 DEF Storage!Permitted, Storage!StoreReceivedBundle,
       Storage!StoreNewBundle
<1>5. CASE m.type = "UpdateBundle"
  <2>1. PICK s, h : s = m.newState /\ h = m.newHops
    OBVIOUS
  <2>2. m = [type |-> "UpdateBundle", pb |-> p, newState |-> s, newHops |-> h]
        /\ s \in States \ {"Received"}
    BY <1>1, <1>2, <1>5, <2>1 DEF StorageMessages
  <2>3. m = Storage!UpdateBundle(p, s, h)
    BY <2>2 DEF Storage!UpdateBundle
  <2>4. /\ s = "ForwardingQueued" => h \in HopBudgets
        /\ s # "ForwardingQueued" => h = -1
        /\ s = "DefragmentationPending" => p \in validated /\ Local(p) /\ HeaderOf(p).fragment
        /\ s \in Final => p \in finished
        /\ s \in {"DeliveryQueued", "ForwardingQueued"} => p \in validated
    BY <1>1, <1>2, <1>5, <2>1 DEF MessageOK, InContract
  <2>5. CASE s = "Valid"
    BY <1>2, <2>3, <2>4, <2>5 DEF Storage!Permitted
  <2>6. CASE s = "DeliveryQueued"
    BY <2>3, <2>4, <2>6 DEF Storage!Permitted
  <2>7. CASE s = "DefragmentationPending"
    <3>1. p \in Storage!Fragments
      BY <1>3, <2>4, <2>7 DEF Storage!Fragments
    <3> QED
      BY <2>3, <2>4, <2>7, <3>1 DEF Storage!Permitted
  <2>8. CASE s = "ForwardingQueued"
    BY <2>3, <2>4, <2>8 DEF Storage!Permitted
  <2>9. CASE s \in Final
    <3>1. s \in Storage!Final /\ h = -1 /\ p \in finished
      BY <2>4, <2>9 DEF Storage!Final, Final
    <3> QED
      BY <2>3, <3>1 DEF Storage!Permitted
  <2> QED
    BY <2>2, <2>5, <2>6, <2>7, <2>8, <2>9 DEF States, Final
<1>6. CASE m.type = "FragmentBundle"
  <2>1. PICK t : t = m.target
    OBVIOUS
  <2>2. m = [type |-> "FragmentBundle", pb |-> p, target |-> t]
    BY <1>1, <1>2, <1>6, <2>1 DEF StorageMessages
  <2>3. m = Storage!FragmentBundle(p, t)
    BY <2>2 DEF Storage!FragmentBundle
  <2>4. /\ p \in validated /\ ~Local(p) /\ HeaderOf(p).mayFragment
        /\ t \in SizeLimits /\ HeaderOf(p).size > t
    BY <1>1, <1>2, <1>6, <2>1 DEF MessageOK, InContract
  <2>5. p \in Storage!Splittable /\ t \in {l \in SizeLimits : Storage!HeaderOf(p).size > l}
    BY <1>3, <2>4 DEF Storage!Splittable
  <2> QED
    BY <2>3, <2>5 DEF Storage!Permitted
<1> QED
  BY <1>1, <1>4, <1>5, <1>6 DEF StorageMessages

\* At most one bundle that was validated is finished.
Finishes == \E F \in {{}} \cup {{p} : p \in validated} : finished' = finished \cup F

\* The protocol agent takes a message; the storage agent sees whether it was one of its own.
LEMMA ProtocolSeen ==
  ASSUME DaemonInv, ProtocolAgentStep
  PROVE  Storage!ProtocolAgent
<1>1. UNCHANGED <<storageVars, validated, replaced, torn, failed, written>>
  BY ProtocolKeeps
<1>2. (\E t : Receives(t)) /\ (UNCHANGED finished \/ HandleHopLimitExceeded)
  BY DEF ProtocolAgentStep, HandleProtocolMessage, HandleReceived, HandleValidLocal,
     HandleValidRemote, HandleHopLimitExceeded, HandleDanglingReference,
     HandleDeliveryQueued, HandleForwardingQueued, HandleBundleDelivered,
     HandleBundleDeliveryFailed, HandleBundleForwarded, HandleBundleForwardingFailed,
     HandleClientConnected, HandleClientDisconnected, HandlePeerConnected,
     HandlePeerDisconnected, HandleRoutingTableUpdate, ReceivesValidRemote
<1>3. Finishes
  <2>1. CASE UNCHANGED finished
    BY <2>1 DEF Finishes
  <2>2. CASE HandleHopLimitExceeded
    <3>1. PICK r : r = Head(bpaMail).bundle
      OBVIOUS
    <3>2. ReceivesValidRemote /\ finished' = finished \cup {r.pb}
      BY <2>2, <3>1 DEF HandleHopLimitExceeded
    <3>3. r.pb \in validated
      BY <3>1, <3>2, ValidRemoteIs
    <3> QED
      BY <3>2, <3>3 DEF Finishes
  <2> QED
    BY <1>2, <2>1, <2>2
<1>4. bpaMail # <<>> /\ bpaMail' = Tail(bpaMail) /\ bpaMail \in Seq(Events)
  BY <1>2 DEF Receives, DaemonInv, MailInv
<1>5. \/ Keep(bpaMail, Announcements)' = Keep(bpaMail, Announcements)
      \/ /\ Keep(bpaMail, Announcements) # <<>>
         /\ Keep(bpaMail, Announcements)' = Tail(Keep(bpaMail, Announcements))
  <2>1. PICK S : S = Announcements /\ S = Announcements'
    BY DEF Announcements, StoredBundles, PrimaryBlocks, Data, States, Reports
  <2>2. IF Head(bpaMail) \in S
        THEN Keep(bpaMail, S) # <<>> /\ Keep(Tail(bpaMail), S) = Tail(Keep(bpaMail, S))
        ELSE Keep(Tail(bpaMail), S) = Keep(bpaMail, S)
    BY <1>4, KeepTail
  <2>3. Keep(bpaMail, Announcements)' = Keep(Tail(bpaMail), S)
    BY <1>4, <2>1, Zenon
  <2> QED
    BY <2>1, <2>2, <2>3, Zenon
<1> QED
  BY <1>1, <1>3, <1>5 DEF Storage!ProtocolAgent, Finishes, storageVars, Storage!storageVars

\* What clients, sessions and the routing agent tell is no announcement, and they
\* finish at most one bundle.
LEMMA OutsideTells ==
  ASSUME DaemonInv, Outside
  PROVE  /\ Finishes
         /\ UNCHANGED bpaMail \/ \E m : Tell(m) /\ m \notin Announcements
<1> DEFINE Tells == UNCHANGED bpaMail \/ \E m : Tell(m) /\ m.type # "EventBundleUpdated"
<1>1. ASSUME NEW c \in Clients, ClientStep(c)
      PROVE  Finishes /\ Tells
  <2>1. Tells
    BY <1>1 DEF ClientStep, ListenConnect, PollStream, DropStream, PassToStream,
       StopListening, FailDelivery, BundleDelivered, BundleDeliveryFailed
  <2>2. UNCHANGED finished \/ PollStream(c)
    BY <1>1 DEF ClientStep, ListenConnect, DropStream, PassToStream, StopListening,
       FailDelivery
  <2>3. CASE UNCHANGED finished
    BY <2>1, <2>3 DEF Finishes
  <2>4. CASE PollStream(c)
    <3>1. PICK r : r = Head(channel[c])
      OBVIOUS
    <3>2. channel[c] # <<>> /\ channel[c] \in Seq(ForClients)
      BY <2>4 DEF PollStream, DaemonInv, StreamsInv
    <3>3. r.pb \in validated
      BY <3>1, <3>2, HeadTailProperties DEF ForClients
    <3>4. finished' = finished \cup {r.pb} \/ UNCHANGED finished
      BY <2>4, <3>1 DEF PollStream
    <3> QED
      BY <2>1, <3>3, <3>4 DEF Finishes
  <2> QED
    BY <2>2, <2>3, <2>4
<1>2. ASSUME NEW s \in Sessions, SessionStep(s)
      PROVE  Finishes /\ Tells
  <2>1. Tells
    BY <1>2 DEF SessionStep, PeerConnect, TakeForForwarding, Acknowledge, Refuse,
       EndSession, ForwardResult
  <2>2. UNCHANGED finished \/ Acknowledge(s)
    BY <1>2 DEF SessionStep, PeerConnect, TakeForForwarding, Refuse, EndSession
  <2>3. CASE UNCHANGED finished
    BY <2>1, <2>3 DEF Finishes
  <2>4. CASE Acknowledge(s)
    <3>1. PICK r : r = Head(inFlight[s])
      OBVIOUS
    <3>2. inFlight[s] # <<>> /\ inFlight[s] \in Seq(ForPeers)
      BY <2>4 DEF Acknowledge, ForwardResult, DaemonInv, RemoteInv
    <3>3. r.pb \in validated
      BY <3>1, <3>2, HeadTailProperties DEF ForPeers
    <3>4. finished' = finished \cup {r.pb}
      BY <2>4, <3>1 DEF Acknowledge
    <3> QED
      BY <2>1, <3>3, <3>4 DEF Finishes
  <2> QED
    BY <2>2, <2>3, <2>4
<1>3. ASSUME NEW m \in answers, Answer(m)
      PROVE  Finishes /\ Tells
  <2>1. m \in Forwardings
    BY <1>3 DEF DaemonInv, MailInv
  <2>2. m.type # "EventBundleUpdated"
    BY <2>1 DEF Forwardings
  <2> QED
    BY <1>3, <2>2 DEF Answer, Finishes
<1>4. ASSUME RoutingAgentStep
      PROVE  Finishes /\ Tells
  <2>1. UNCHANGED bpaMail \/ send_route_update
    BY <1>4 DEF RoutingAgentStep, HandleAddRoute, HandleRemoveRoute
  <2>2. ASSUME send_route_update
        PROVE  Tells
    BY <2>2 DEF send_route_update, Tell
  <2>3. UNCHANGED finished
    BY <1>4 DEF RoutingAgentStep
  <2> QED
    BY <2>1, <2>2, <2>3 DEF Finishes
<1>5. ASSUME (\E b \in Bundles : SubmitBundle(b) \/ ReceiveTransfer(b)) \/ \E m : ChangeRoute(m)
      PROVE  Finishes /\ Tells
  BY <1>5 DEF SubmitBundle, ReceiveTransfer, Arrives, ChangeRoute, Finishes
<1>6. Finishes /\ Tells
  BY <1>1, <1>2, <1>3, <1>4, <1>5 DEF Outside
<1> QED
  BY <1>6 DEF Announcements

\* They are not seen, but for the bundle they may finish.
LEMMA OutsideSeen ==
  ASSUME DaemonInv, Outside
  PROVE  Storage!ProtocolAgent
<1>1. UNCHANGED <<storageVars, validated, replaced, torn, failed, written>>
  BY OutsideKeeps
<1>2. Finishes
  BY OutsideTells
<1>3. Keep(bpaMail, Announcements)' = Keep(bpaMail, Announcements)
  <2>1. PICK S : S = Announcements /\ S = Announcements'
    BY DEF Announcements, StoredBundles, PrimaryBlocks, Data, States, Reports
  <2>2. CASE UNCHANGED bpaMail
    BY <2>1, <2>2, Zenon
  <2>3. ASSUME NEW m, Tell(m), m \notin Announcements
        PROVE  Keep(bpaMail, Announcements)' = Keep(bpaMail, Announcements)
    <3>1. PICK X : X = Events \cup {m}
      OBVIOUS
    <3>2. bpaMail \in Seq(X) /\ m \in X
      BY <3>1, SeqMonotonic DEF DaemonInv, MailInv
    <3>3. Keep(Append(bpaMail, m), S) = Keep(bpaMail, S)
      BY <2>1, <2>3, <3>2, KeepAppend
    <3>4. bpaMail' = Append(bpaMail, m)
      BY <2>3 DEF Tell
    <3> QED
      BY <2>1, <3>3, <3>4, Zenon
  <2> QED
    BY <2>2, <2>3, OutsideTells
<1> QED
  BY <1>1, <1>2, <1>3 DEF Storage!ProtocolAgent, Finishes, storageVars, Storage!storageVars

\* The first state is seen as the first state of BundleStorage.
LEMMA InitSeen ==
  ASSUME Init
  PROVE  Storage!Init
<1>1. PICK S : S = Announcements
  OBVIOUS
<1>2. Keep(<<>>, S) = <<>>
  <2>1. <<>> \in Seq({}) /\ \A i \in 1..Len(<<>>) : <<>>[i] \notin S
    OBVIOUS
  <2> QED
    BY <2>1, KeepNone
<1>3. Keep(bpaMail, Announcements) = <<>>
  <2>1. bpaMail = <<>>
    BY DEF Init, StorageInit
  <2> QED
    BY <1>1, <1>2, <2>1, Zenon
<1> QED
  BY <1>3 DEF Init, StorageInit, Storage!Init, Storage!StorageInit

\* Every step of the daemon is seen as a step of BundleStorage, or not at all.
LEMMA NextSeen ==
  ASSUME Observed = PrimaryBlocks, HopBudgets = Nat, DaemonInv, [Next]_vars
  PROVE  [Storage!Next]_(Storage!vars)
<1>1. DaemonInv'
  BY NextDaemon
<1>2. Inv /\ MailInv /\ MailInv'
  BY <1>1 DEF DaemonInv
<1>3. CASE StorageAgentStep
  <2>1. CASE bsaMail # <<>> /\ HandleStorageMessage(Head(bsaMail))
    <3>1. PICK m : m = Head(bsaMail)
      OBVIOUS
    <3>2. m \in Requests
      BY <1>2, <2>1, <3>1, HeadTailProperties DEF MailInv
    <3>3. m \in Storage!Permitted
      BY <3>2, PermittedSeen
    <3>4. MessageOK(m) /\ HandleStorageMessage(m)
      BY <2>1, <3>1, <3>2 DEF Requests, RequestOK
    <3>5. Storage!HandleStorageMessage(m)
      BY <1>2, <3>4, HandleSeen
    <3> QED
      BY <3>3, <3>5 DEF Storage!Next, Storage!Handle
  <2>2. CASE FileStep
    BY <2>2, FileSeen DEF Storage!Next
  <2> QED
    BY <1>3, <2>1, <2>2 DEF StorageAgentStep
<1>4. CASE StartStorageAgent
  <2>1. StartStep
    BY <1>4 DEF StartStorageAgent, StartStep
  <2> QED
    BY <1>2, <2>1, StartSeen DEF Storage!Next
<1>5. CASE ProtocolAgentStep
  BY <1>5, ProtocolSeen DEF Storage!Next
<1>6. CASE CrashDaemon
  BY <1>6, CrashSeen DEF CrashDaemon, Storage!Next
<1>7. CASE Outside
  BY <1>7, OutsideSeen DEF Storage!Next
<1>8. CASE UNCHANGED vars
  <2>1. UNCHANGED <<bpaMail, storageVars, historyVars>>
    BY <1>8 DEF vars
  <2>2. UNCHANGED Keep(bpaMail, Announcements)
    <3>1. PICK S : S = Announcements /\ S = Announcements'
      BY DEF Announcements, StoredBundles, PrimaryBlocks, Data, States, Reports
    <3>2. bpaMail' = bpaMail
      BY <2>1
    <3> QED
      BY <3>1, <3>2, Zenon
  <2> QED
    BY <2>1, <2>2 DEF storageVars, historyVars, Storage!vars, Storage!storageVars,
       Storage!historyVars
<1> QED
  BY <1>3, <1>4, <1>5, <1>6, <1>7, <1>8, OutsideIs

\* The daemon keeps the contract of BundleStorage, restarts included: whatever bundles
\* and hop budgets there are, the storage agent sees a protocol agent that only asks
\* for what it may, and every step of the daemon is one of BundleStorage or unseen.
THEOREM StorageContract ==
  ASSUME Observed = PrimaryBlocks, HopBudgets = Nat
  PROVE  Spec => ImplementsStorage
<1>1. Init => Storage!Init
  BY InitSeen
<1>2. DaemonInv /\ [Next]_vars => [Storage!Next]_(Storage!vars)
  BY NextSeen
<1> QED
  BY <1>1, <1>2, Invariance, PTL DEF Spec, ImplementsStorage, Storage!Spec
===============================================================================

------------------------- MODULE FragmentationProofs -------------------------
(***************************************************************************)
(* Splitting and reassembly, for bundles, blocks and sizes of any number   *)
(* and size: the pieces of a copy always are a partition of the payload,   *)
(* the first of them has all blocks, the assertions of Bundle::fragment    *)
(* fail only where AssertionsExplained says, and what is put together from *)
(* fragments in any order is exactly the bundle that was sent.             *)
(***************************************************************************)
EXTENDS Fragmentation, RecursionProofs, SequenceTheorems, FiniteSetTheorems, TLAPS

-------------------------------------------------------------------------------
(* The inductive invariant.  That pieces do not overlap and leave nothing out     *)
(* speaks of sets, so a piece must not be on its way and at the destination at    *)
(* once; and a piece is the interval its offset says, within the payload, or it   *)
(* could not be said what its slices are.                                         *)

Pieces == [copy : Copies, fragment_offset : Int, total_data_length : Int,
           blocks : SUBSET Blocks, data : [from : Nat, to : Nat]]

PieceInv(p) ==
  /\ p \in Pieces /\ p.data.from < p.data.to /\ p.data.to <= original.length
  /\ IF IsFragment(p)
     THEN p.fragment_offset = p.data.from /\ p.total_data_length = original.length
     ELSE p = Whole(p.copy)
  /\ p.data.from = 0 => p.blocks = original.blocks

Apart(p, q) == p.data.to <= q.data.from \/ q.data.to <= p.data.from

AreApart(ps) == \A p, q \in ps : p # q /\ p.copy = q.copy => Apart(p, q)

AreAll(ps) == \A c \in Copies : \A i \in 0..(original.length - 1) :
                \E p \in ps : p.copy = c /\ Has(p, i)

Inv ==
  /\ original \in Originals
  /\ received \in Seq(Pieces) /\ \A i \in DOMAIN received : IsFragment(received[i])
  /\ pieces \cap Range(received) = {}
  /\ \A p \in Everything : PieceInv(p)
  /\ AreApart(Everything) /\ AreAll(Everything)
  /\ panic.reason \in {"none", "empty", "oversize"} /\ AssertionsExplained

-------------------------------------------------------------------------------
(* Arithmetic *)

\* Division rounds down.
LEMMA Division ==
  ASSUME NEW x \in Int, NEW d \in Nat \ {0}
  PROVE  x \div d \in Int /\ (x \div d) * d <= x /\ x < ((x \div d) + 1) * d
OBVIOUS

\* Multiples of d are at least d apart.
LEMMA Multiples ==
  ASSUME NEW d \in Nat \ {0}, NEW k \in Int, NEW l \in Int, k < l
  PROVE  k * d + d <= l * d
<1>1. (l - k - 1) * d >= 0
  <2>1. l - k - 1 \in Nat /\ d \in Nat
    OBVIOUS
  <2> QED
    BY <2>1
<1>2. (l - k - 1) * d = l * d - k * d - d
  OBVIOUS
<1> QED
  BY <1>1, <1>2

\* Where fragments of a payload of len bytes start, when the first takes first
\* bytes and every other later bytes.
Offsets(len, first, later) ==
  {0} \cup {first + k * later : k \in 0..((len - first - 1) \div later)}

Takes(first, later, off) == IF off = 0 THEN first ELSE later

\* All of them start within the payload.
LEMMA OffsetsWithin ==
  ASSUME NEW len \in Nat \ {0}, NEW first \in Nat \ {0}, NEW later \in Nat \ {0},
         NEW off \in Offsets(len, first, later)
  PROVE  /\ off \in Nat /\ off < len
         /\ off # 0 => \E k \in Nat : off = first + k * later
<1>1. CASE off = 0
  BY <1>1
<1>2. CASE off # 0
  <2>1. PICK k \in 0..((len - first - 1) \div later) : off = first + k * later
    BY <1>2 DEF Offsets
  <2>2. PICK q : q = (len - first - 1) \div later
    OBVIOUS
  <2>3. q \in Int /\ q * later <= len - first - 1
    BY <2>2, Division
  <2>4. k \in Nat /\ k <= q
    BY <2>1, <2>2, <2>3
  <2>5. k * later \in Nat
    BY <2>4
  <2>6. k * later <= q * later
    <3>1. CASE k = q
      BY <3>1
    <3>2. CASE k < q
      <4>1. k * later + later <= q * later
        BY <2>3, <2>4, <3>2, Multiples
      <4> QED
        BY <2>3, <2>5, <4>1
    <3> QED
      BY <2>3, <2>4, <3>1, <3>2
  <2>7. off \in Nat /\ off < len
    BY <2>1, <2>3, <2>5, <2>6
  <2> QED
    BY <2>1, <2>4, <2>7
<1> QED
  BY <1>1, <1>2

\* A fragment ends before the next one starts.
LEMMA OffsetsApart ==
  ASSUME NEW len \in Nat \ {0}, NEW first \in Nat \ {0}, NEW later \in Nat \ {0},
         NEW off \in Offsets(len, first, later), NEW o2 \in Offsets(len, first, later),
         off < o2
  PROVE  off + Takes(first, later, off) <= o2
<1>1. off \in Nat /\ o2 \in Nat /\ o2 # 0
  BY OffsetsWithin
<1>2. PICK l \in Nat : o2 = first + l * later
  BY <1>1, OffsetsWithin
<1>3. l * later \in Nat
  BY <1>2
<1>4. CASE off = 0
  BY <1>2, <1>3, <1>4 DEF Takes
<1>5. CASE off # 0
  <2>1. PICK k \in Nat : off = first + k * later
    BY <1>5, OffsetsWithin
  <2>2. k * later \in Nat
    BY <2>1
  <2>3. k < l
    <3>1. CASE l < k
      <4>1. l * later + later <= k * later
        BY <3>1, Multiples
      <4> QED
        BY <1>2, <1>3, <2>1, <2>2, <4>1
    <3>2. CASE k = l
      BY <1>2, <2>1, <3>2
    <3> QED
      BY <3>1, <3>2
  <2>4. k * later + later <= l * later
    BY <2>3, Multiples
  <2> QED
    BY <1>2, <1>3, <1>5, <2>1, <2>2, <2>4 DEF Takes
<1> QED
  BY <1>4, <1>5

\* Every byte is in a fragment.
LEMMA OffsetsCover ==
  ASSUME NEW len \in Nat \ {0}, NEW first \in Nat \ {0}, NEW later \in Nat \ {0},
         NEW i \in Nat, i < len
  PROVE  \E off \in Offsets(len, first, later) :
           off <= i /\ i < off + Takes(first, later, off)
<1>1. CASE i < first
  <2>1. 0 \in Offsets(len, first, later)
    BY DEF Offsets
  <2> QED
    BY <1>1, <2>1 DEF Takes
<1>2. CASE i >= first
  <2>1. PICK k : k = (i - first) \div later
    OBVIOUS
  <2>2. k \in Int /\ k * later <= i - first /\ i - first < (k + 1) * later
    BY <2>1, Division
  <2>3. PICK q : q = (len - first - 1) \div later
    OBVIOUS
  <2>4. q \in Int /\ len - first - 1 < (q + 1) * later
    BY <2>3, Division
  <2>5. k >= 0
    <3>1. SUFFICES ASSUME k + 1 <= 0
                   PROVE  FALSE
      BY <2>2
    <3>2. (k + 1) * later <= 0
      <4>1. CASE k + 1 = 0
        BY <4>1
      <4>2. CASE k + 1 < 0
        <5>1. (k + 1) * later + later <= 0 * later
          BY <2>2, <4>2, Multiples
        <5> QED
          BY <2>2, <5>1
      <4> QED
        BY <2>2, <3>1, <4>1, <4>2
    <3> QED
      BY <1>2, <2>2, <3>2
  <2>6. k <= q
    <3>1. SUFFICES ASSUME q < k
                   PROVE  FALSE
      BY <2>2, <2>4
    <3>2. q * later + later <= k * later
      BY <2>2, <2>4, <3>1, Multiples
    <3>3. (q + 1) * later = q * later + later /\ q * later \in Int /\ k * later \in Int
      BY <2>2, <2>4
    <3> QED
      BY <2>2, <2>4, <3>2, <3>3
  <2>7. PICK off : off = first + k * later
    OBVIOUS
  <2>8. off \in Offsets(len, first, later)
    <3>1. k \in 0..q
      BY <2>2, <2>4, <2>5, <2>6
    <3> QED
      BY <2>3, <2>7, <3>1 DEF Offsets
  <2>9. k * later \in Nat /\ (k + 1) * later = k * later + later
    BY <2>2, <2>5
  <2>10. off <= i /\ i < off + later /\ off # 0
    BY <2>2, <2>7, <2>9
  <2> QED
    BY <2>8, <2>10 DEF Takes
<1> QED
  BY <1>1, <1>2

\* The smaller of two numbers.
LEMMA MinIs ==
  ASSUME NEW a \in Int, NEW b \in Int
  PROVE  Min({a, b}) = IF a <= b THEN a ELSE b
BY DEF Min
-------------------------------------------------------------------------------
(* Pieces *)

\* What a bundle that is sent consists of.
LEMMA OriginalType ==
  ASSUME original \in Originals
  PROVE  /\ original.primary \in Nat /\ original.head \in Nat /\ original.head <= 41
         /\ original.length \in Nat \ {0} /\ original.blocks \in SUBSET Blocks
<1>1. original \in [primary : Nat, head : 5..41, length : Nat \ {0}, blocks : SUBSET Blocks]
  BY FragmentationAssumption
<1> QED
  BY <1>1

\* The numbers of a piece.
LEMMA PieceNumbers ==
  ASSUME original \in Originals, NEW p, PieceInv(p)
  PROVE  /\ p.data.from \in Nat /\ p.data.to \in Nat /\ Length(p) \in Nat \ {0}
         /\ Length(p) = p.data.to - p.data.from
         /\ p.copy \in Copies /\ p.blocks \in SUBSET Blocks
         /\ global_payload_offset(p) = p.data.from
         /\ total_data_length(p) = original.length
<1>1. /\ p.data.from \in Nat /\ p.data.to \in Nat /\ p.copy \in Copies
      /\ p.blocks \in SUBSET Blocks /\ p.data.from < p.data.to
  BY DEF PieceInv, Pieces
<1>2. Length(p) \in Nat \ {0} /\ Length(p) = p.data.to - p.data.from
  BY <1>1 DEF Length
<1>3. CASE IsFragment(p)
  <2>1. p.fragment_offset = p.data.from /\ p.total_data_length = original.length
    BY <1>3 DEF PieceInv
  <2> QED
    BY <1>1, <1>2, <1>3, <2>1 DEF global_payload_offset, total_data_length
<1>4. CASE ~IsFragment(p)
  <2>1. p = Whole(p.copy)
    BY <1>4 DEF PieceInv
  <2>2. p.data.from = 0 /\ p.data.to = original.length
    BY <2>1 DEF Whole
  <2>3. Length(p) = original.length
    BY <1>2, <2>2, OriginalType
  <2> QED
    BY <1>1, <1>2, <1>4, <2>2, <2>3 DEF global_payload_offset, total_data_length
<1> QED
  BY <1>3, <1>4

\* The encoded size of a number.
LEMMA CborIs ==
  ASSUME NEW n \in Nat
  PROVE  Cbor(n) \in Nat /\ 1 <= Cbor(n) /\ Cbor(n) <= 9
BY DEF Cbor

\* The primary block grows by at most 18 bytes.
LEMMA PrimaryIs ==
  ASSUME original \in Originals, NEW p, PieceInv(p)
  PROVE  /\ PrimarySize(p) \in Nat /\ original.primary <= PrimarySize(p)
         /\ PrimarySize(p) <= original.primary + 18
<1>1. original.primary \in Nat /\ original.length \in Nat
  BY OriginalType
<1>2. CASE IsFragment(p)
  <2>1. p.fragment_offset \in Nat /\ p.total_data_length \in Nat
    BY <1>1, <1>2, PieceNumbers DEF PieceInv
  <2>2. /\ Cbor(p.fragment_offset) \in Nat /\ Cbor(p.fragment_offset) <= 9
        /\ Cbor(p.total_data_length) \in Nat /\ Cbor(p.total_data_length) <= 9
    BY <2>1, CborIs
  <2> QED
    BY <1>1, <1>2, <2>2 DEF PrimarySize
<1>3. CASE ~IsFragment(p)
  BY <1>1, <1>3 DEF PrimarySize
<1> QED
  BY <1>2, <1>3

\* Running sums of the sizes of the blocks bs.
Sums(f, bs) ==
  f = [n \in 0..Len(BlockSize) |->
         IF n = 0 THEN 0 ELSE f[n - 1] + IF n \in bs THEN BlockSize[n] ELSE 0]

\* The size of blocks is the last of these sums.
LEMMA SumsExist ==
  ASSUME NEW bs
  PROVE  \E f : Sums(f, bs) /\ Weight(bs) = f[Len(BlockSize)]
<1>1. PICK N \in Nat : N = Len(BlockSize)
  BY FragmentationAssumption, LenProperties
<1>2. \A n \in 1..N : BlockSize[n] \in Nat
  BY <1>1, FragmentationAssumption, ElementOfSeq
<1>3. PICK g : g = [x \in (1..N) \X Nat |->
                      x[2] + IF x[1] \in bs THEN BlockSize[x[1]] ELSE 0]
  OBVIOUS
<1>4. \A n \in 1..N : \A w \in Nat :
        g[<<n, w>>] = w + IF n \in bs THEN BlockSize[n] ELSE 0
  BY <1>3
<1>5. g \in [(1..N) \X Nat -> Nat]
  BY <1>2, <1>3
<1>6. PICK f : f \in [0..N -> Nat] /\ f[0] = 0 /\ \A n \in 1..N : f[n] = g[<<n, f[n - 1]>>]
  <2>1. 0 \in Nat
    OBVIOUS
  <2>2. \E f : Iterates(f, N, Nat, 0, g)
    BY <1>5, <2>1, Recursion, Zenon
  <2> QED
    BY <2>2 DEF Iterates
<1>7. f = [n \in 0..N |->
             IF n = 0 THEN 0 ELSE f[n - 1] + IF n \in bs THEN BlockSize[n] ELSE 0]
  <2>1. ASSUME NEW n \in 1..N
        PROVE  f[n] = f[n - 1] + IF n \in bs THEN BlockSize[n] ELSE 0
    <3>1. f[n] = g[<<n, f[n - 1]>>] /\ f[n - 1] \in Nat
      BY <1>6
    <3> QED
      BY <1>4, <3>1
  <2> QED
    BY <1>6, <2>1
<1>8. Sums(f, bs)
  BY <1>1, <1>7 DEF Sums
<1>9. PICK h : h = CHOOSE k : Sums(k, bs)
  OBVIOUS
<1>10. Sums(h, bs)
  BY <1>8, <1>9, Zenon
<1>11. Weight(bs) = h[Len(BlockSize)]
  BY <1>9, Zenon DEF Weight, Sums
<1> QED
  BY <1>10, <1>11

\* The values of running sums.
LEMMA SumsAre ==
  ASSUME NEW bs, NEW f, Sums(f, bs)
  PROVE  /\ f[0] = 0
         /\ \A n \in 1..Len(BlockSize) :
              f[n] = f[n - 1] + IF n \in bs THEN BlockSize[n] ELSE 0
         /\ \A n \in 0..Len(BlockSize) : f[n] \in Nat
<1>1. PICK N \in Nat : N = Len(BlockSize)
  BY FragmentationAssumption, LenProperties
<1>2. \A n \in 1..N : BlockSize[n] \in Nat
  BY <1>1, FragmentationAssumption, ElementOfSeq
<1>3. f = [n \in 0..N |->
             IF n = 0 THEN 0 ELSE f[n - 1] + IF n \in bs THEN BlockSize[n] ELSE 0]
  BY <1>1 DEF Sums
<1>4. /\ f[0] = 0
      /\ \A n \in 1..N : f[n] = f[n - 1] + IF n \in bs THEN BlockSize[n] ELSE 0
  BY <1>3
<1>5. PICK T : T = {n \in 0..N : f[n] \in Nat}
  OBVIOUS
<1>6. 0 \in T
  BY <1>4, <1>5
<1>7. ASSUME NEW n \in 1..N, n - 1 \in T
      PROVE  n \in T
  BY <1>2, <1>4, <1>5, <1>7
<1>8. \A n \in 0..N : n \in T
  BY <1>6, <1>7, Induction
<1> QED
  BY <1>1, <1>4, <1>5, <1>8

\* The size of blocks can be taken in two parts.
LEMMA WeightIs ==
  ASSUME NEW bs \in SUBSET Blocks
  PROVE  /\ Weight(bs) \in Nat /\ Weight(bs \cap Replicated) \in Nat
         /\ Weight(bs \ Replicated) \in Nat
         /\ Weight(bs) = Weight(bs \cap Replicated) + Weight(bs \ Replicated)
<1>1. PICK N \in Nat : N = Len(BlockSize)
  BY FragmentationAssumption, LenProperties
<1>2. \A n \in 1..N : BlockSize[n] \in Nat
  BY <1>1, FragmentationAssumption, ElementOfSeq
<1>3. PICK f : Sums(f, bs) /\ Weight(bs) = f[N]
  BY <1>1, SumsExist
<1>4. PICK g : Sums(g, bs \cap Replicated) /\ Weight(bs \cap Replicated) = g[N]
  BY <1>1, SumsExist
<1>5. PICK h : Sums(h, bs \ Replicated) /\ Weight(bs \ Replicated) = h[N]
  BY <1>1, SumsExist
<1>6. /\ f[0] = 0 /\ \A n \in 0..N : f[n] \in Nat
      /\ \A n \in 1..N : f[n] = f[n - 1] + IF n \in bs THEN BlockSize[n] ELSE 0
  BY <1>1, <1>3, SumsAre
<1>7. /\ g[0] = 0 /\ \A n \in 0..N : g[n] \in Nat
      /\ \A n \in 1..N : g[n] = g[n - 1] + IF n \in bs \cap Replicated THEN BlockSize[n] ELSE 0
  BY <1>1, <1>4, SumsAre
<1>8. /\ h[0] = 0 /\ \A n \in 0..N : h[n] \in Nat
      /\ \A n \in 1..N : h[n] = h[n - 1] + IF n \in bs \ Replicated THEN BlockSize[n] ELSE 0
  BY <1>1, <1>5, SumsAre
<1>9. PICK T : T = {n \in 0..N : f[n] = g[n] + h[n]}
  OBVIOUS
<1>10. 0 \in T
  BY <1>6, <1>7, <1>8, <1>9
<1>11. ASSUME NEW n \in 1..N, n - 1 \in T
       PROVE  n \in T
  <2>1. n \in 0..N /\ n - 1 \in 0..N
    OBVIOUS
  <2>2. f[n - 1] = g[n - 1] + h[n - 1]
    BY <1>9, <1>11
  <2>3. f[n - 1] \in Nat /\ g[n - 1] \in Nat /\ h[n - 1] \in Nat /\ BlockSize[n] \in Nat
    BY <1>2, <1>6, <1>7, <1>8, <2>1
  <2>4. f[n] = g[n] + h[n]
    BY <1>6, <1>7, <1>8, <2>2, <2>3
  <2> QED
    BY <1>9, <2>1, <2>4
<1>12. \A n \in 0..N : n \in T
  BY <1>10, <1>11, Induction
<1>13. N \in 0..N
  OBVIOUS
<1> QED
  BY <1>3, <1>4, <1>5, <1>6, <1>7, <1>8, <1>9, <1>12, <1>13

\* The minimal sizes, and the room a fragment has for payload.
LEMMA RoomIs ==
  ASSUME original \in Originals, NEW p, PieceInv(p), NEW m \in Nat
  PROVE  /\ first_fragment_min_size(p) = PrimarySize(p) + 130 + Weight(p.blocks)
         /\ fragment_min_size(p) = PrimarySize(p) + 130 + Weight(p.blocks \cap Replicated)
         /\ Room(p, m, 0) = m - first_fragment_min_size(p) /\ Room(p, m, 0) \in Int
         /\ Room(p, m, 1) = m - fragment_min_size(p) /\ Room(p, m, 1) \in Int
         /\ \A off \in Nat : Room(p, m, off) = Takes(Room(p, m, 0), Room(p, m, 1), off)
<1>1. PrimarySize(p) \in Nat /\ p.blocks \in SUBSET Blocks
  BY PrimaryIs, PieceNumbers
<1>2. Weight(p.blocks) \in Nat /\ Weight(p.blocks \cap Replicated) \in Nat
  BY <1>1, WeightIs
<1>3. BaseSize(p) = PrimarySize(p) + 130
  BY <1>1 DEF BaseSize, PAYLOAD_BLOCK_SERIALIZATION_OVERHEAD, BUNDLE_SERIALIZATION_OVERHEAD
<1>4. /\ first_fragment_min_size(p) = PrimarySize(p) + 130 + Weight(p.blocks)
      /\ fragment_min_size(p) = PrimarySize(p) + 130 + Weight(p.blocks \cap Replicated)
  BY <1>3 DEF first_fragment_min_size, fragment_min_size
<1>5. first_fragment_min_size(p) \in Nat /\ fragment_min_size(p) \in Nat
  BY <1>1, <1>2, <1>4
<1>6. /\ Room(p, m, 0) = m - first_fragment_min_size(p)
      /\ Room(p, m, 1) = m - fragment_min_size(p)
      /\ \A off \in Nat : Room(p, m, off) = Takes(Room(p, m, 0), Room(p, m, 1), off)
  BY DEF Room, Takes
<1> QED
  BY <1>4, <1>5, <1>6

\* A slice of a piece is a piece.
LEMMA SliceIs ==
  ASSUME original \in Originals, NEW p, PieceInv(p), NEW off \in Nat, NEW n \in Nat \ {0},
         off + n <= Length(p), NEW f, f = Slice(p, off, n)
  PROVE  /\ PieceInv(f) /\ IsFragment(f) /\ f.copy = p.copy
         /\ f.data.from = p.data.from + off /\ f.data.to = p.data.from + off + n
         /\ f.blocks = FragmentBlocks(p, off)
<1>1. /\ p.data.from \in Nat /\ p.data.to \in Nat /\ Length(p) = p.data.to - p.data.from
      /\ p.copy \in Copies /\ p.blocks \in SUBSET Blocks
      /\ global_payload_offset(p) = p.data.from
      /\ total_data_length(p) = original.length
  BY PieceNumbers
<1>2. p \in Pieces /\ p.data.to <= original.length /\ original.length \in Nat
  BY OriginalType DEF PieceInv
<1>3. PICK from : from = p.data.from + off
  OBVIOUS
<1>4. PICK d : d = [from |-> from, to |-> from + n]
  OBVIOUS
<1>5. PICK bs : bs = FragmentBlocks(p, off)
  OBVIOUS
<1>6. f = [p EXCEPT !.fragment_offset = from, !.total_data_length = original.length,
                    !.blocks = bs, !.data = d]
  BY <1>1, <1>3, <1>4, <1>5 DEF Slice
<1>7. from \in Nat /\ from + n \in Nat /\ d \in [from : Nat, to : Nat]
      /\ d.from = from /\ d.to = from + n
  BY <1>1, <1>3, <1>4
<1>8. bs \in SUBSET Blocks
  BY <1>1, <1>5 DEF FragmentBlocks
<1>9. /\ f \in Pieces /\ f.copy = p.copy /\ f.data = d /\ f.blocks = bs
      /\ f.fragment_offset = from /\ f.total_data_length = original.length
  <2>1. PICK len \in Int : len = original.length
    BY <1>2
  <2>2. f = [p EXCEPT !.fragment_offset = from, !.total_data_length = len,
                      !.blocks = bs, !.data = d]
    BY <1>6, <2>1
  <2>3. from \in Int /\ p \in Pieces
    BY <1>2, <1>7
  <2>4. /\ f \in Pieces /\ f.copy = p.copy /\ f.data = d /\ f.blocks = bs
        /\ f.fragment_offset = from /\ f.total_data_length = len
    BY <1>7, <1>8, <2>2, <2>3 DEF Pieces
  <2> QED
    BY <2>1, <2>4
<1>10. IsFragment(f)
  BY <1>7, <1>9 DEF IsFragment
<1>11. f.data.from < f.data.to /\ f.data.to <= original.length
  BY <1>1, <1>2, <1>3, <1>7, <1>9
<1>12. f.data.from = 0 => f.blocks = original.blocks
  <2>1. SUFFICES ASSUME from = 0
                 PROVE  bs = original.blocks
    BY <1>7, <1>9
  <2>2. off = 0 /\ p.data.from = 0
    BY <1>1, <1>3, <2>1
  <2> QED
    BY <1>5, <2>2 DEF FragmentBlocks, PieceInv
<1>13. PieceInv(f)
  BY <1>7, <1>9, <1>10, <1>11, <1>12 DEF PieceInv
<1> QED
  BY <1>3, <1>5, <1>7, <1>9, <1>10, <1>13

-------------------------------------------------------------------------------
(* What Bundle::fragment makes of a piece *)

\* Each fragment starts at one of the offsets and takes what it has room for, or
\* what is left.
LEMMA FragmentIs ==
  ASSUME original \in Originals, NEW p, PieceInv(p), NEW m \in Nat, HasRoom(p, m),
         NEW first, first = Room(p, m, 0), NEW later, later = Room(p, m, 1),
         NEW off \in Offsets(Length(p), first, later),
         NEW n, n = Min({Length(p) - off, Room(p, m, off)})
  PROVE  /\ off \in Nat /\ n \in Nat \ {0} /\ off + n <= Length(p)
         /\ n <= Takes(first, later, off)
         /\ n = Length(p) - off \/ n = Takes(first, later, off)
<1>1. Length(p) \in Nat \ {0}
  BY PieceNumbers
<1>2. first \in Int /\ later \in Int
  BY RoomIs
<1>3. first \in Nat \ {0} /\ later \in Nat \ {0}
  BY <1>2 DEF HasRoom
<1>4. off \in Nat /\ off < Length(p)
  BY <1>1, <1>3, OffsetsWithin
<1>5. Room(p, m, off) = Takes(first, later, off)
  BY <1>4, RoomIs
<1>6. Takes(first, later, off) \in Nat \ {0}
  BY <1>3 DEF Takes
<1>7. PICK t : t = Takes(first, later, off)
  OBVIOUS
<1>8. PICK k : k = Length(p) - off
  OBVIOUS
<1>9. k \in Nat \ {0} /\ t \in Nat \ {0}
  BY <1>1, <1>4, <1>6, <1>7, <1>8
<1>10. n = IF k <= t THEN k ELSE t
  BY <1>5, <1>7, <1>8, <1>9, MinIs
<1> QED
  BY <1>1, <1>4, <1>7, <1>8, <1>9, <1>10
\* Both rooms are positive when the assertions on them hold.
LEMMA RoomsAre ==
  ASSUME original \in Originals, NEW p, PieceInv(p), NEW m \in Nat, HasRoom(p, m)
  PROVE  Room(p, m, 0) \in Nat \ {0} /\ Room(p, m, 1) \in Nat \ {0}
<1>1. Room(p, m, 0) \in Int /\ Room(p, m, 1) \in Int
  BY RoomIs
<1> QED
  BY <1>1 DEF HasRoom

\* The part of p that the fragment at off takes.
Part(p, m, off) == Slice(p, off, Min({Length(p) - off, Room(p, m, off)}))

\* Fragments of p are pieces of it.
LEMMA PartIs ==
  ASSUME original \in Originals, NEW p, PieceInv(p), NEW m \in Nat, HasRoom(p, m),
         NEW off \in Starts(p, m), NEW f, f = Part(p, m, off)
  PROVE  /\ PieceInv(f) /\ IsFragment(f) /\ f.copy = p.copy /\ f.blocks = FragmentBlocks(p, off)
         /\ off \in Nat /\ f.data.from = p.data.from + off /\ f.data.to <= p.data.to
         /\ Length(f) <= Takes(Room(p, m, 0), Room(p, m, 1), off)
         /\ f.data.to = p.data.to \/ Length(f) = Takes(Room(p, m, 0), Room(p, m, 1), off)
<1>1. PICK first : first = Room(p, m, 0)
  OBVIOUS
<1>2. PICK later : later = Room(p, m, 1)
  OBVIOUS
<1>3. PICK n : n = Min({Length(p) - off, Room(p, m, off)})
  OBVIOUS
<1>4. off \in Offsets(Length(p), first, later)
  BY <1>1, <1>2 DEF Starts, Offsets
<1>5. /\ off \in Nat /\ n \in Nat \ {0} /\ off + n <= Length(p)
      /\ n <= Takes(first, later, off)
      /\ n = Length(p) - off \/ n = Takes(first, later, off)
  BY <1>1, <1>2, <1>3, <1>4, FragmentIs
<1>6. f = Slice(p, off, n)
  BY <1>3 DEF Part
<1>7. /\ PieceInv(f) /\ IsFragment(f) /\ f.copy = p.copy /\ f.blocks = FragmentBlocks(p, off)
      /\ f.data.from = p.data.from + off /\ f.data.to = p.data.from + off + n
  BY <1>5, <1>6, SliceIs
<1>8. p.data.from \in Nat /\ p.data.to \in Nat /\ Length(p) = p.data.to - p.data.from
  BY PieceNumbers
<1>9. f.data.to <= p.data.to /\ Length(f) = n /\ (n = Length(p) - off => f.data.to = p.data.to)
  BY <1>5, <1>7, <1>8 DEF Length
<1> QED
  BY <1>1, <1>2, <1>5, <1>7, <1>9

\* They do not overlap.
LEMMA PartsApart ==
  ASSUME original \in Originals, NEW p, PieceInv(p), NEW m \in Nat, HasRoom(p, m),
         NEW off \in Starts(p, m), NEW o2 \in Starts(p, m), off < o2
  PROVE  Part(p, m, off).data.to <= Part(p, m, o2).data.from
<1>1. PICK first : first = Room(p, m, 0)
  OBVIOUS
<1>2. PICK later : later = Room(p, m, 1)
  OBVIOUS
<1>3. Length(p) \in Nat \ {0} /\ p.data.from \in Nat
  BY PieceNumbers
<1>4. first \in Nat \ {0} /\ later \in Nat \ {0}
  BY <1>1, <1>2, RoomsAre
<1>5. off + Takes(first, later, off) <= o2
  BY <1>1, <1>2, <1>3, <1>4, OffsetsApart DEF Starts, Offsets
<1>6. PICK f : f = Part(p, m, off)
  OBVIOUS
<1>7. PICK g : g = Part(p, m, o2)
  OBVIOUS
<1>8. /\ f.data.from = p.data.from + off /\ off \in Nat /\ PieceInv(f)
      /\ Length(f) <= Takes(first, later, off)
  BY <1>1, <1>2, <1>6, PartIs
<1>9. g.data.from = p.data.from + o2 /\ o2 \in Nat
  BY <1>7, PartIs
<1>10. f.data.to \in Nat /\ Length(f) = f.data.to - f.data.from /\ Length(f) \in Nat
  BY <1>8, PieceNumbers
<1>11. Takes(first, later, off) \in Nat
  BY <1>4 DEF Takes
<1>12. f.data.to <= g.data.from
  BY <1>3, <1>5, <1>8, <1>9, <1>10, <1>11
<1> QED
  BY <1>6, <1>7, <1>12

\* And leave nothing out.
LEMMA PartsCover ==
  ASSUME original \in Originals, NEW p, PieceInv(p), NEW m \in Nat, HasRoom(p, m),
         NEW i \in Nat, Has(p, i)
  PROVE  \E off \in Starts(p, m) : Has(Part(p, m, off), i)
<1>1. PICK first : first = Room(p, m, 0)
  OBVIOUS
<1>2. PICK later : later = Room(p, m, 1)
  OBVIOUS
<1>3. /\ Length(p) \in Nat \ {0} /\ p.data.from \in Nat /\ p.data.to \in Nat
      /\ Length(p) = p.data.to - p.data.from
  BY PieceNumbers
<1>4. first \in Nat \ {0} /\ later \in Nat \ {0}
  BY <1>1, <1>2, RoomsAre
<1>5. PICK j : j = i - p.data.from
  OBVIOUS
<1>6. j \in Nat /\ j < Length(p) /\ i = p.data.from + j
  BY <1>3, <1>5 DEF Has
<1>7. PICK off \in Offsets(Length(p), first, later) :
        off <= j /\ j < off + Takes(first, later, off)
  BY <1>3, <1>4, <1>6, OffsetsCover
<1>8. off \in Starts(p, m)
  BY <1>1, <1>2, <1>7 DEF Starts, Offsets
<1>9. PICK f : f = Part(p, m, off)
  OBVIOUS
<1>10. /\ f.data.from = p.data.from + off /\ off \in Nat /\ PieceInv(f)
       /\ f.data.to = p.data.to \/ Length(f) = Takes(first, later, off)
  BY <1>1, <1>2, <1>8, <1>9, PartIs
<1>11. f.data.to \in Nat /\ Length(f) = f.data.to - f.data.from
  BY <1>10, PieceNumbers
<1>12. Takes(first, later, off) \in Nat
  BY <1>4 DEF Takes
<1>13. Has(f, i)
  <2>1. f.data.from <= i
    BY <1>3, <1>6, <1>7, <1>10
  <2>2. i < f.data.to
    <3>1. CASE f.data.to = p.data.to
      BY <3>1 DEF Has
    <3>2. CASE Length(f) = Takes(first, later, off)
      BY <1>3, <1>6, <1>7, <1>10, <1>11, <1>12, <3>2
    <3> QED
      BY <1>10, <3>1, <3>2
  <2> QED
    BY <2>1, <2>2 DEF Has
<1> QED
  BY <1>8, <1>9, <1>13

\* The fragments are a partition of p.
LEMMA FragmentsPartition ==
  ASSUME original \in Originals, NEW p, PieceInv(p), NEW m \in Nat, HasRoom(p, m),
         NEW F, F = Fragments(p, m)
  PROVE  /\ \A f \in F : /\ PieceInv(f) /\ IsFragment(f) /\ f.copy = p.copy
                         /\ p.data.from <= f.data.from /\ f.data.to <= p.data.to
         /\ AreApart(F)
         /\ \A i \in Nat : Has(p, i) => \E f \in F : Has(f, i)
<1>1. F = {Part(p, m, off) : off \in Starts(p, m)}
  BY DEF Fragments, Part
<1>2. ASSUME NEW f \in F
      PROVE  /\ PieceInv(f) /\ IsFragment(f) /\ f.copy = p.copy
             /\ p.data.from <= f.data.from /\ f.data.to <= p.data.to
  <2>1. PICK off \in Starts(p, m) : f = Part(p, m, off)
    BY <1>1
  <2>2. /\ PieceInv(f) /\ IsFragment(f) /\ f.copy = p.copy
        /\ off \in Nat /\ f.data.from = p.data.from + off /\ f.data.to <= p.data.to
    BY <2>1, PartIs
  <2>3. p.data.from \in Nat
    BY PieceNumbers
  <2> QED
    BY <2>2, <2>3
<1>3. ASSUME NEW f \in F, NEW g \in F, f # g
      PROVE  Apart(f, g)
  <2>1. PICK o1 \in Starts(p, m) : f = Part(p, m, o1)
    BY <1>1
  <2>2. PICK o2 \in Starts(p, m) : g = Part(p, m, o2)
    BY <1>1
  <2>3. o1 \in Nat /\ o2 \in Nat
    BY <2>1, <2>2, PartIs
  <2>4. o1 # o2
    BY <1>3, <2>1, <2>2
  <2>5. CASE o1 < o2
    BY <2>1, <2>2, <2>5, PartsApart DEF Apart
  <2>6. CASE o2 < o1
    BY <2>1, <2>2, <2>6, PartsApart DEF Apart
  <2> QED
    BY <2>3, <2>4, <2>5, <2>6
<1>4. ASSUME NEW i \in Nat, Has(p, i)
      PROVE  \E f \in F : Has(f, i)
  <2>1. PICK off \in Starts(p, m) : Has(Part(p, m, off), i)
    BY <1>4, PartsCover
  <2> QED
    BY <1>1, <2>1
<1> QED
  BY <1>2, <1>3, <1>4 DEF AreApart
-------------------------------------------------------------------------------
(* The assertions of Bundle::fragment *)

\* A fragment is larger than asked for only if the blocks that are not marked
\* for replication weigh more than the marked ones.
LEMMA PartFits ==
  ASSUME original \in Originals, NEW p, PieceInv(p), NEW m \in Nat, HasRoom(p, m),
         NEW off \in Starts(p, m), NEW f, f = Part(p, m, off), ~(Encoded(f) <= m)
  PROVE  Weight(p.blocks \ Replicated) > Weight(p.blocks \cap Replicated)
<1>1. /\ PieceInv(f) /\ f.blocks = FragmentBlocks(p, off) /\ off \in Nat
      /\ Length(f) <= Takes(Room(p, m, 0), Room(p, m, 1), off)
  BY PartIs
<1>2. Length(f) \in Nat /\ p.blocks \in SUBSET Blocks
  BY <1>1, PieceNumbers
<1>3. PICK w, wr, wn : /\ w = Weight(p.blocks) /\ wr = Weight(p.blocks \cap Replicated)
                       /\ wn = Weight(p.blocks \ Replicated)
  OBVIOUS
<1>4. w \in Nat /\ wr \in Nat /\ wn \in Nat
  BY <1>2, <1>3, WeightIs
<1>5. PICK pp, pf : pp = PrimarySize(p) /\ pf = PrimarySize(f)
  OBVIOUS
<1>6. pp \in Nat /\ pf \in Nat /\ pf <= pp + 18
  <2>1. /\ pp \in Nat /\ original.primary <= pp /\ original.primary \in Nat
        /\ pf \in Nat /\ pf <= original.primary + 18
    BY <1>1, <1>5, PrimaryIs, OriginalType
  <2> QED
    BY <2>1
<1>7. PICK h, c, n : h = original.head /\ c = Cbor(Length(f)) /\ n = Length(f)
  OBVIOUS
<1>8. h \in Nat /\ h <= 41 /\ c \in Nat /\ c <= 9 /\ n \in Nat
  BY <1>2, <1>7, CborIs, OriginalType
<1>9. Encoded(f) = 2 + pf + Weight(f.blocks) + (h + c + n)
  BY <1>5, <1>7 DEF Encoded, PayloadSize, BUNDLE_SERIALIZATION_OVERHEAD
<1>10. Room(p, m, 0) = m - (pp + 130 + w) /\ Room(p, m, 1) = m - (pp + 130 + wr)
  BY <1>3, <1>5, RoomIs
<1>11. CASE off = 0
  <2>1. Weight(f.blocks) = w /\ n <= m - (pp + 130 + w)
    BY <1>1, <1>3, <1>7, <1>10, <1>11 DEF FragmentBlocks, Takes
  <2>2. Encoded(f) = 2 + pf + w + (h + c + n)
    BY <1>9, <2>1
  <2> QED
    BY <1>4, <1>6, <1>8, <2>1, <2>2
<1>12. CASE off # 0
  <2>1. Weight(f.blocks) = wn /\ n <= m - (pp + 130 + wr)
    BY <1>1, <1>3, <1>7, <1>10, <1>12 DEF FragmentBlocks, Takes
  <2>2. Encoded(f) = 2 + pf + wn + (h + c + n)
    BY <1>9, <2>1
  <2>3. wn > wr
    BY <1>4, <1>6, <1>8, <2>1, <2>2
  <2> QED
    BY <1>3, <2>3
<1> QED
  BY <1>11, <1>12

\* A fragment has no room for payload only at the minimal size: the check before
\* the loop leaves no other, and the first fragment has the least room.
LEMMA NoRoom ==
  ASSUME original \in Originals, NEW p, PieceInv(p), NEW m \in Nat, ~HasRoom(p, m),
         first_fragment_min_size(p) <= m, fragment_min_size(p) <= m
  PROVE  m = first_fragment_min_size(p)
<1>1. PICK a, b : a = first_fragment_min_size(p) /\ b = fragment_min_size(p)
  OBVIOUS
<1>2. p.blocks \in SUBSET Blocks /\ PrimarySize(p) \in Nat
  BY PieceNumbers, PrimaryIs
<1>3. /\ Weight(p.blocks) \in Nat /\ Weight(p.blocks \cap Replicated) \in Nat
      /\ Weight(p.blocks \cap Replicated) <= Weight(p.blocks)
  <2>1. /\ Weight(p.blocks) \in Nat /\ Weight(p.blocks \cap Replicated) \in Nat
        /\ Weight(p.blocks \ Replicated) \in Nat
        /\ Weight(p.blocks) = Weight(p.blocks \cap Replicated) + Weight(p.blocks \ Replicated)
    BY <1>2, WeightIs
  <2> QED
    BY <2>1
<1>4. /\ a = PrimarySize(p) + 130 + Weight(p.blocks)
      /\ b = PrimarySize(p) + 130 + Weight(p.blocks \cap Replicated)
      /\ Room(p, m, 0) = m - a /\ Room(p, m, 1) = m - b
  BY <1>1, RoomIs
<1>5. a \in Nat /\ b \in Nat /\ b <= a /\ a <= m /\ b <= m
  BY <1>1, <1>2, <1>3, <1>4
<1>6. ~(m - a >= 1) \/ ~(m - b >= 1)
  BY <1>4 DEF HasRoom
<1>7. m = a
  BY <1>5, <1>6
<1> QED
  BY <1>1, <1>7
-------------------------------------------------------------------------------
(* The steps *)

\* What a step that leaves the original alone keeps of a piece.
LEMMA PieceStable ==
  ASSUME UNCHANGED original, NEW p, PieceInv(p)
  PROVE  PieceInv(p)'
BY DEF PieceInv, Whole, IsFragment

\* An explanation of a failure stays one.
LEMMA ExplainedStable ==
  ASSUME UNCHANGED <<original, panic>>, AssertionsExplained
  PROVE  AssertionsExplained'
<1>1. original' = original /\ panic' = panic
  OBVIOUS
<1>2. first_fragment_min_size(panic.piece)' = first_fragment_min_size(panic.piece)
  BY <1>1 DEF first_fragment_min_size, BaseSize, PrimarySize, IsFragment
<1> QED
  BY <1>1, <1>2 DEF AssertionsExplained

\* Bundles split as the assertions require it.
LEMMA SplitStep ==
  ASSUME Inv, NEW p \in pieces, NEW m \in MaxSizes, fragment(p, m)
  PROVE  Inv'
<1>1. PICK F : F = Fragments(p, m)
  OBVIOUS
<1>2. /\ HasRoom(p, m) /\ pieces' = (pieces \ {p}) \cup F
      /\ original' = original /\ received' = received /\ panic' = panic
  BY <1>1 DEF fragment
<1>3. m \in Nat /\ original \in Originals
  BY FragmentationAssumption DEF Inv
<1>4. PICK R : R = Range(received)
  OBVIOUS
<1>5. PICK E : E = pieces \cup R
  OBVIOUS
<1>6. PICK E2 : E2 = (pieces \ {p}) \cup F \cup R
  OBVIOUS
<1>7. Everything = E /\ Everything' = E2
  BY <1>2, <1>4, <1>5, <1>6 DEF Everything
<1>8. /\ p \in E /\ p \notin R /\ pieces \cap R = {} /\ AreApart(E) /\ AreAll(E)
      /\ \A q \in E : PieceInv(q)
  BY <1>4, <1>5, <1>7 DEF Inv
<1>9. PieceInv(p)
  BY <1>8
<1>10. /\ \A f \in F : /\ PieceInv(f) /\ IsFragment(f) /\ f.copy = p.copy
                       /\ p.data.from <= f.data.from /\ f.data.to <= p.data.to
       /\ AreApart(F)
       /\ \A i \in Nat : Has(p, i) => \E f \in F : Has(f, i)
  BY <1>1, <1>2, <1>3, <1>9, FragmentsPartition
<1>11. ASSUME NEW q, PieceInv(q)
       PROVE  q.data.from \in Nat /\ q.data.to \in Nat /\ q.data.from < q.data.to
  BY <1>3, <1>11, PieceNumbers DEF PieceInv
<1>12. \A q \in E2 : PieceInv(q)
  BY <1>5, <1>6, <1>8, <1>10
<1>13. ASSUME NEW f \in F, NEW q \in E, q # p, q.copy = f.copy
       PROVE  f # q /\ Apart(f, q)
  <2>1. Apart(p, q)
    BY <1>8, <1>10, <1>13 DEF AreApart
  <2>2. /\ p.data.from \in Nat /\ p.data.to \in Nat /\ q.data.from \in Nat
        /\ q.data.to \in Nat /\ q.data.from < q.data.to
        /\ f.data.from \in Nat /\ f.data.to \in Nat
    BY <1>8, <1>9, <1>10, <1>11
  <2>3. p.data.from <= f.data.from /\ f.data.to <= p.data.to
    BY <1>10
  <2>4. Apart(f, q)
    BY <2>1, <2>2, <2>3 DEF Apart
  <2>5. f # q
    <3>1. SUFFICES ASSUME f = q
                   PROVE  FALSE
      OBVIOUS
    <3>2. q.data.to <= q.data.from
      BY <2>4, <3>1 DEF Apart
    <3> QED
      BY <2>2, <3>2
  <2> QED
    BY <2>4, <2>5
<1>14. pieces' \cap R = {}
  <2>1. ASSUME NEW f \in F, f \in R
        PROVE  FALSE
    BY <1>5, <1>8, <1>13, <2>1
  <2> QED
    BY <1>2, <1>8, <2>1
<1>15. AreApart(E2)
  <2>1. SUFFICES ASSUME NEW f \in E2, NEW q \in E2, f # q, f.copy = q.copy
                 PROVE  Apart(f, q)
    BY DEF AreApart
  <2>2. ASSUME NEW x \in E2
        PROVE  x \in F \/ (x \in E /\ x # p)
    BY <1>5, <1>6, <1>8
  <2>3. CASE f \in F /\ q \in F
    BY <1>10, <2>1, <2>3 DEF AreApart
  <2>4. CASE f \in F /\ q \in E /\ q # p
    BY <1>13, <2>1, <2>4
  <2>5. CASE q \in F /\ f \in E /\ f # p
    <3>1. Apart(q, f)
      BY <1>13, <2>1, <2>5
    <3> QED
      BY <3>1 DEF Apart
  <2>6. CASE f \in E /\ q \in E
    BY <1>8, <2>1, <2>6 DEF AreApart
  <2> QED
    BY <2>2, <2>3, <2>4, <2>5, <2>6
<1>16. AreAll(E2)
  <2>1. SUFFICES ASSUME NEW c \in Copies, NEW i \in 0..(original.length - 1)
                 PROVE  \E q \in E2 : q.copy = c /\ Has(q, i)
    BY DEF AreAll
  <2>2. PICK q \in E : q.copy = c /\ Has(q, i)
    BY <1>8 DEF AreAll
  <2>3. CASE q = p
    <3>1. i \in Nat
      OBVIOUS
    <3>2. PICK f \in F : Has(f, i)
      BY <1>10, <2>2, <2>3, <3>1
    <3> QED
      BY <1>6, <1>10, <2>2, <2>3, <3>2
  <2>4. CASE q # p
    BY <1>5, <1>6, <2>2, <2>4
  <2> QED
    BY <2>3, <2>4
<1>17. \A q \in Everything' : PieceInv(q)'
  BY <1>2, <1>7, <1>12, PieceStable
<1>18. AreApart(Everything)' /\ AreAll(Everything)'
  <2>1. AreApart(Everything)'
    BY <1>7, <1>15 DEF AreApart, Apart
  <2>2. AreAll(Everything)'
    BY <1>2, <1>7, <1>16 DEF AreAll, Has
  <2> QED
    BY <2>1, <2>2
<1>19. (pieces \cap Range(received) = {})'
  BY <1>2, <1>4, <1>14
<1>20. (/\ original \in Originals
        /\ received \in Seq(Pieces) /\ \A i \in DOMAIN received : IsFragment(received[i])
        /\ panic.reason \in {"none", "empty", "oversize"})'
  BY <1>2 DEF Inv, IsFragment
<1>21. AssertionsExplained'
  BY <1>2, ExplainedStable DEF Inv
<1> QED
  BY <1>17, <1>18, <1>19, <1>20, <1>21 DEF Inv
\* An assertion that fails is explained, and changes nothing else.
LEMMA FailStep ==
  ASSUME Inv, NEW p \in pieces, NEW m \in MaxSizes, Fail(p, m)
  PROVE  Inv'
<1>1. /\ original' = original /\ pieces' = pieces /\ received' = received
      /\ first_fragment_min_size(p) <= m /\ fragment_min_size(p) <= m
  BY DEF Fail, Splits
<1>2. m \in Nat /\ original \in Originals /\ PieceInv(p)
  BY FragmentationAssumption DEF Inv, Everything
<1>3. \A q \in Everything' : PieceInv(q)'
  <2>1. Everything' = Everything
    BY <1>1 DEF Everything
  <2> QED
    BY <1>1, <2>1, PieceStable DEF Inv
<1>4. AreApart(Everything)' /\ AreAll(Everything)'
  <2>1. Everything' = Everything
    BY <1>1 DEF Everything
  <2>2. AreApart(Everything)'
    BY <2>1 DEF AreApart, Apart, Inv
  <2>3. AreAll(Everything)'
    BY <1>1, <2>1 DEF AreAll, Has, Inv
  <2> QED
    BY <2>2, <2>3
<1>5. (/\ original \in Originals
       /\ received \in Seq(Pieces) /\ \A i \in DOMAIN received : IsFragment(received[i])
       /\ pieces \cap Range(received) = {})'
  BY <1>1 DEF Inv, IsFragment
<1>6. panic.reason' \in {"none", "empty", "oversize"} /\ AssertionsExplained'
  <2>1. CASE /\ ~HasRoom(p, m)
             /\ panic' = [reason |-> "empty", piece |-> p, max_size |-> m]
    <3>1. panic'.reason = "empty" /\ panic'.piece = p /\ panic'.max_size = m
      BY <2>1
    <3>2. first_fragment_min_size(panic.piece)' = first_fragment_min_size(p)
      BY <1>1, <3>1 DEF first_fragment_min_size, BaseSize, PrimarySize, IsFragment
    <3>3. m = first_fragment_min_size(p)
      BY <1>1, <1>2, <2>1, NoRoom
    <3> QED
      BY <3>1, <3>2, <3>3 DEF AssertionsExplained
  <2>2. CASE /\ HasRoom(p, m) /\ ~Fits(Fragments(p, m), m)
             /\ panic' = [reason |-> "oversize", piece |-> p, max_size |-> m]
    <3>1. panic'.reason = "oversize" /\ panic'.piece = p
      BY <2>2
    <3>2. PICK f \in Fragments(p, m) : ~(Encoded(f) <= m)
      BY <2>2 DEF Fits
    <3>3. PICK off \in Starts(p, m) : f = Part(p, m, off)
      BY <3>2 DEF Fragments, Part
    <3>4. Weight(p.blocks \ Replicated) > Weight(p.blocks \cap Replicated)
      BY <1>2, <2>2, <3>2, <3>3, PartFits
    <3> QED
      BY <3>1, <3>4 DEF AssertionsExplained
  <2> QED
    BY <2>1, <2>2 DEF Fail
<1> QED
  BY <1>3, <1>4, <1>5, <1>6 DEF Inv

\* What is stored at the destination, with one more.
LEMMA RangeAppend ==
  ASSUME NEW S, NEW s \in Seq(S), NEW e \in S
  PROVE  Range(Append(s, e)) = Range(s) \cup {e}
<1>1. /\ Append(s, e) \in Seq(S) /\ Len(Append(s, e)) = Len(s) + 1 /\ Len(s) \in Nat
      /\ \A i \in 1..Len(s) : Append(s, e)[i] = s[i]
      /\ Append(s, e)[Len(s) + 1] = e
  BY AppendProperties, LenProperties
<1>2. Range(s) = {s[i] : i \in 1..Len(s)}
  BY RangeEquality
<1>3. Range(Append(s, e)) = {Append(s, e)[i] : i \in 1..(Len(s) + 1)}
  BY <1>1, RangeEquality
<1>4. 1..(Len(s) + 1) = (1..Len(s)) \cup {Len(s) + 1}
  BY <1>1
<1> QED
  BY <1>1, <1>2, <1>3, <1>4

\* A fragment that arrives is at the destination and no longer on its way.
LEMMA ArriveStep ==
  ASSUME Inv, NEW p \in pieces, Arrive(p)
  PROVE  Inv'
<1>1. /\ original' = original /\ panic' = panic /\ IsFragment(p)
      /\ pieces' = pieces \ {p} /\ received' = Append(received, p)
  BY DEF Arrive
<1>2. PieceInv(p) /\ p \in Pieces /\ received \in Seq(Pieces)
  BY DEF Inv, Everything, PieceInv
<1>3. Range(received)' = Range(received) \cup {p}
  <2>1. Range(Append(received, p)) = Range(received) \cup {p}
    BY <1>2, RangeAppend
  <2>2. Range(received)' = Range(Append(received, p))
    BY <1>1 DEF Range
  <2> QED
    BY <2>1, <2>2
<1>4. Everything' = Everything
  BY <1>1, <1>3 DEF Everything
<1>5. (pieces \cap Range(received) = {})'
  BY <1>1, <1>3 DEF Inv
<1>6. \A q \in Everything' : PieceInv(q)'
  BY <1>1, <1>4, PieceStable DEF Inv
<1>7. AreApart(Everything)' /\ AreAll(Everything)'
  <2>1. AreApart(Everything)'
    BY <1>4 DEF AreApart, Apart, Inv
  <2>2. AreAll(Everything)'
    BY <1>1, <1>4 DEF AreAll, Has, Inv
  <2> QED
    BY <2>1, <2>2
<1>8. (/\ received \in Seq(Pieces)
       /\ \A i \in DOMAIN received : IsFragment(received[i]))'
  <2>1. /\ Append(received, p) \in Seq(Pieces)
        /\ Len(Append(received, p)) = Len(received) + 1 /\ Len(received) \in Nat
        /\ \A i \in 1..Len(received) : Append(received, p)[i] = received[i]
        /\ Append(received, p)[Len(received) + 1] = p
    BY <1>2, AppendProperties, LenProperties
  <2>2. /\ DOMAIN Append(received, p) = 1..(Len(received) + 1)
        /\ DOMAIN received = 1..Len(received)
    BY <1>2, <2>1, LenProperties
  <2>3. ASSUME NEW i \in DOMAIN Append(received, p)
        PROVE  IsFragment(Append(received, p)[i])
    <3>1. CASE i \in DOMAIN received
      <4>1. IsFragment(received[i])
        BY <3>1 DEF Inv
      <4> QED
        BY <2>1, <2>2, <3>1, <4>1
    <3>2. CASE i = Len(received) + 1
      BY <1>1, <2>1, <3>2
    <3> QED
      BY <2>1, <2>2, <2>3, <3>1, <3>2
  <2>4. received' \in Seq(Pieces)
    BY <1>1, <2>1
  <2>5. (\A i \in DOMAIN received : IsFragment(received[i]))'
    BY <1>1, <2>3 DEF IsFragment
  <2>6. (received \in Seq(Pieces))'
    BY <2>4 DEF Pieces
  <2> QED
    BY <2>5, <2>6
<1>9. AssertionsExplained'
  BY <1>1, ExplainedStable DEF Inv
<1>10. (original \in Originals /\ panic.reason \in {"none", "empty", "oversize"})'
  BY <1>1 DEF Inv
<1> QED
  BY <1>5, <1>6, <1>7, <1>8, <1>9, <1>10 DEF Inv
\* A step that changes nothing.
LEMMA StutterStep ==
  ASSUME Inv, UNCHANGED vars
  PROVE  Inv'
<1>1. /\ original' = original /\ pieces' = pieces /\ received' = received
      /\ panic' = panic
  BY DEF vars
<1>2. Everything' = Everything
  BY <1>1 DEF Everything
<1>3. \A q \in Everything' : PieceInv(q)'
  BY <1>1, <1>2, PieceStable DEF Inv
<1>4. AreApart(Everything)'
  BY <1>2 DEF AreApart, Apart, Inv
<1>5. AreAll(Everything)'
  BY <1>1, <1>2 DEF AreAll, Has, Inv
<1>6. (/\ original \in Originals
       /\ received \in Seq(Pieces) /\ \A i \in DOMAIN received : IsFragment(received[i])
       /\ pieces \cap Range(received) = {}
       /\ panic.reason \in {"none", "empty", "oversize"})'
  BY <1>1 DEF Inv, IsFragment
<1>7. AssertionsExplained'
  BY <1>1, ExplainedStable DEF Inv
<1> QED
  BY <1>3, <1>4, <1>5, <1>6, <1>7 DEF Inv

\* At first every copy is one piece, the whole bundle.
LEMMA InitInv ==
  ASSUME Init
  PROVE  Inv
<1>1. /\ original \in Originals /\ pieces = {Whole(c) : c \in Copies}
      /\ received = <<>> /\ panic = NoFailure
  BY DEF Init
<1>2. original.length \in Nat \ {0} /\ original.blocks \in SUBSET Blocks
  BY <1>1, OriginalType
<1>3. received \in Seq(Pieces) /\ Range(received) = {} /\ DOMAIN received = {}
  BY <1>1 DEF Range
<1>4. Everything = pieces
  BY <1>3 DEF Everything
<1>5. ASSUME NEW c \in Copies, NEW p, p = Whole(c)
      PROVE  /\ PieceInv(p) /\ p.copy = c
             /\ p.data.from = 0 /\ p.data.to = original.length
  <2>1. /\ p.copy = c /\ p.fragment_offset = -1 /\ p.blocks = original.blocks
        /\ p.data.from = 0 /\ p.data.to = original.length
    BY <1>5 DEF Whole
  <2>2. p \in Pieces
    <3>1. PICK d : d = [from |-> 0, to |-> original.length]
      OBVIOUS
    <3>2. d \in [from : Nat, to : Nat]
      BY <1>2, <3>1
    <3>3. PICK n \in Int : n = -1
      OBVIOUS
    <3>4. PICK bs \in SUBSET Blocks : bs = original.blocks
      BY <1>2
    <3>5. p = [copy |-> c, fragment_offset |-> n, total_data_length |-> n,
               blocks |-> bs, data |-> d]
      BY <1>5, <3>1, <3>3, <3>4 DEF Whole
    <3> QED
      BY <3>2, <3>5 DEF Pieces
  <2>3. ~IsFragment(p)
    BY <2>1 DEF IsFragment
  <2>4. p = Whole(p.copy)
    BY <1>5, <2>1
  <2>5. p.data.from < p.data.to /\ p.data.to <= original.length
    BY <1>2, <2>1
  <2>6. PieceInv(p)
    BY <2>1, <2>2, <2>3, <2>4, <2>5 DEF PieceInv
  <2> QED
    BY <2>1, <2>6
<1>6. \A p \in Everything : PieceInv(p)
  BY <1>1, <1>4, <1>5
<1>7. AreApart(Everything)
  <2>1. SUFFICES ASSUME NEW p \in pieces, NEW q \in pieces, p # q, p.copy = q.copy
                 PROVE  FALSE
    BY <1>4 DEF AreApart
  <2>2. PICK c \in Copies : p = Whole(c)
    BY <1>1
  <2>3. PICK d \in Copies : q = Whole(d)
    BY <1>1
  <2>4. c = d
    BY <1>5, <2>1, <2>2, <2>3
  <2> QED
    BY <2>1, <2>2, <2>3, <2>4
<1>8. AreAll(Everything)
  <2>1. SUFFICES ASSUME NEW c \in Copies, NEW i \in 0..(original.length - 1)
                 PROVE  \E p \in pieces : p.copy = c /\ Has(p, i)
    BY <1>4 DEF AreAll
  <2>2. PICK p : p = Whole(c)
    OBVIOUS
  <2>3. p \in pieces
    BY <1>1, <2>2
  <2>4. p.copy = c /\ p.data.from = 0 /\ p.data.to = original.length
    BY <1>5, <2>2
  <2>5. Has(p, i)
    BY <1>2, <2>4 DEF Has
  <2> QED
    BY <2>3, <2>4, <2>5
<1>9. panic.reason = "none"
  BY <1>1 DEF NoFailure
<1>10. AssertionsExplained
  BY <1>9 DEF AssertionsExplained
<1> QED
  BY <1>1, <1>3, <1>6, <1>7, <1>8, <1>9, <1>10 DEF Inv

\* The invariant is kept by every behaviour.
LEMMA Invariance == Spec => []Inv
<1>1. Init => Inv
  BY InitInv
<1>2. Inv /\ [Next]_vars => Inv'
  <2>1. SUFFICES ASSUME Inv, [Next]_vars
                 PROVE  Inv'
    OBVIOUS
  <2>2. CASE UNCHANGED vars
    BY <2>1, <2>2, StutterStep
  <2>3. CASE Next
    <3>1. PICK p \in pieces :
            \/ \E m \in MaxSizes : fragment(p, m) \/ Fail(p, m)
            \/ Arrive(p)
      BY <2>3 DEF Next
    <3>2. CASE \E m \in MaxSizes : fragment(p, m) \/ Fail(p, m)
      <4>1. PICK m \in MaxSizes : fragment(p, m) \/ Fail(p, m)
        BY <3>2
      <4>2. CASE fragment(p, m)
        BY <2>1, <4>2, SplitStep
      <4>3. CASE Fail(p, m)
        BY <2>1, <4>3, FailStep
      <4> QED
        BY <4>1, <4>2, <4>3
    <3>3. CASE Arrive(p)
      BY <2>1, <3>3, ArriveStep
    <3> QED
      BY <3>1, <3>2, <3>3
  <2> QED
    BY <2>1, <2>2, <2>3
<1> QED
  BY <1>1, <1>2, PTL DEF Spec

-------------------------------------------------------------------------------
(* The sort *)

InOrder(s) ==
  \A i, j \in 1..Len(s) : i <= j => s[i].fragment_offset <= s[j].fragment_offset

\* In a sorted sequence the fragments that stay before p are the first ones.
LEMMA BeforeIs ==
  ASSUME NEW s \in Seq(Pieces), InOrder(s), NEW p \in Pieces,
         NEW before,
         before = {i \in DOMAIN s : s[i].fragment_offset <= p.fragment_offset}
  PROVE  \E k \in 0..Len(s) : before = 1..k /\ Cardinality(before) = k
<1>1. Len(s) \in Nat /\ DOMAIN s = 1..Len(s)
  BY LenProperties
<1>2. p.fragment_offset \in Int /\ \A i \in 1..Len(s) : s[i].fragment_offset \in Int
  <2>1. \A i \in 1..Len(s) : s[i] \in Pieces
    BY ElementOfSeq
  <2> QED
    BY <2>1 DEF Pieces
<1>3. PICK F : F = {i \in 1..(Len(s) + 1) : i \notin before}
  OBVIOUS
<1>4. F \in SUBSET Nat /\ Len(s) + 1 \in F
  BY <1>1, <1>3
<1>5. PICK x \in F : \A y \in F : x <= y
  BY <1>4, Least
<1>6. PICK k : k = x - 1
  OBVIOUS
<1>7. k \in 0..Len(s)
  BY <1>1, <1>3, <1>5, <1>6
<1>8. ASSUME NEW i \in 1..k
      PROVE  i \in before
  <2>1. i \in 1..(Len(s) + 1) /\ ~(x <= i)
    BY <1>1, <1>3, <1>6, <1>7
  <2> QED
    BY <1>3, <1>5, <2>1
<1>9. ASSUME NEW i \in before
      PROVE  i \in 1..k
  <2>1. i \in 1..Len(s) /\ s[i].fragment_offset <= p.fragment_offset
    BY <1>1
  <2>2. SUFFICES ASSUME x <= i
                 PROVE  FALSE
    BY <1>1, <1>3, <1>6, <2>1
  <2>3. x \in 1..Len(s)
    BY <1>1, <1>3, <2>1, <2>2
  <2>4. s[x].fragment_offset <= s[i].fragment_offset
    BY <2>1, <2>2, <2>3 DEF InOrder
  <2>5. s[x].fragment_offset <= p.fragment_offset
    BY <1>2, <2>1, <2>3, <2>4
  <2>6. x \in before
    BY <1>1, <2>3, <2>5
  <2> QED
    BY <1>3, <2>6
<1>10. before = 1..k
  <2>1. 1..k \subseteq before
    BY <1>8
  <2>2. before \subseteq 1..k
    BY <1>9
  <2> QED
    BY <2>1, <2>2
<1>11. Cardinality(1..k) = k
  <2>1. 1 \in Int /\ k \in Int
    BY <1>7
  <2>2. Cardinality(1..k) = IF 1 > k THEN 0 ELSE k - 1 + 1
    BY <2>1, FS_Interval
  <2> QED
    BY <1>7, <2>2
<1> QED
  BY <1>7, <1>10, <1>11

\* A fragment is put into a sorted sequence at its place.
LEMMA InsertIs ==
  ASSUME NEW s \in Seq(Pieces), InOrder(s), NEW p \in Pieces, NEW t, t = Insert(s, p)
  PROVE  /\ t \in Seq(Pieces) /\ InOrder(t) /\ Len(t) = Len(s) + 1
         /\ Range(t) = Range(s) \cup {p}
<1>1. PICK before : before = {i \in DOMAIN s : s[i].fragment_offset <= p.fragment_offset}
  OBVIOUS
<1>2. PICK k \in 0..Len(s) : before = 1..k /\ Cardinality(before) = k
  BY <1>1, BeforeIs, SMTT(30)
<1>3. Len(s) \in Nat /\ DOMAIN s = 1..Len(s)
  BY LenProperties
<1>4. \A i \in 1..Len(s) : s[i] \in Pieces /\ s[i].fragment_offset \in Int
  <2>1. \A i \in 1..Len(s) : s[i] \in Pieces
    BY ElementOfSeq
  <2> QED
    BY <2>1 DEF Pieces
<1>5. p.fragment_offset \in Int
  BY DEF Pieces
<1>6. PICK u : u = SubSeq(s, 1, k)
  OBVIOUS
<1>7. PICK v : v = SubSeq(s, k + 1, Len(s))
  OBVIOUS
<1>8. t = (u \o <<p>>) \o v
  BY <1>1, <1>2, <1>6, <1>7 DEF Insert
<1>9. u \in Seq(Pieces) /\ Len(u) = k /\ \A i \in 1..k : u[i] = s[i]
  <2>1. \A i \in 1..k : s[i] \in Pieces
    BY <1>3, <1>4
  <2>2. /\ SubSeq(s, 1, k) \in Seq(Pieces)
        /\ Len(SubSeq(s, 1, k)) = IF 1 <= k THEN k - 1 + 1 ELSE 0
        /\ \A i \in 1..(k - 1 + 1) : SubSeq(s, 1, k)[i] = s[1 + i - 1]
    BY <2>1, SubSeqProperties
  <2> QED
    BY <1>6, <2>2
<1>10. /\ v \in Seq(Pieces) /\ Len(v) = Len(s) - k
       /\ \A i \in 1..(Len(s) - k) : v[i] = s[k + i]
  <2>1. \A i \in (k + 1)..Len(s) : s[i] \in Pieces
    BY <1>3, <1>4
  <2>2. /\ SubSeq(s, k + 1, Len(s)) \in Seq(Pieces)
        /\ Len(SubSeq(s, k + 1, Len(s))) =
             IF k + 1 <= Len(s) THEN Len(s) - (k + 1) + 1 ELSE 0
        /\ \A i \in 1..(Len(s) - (k + 1) + 1) :
             SubSeq(s, k + 1, Len(s))[i] = s[k + 1 + i - 1]
    BY <1>3, <2>1, SubSeqProperties
  <2>3. Len(v) = Len(s) - k
    BY <1>3, <1>7, <2>2
  <2>4. ASSUME NEW i \in 1..(Len(s) - k)
        PROVE  v[i] = s[k + i]
    <3>1. i \in 1..(Len(s) - (k + 1) + 1) /\ k + 1 + i - 1 = k + i
      BY <1>3
    <3> QED
      BY <1>7, <2>2, <3>1
  <2> QED
    BY <1>7, <2>2, <2>3, <2>4
<1>11. PICK w : w = u \o <<p>>
  OBVIOUS
<1>12. /\ w \in Seq(Pieces) /\ Len(w) = k + 1 /\ w[k + 1] = p
       /\ \A i \in 1..k : w[i] = s[i]
  <2>1. <<p>> \in Seq(Pieces) /\ Len(<<p>>) = 1 /\ <<p>>[1] = p
    OBVIOUS
  <2>2. /\ w \in Seq(Pieces) /\ Len(w) = k + 1
        /\ \A i \in 1..(k + 1) : w[i] = IF i <= k THEN u[i] ELSE <<p>>[i - k]
    BY <1>9, <1>11, <2>1, ConcatProperties
  <2>3. w[k + 1] = p
    BY <2>1, <2>2
  <2>4. \A i \in 1..k : w[i] = s[i]
    BY <1>9, <2>2
  <2> QED
    BY <2>2, <2>3, <2>4
<1>13. /\ t \in Seq(Pieces) /\ Len(t) = Len(s) + 1
       /\ \A i \in 1..(Len(s) + 1) : t[i] = IF i <= k + 1 THEN w[i] ELSE v[i - (k + 1)]
  <2>1. /\ w \o v \in Seq(Pieces) /\ Len(w \o v) = Len(w) + Len(v)
        /\ \A i \in 1..(Len(w) + Len(v)) :
             (w \o v)[i] = IF i <= Len(w) THEN w[i] ELSE v[i - Len(w)]
    BY <1>10, <1>12, ConcatProperties
  <2>2. Len(w) + Len(v) = Len(s) + 1
    BY <1>3, <1>10, <1>12
  <2> QED
    BY <1>8, <1>11, <1>12, <2>1, <2>2
<1>14. /\ \A i \in 1..k : t[i] = s[i]
       /\ t[k + 1] = p
       /\ \A i \in (k + 2)..(Len(s) + 1) : t[i] = s[i - 1]
  <2>1. \A i \in 1..k : t[i] = s[i]
    BY <1>3, <1>12, <1>13
  <2>2. t[k + 1] = p
    BY <1>3, <1>12, <1>13
  <2>3. ASSUME NEW i \in (k + 2)..(Len(s) + 1)
        PROVE  t[i] = s[i - 1]
    <3>1. i \in 1..(Len(s) + 1) /\ ~(i <= k + 1) /\ i - (k + 1) \in 1..(Len(s) - k)
          /\ k + (i - (k + 1)) = i - 1
      BY <1>3
    <3> QED
      BY <1>10, <1>13, <3>1
  <2> QED
    BY <2>1, <2>2, <2>3
<1>15. /\ \A i \in 1..k : s[i].fragment_offset <= p.fragment_offset
       /\ \A i \in (k + 1)..Len(s) : p.fragment_offset < s[i].fragment_offset
  <2>1. \A i \in 1..k : s[i].fragment_offset <= p.fragment_offset
    BY <1>1, <1>2
  <2>2. ASSUME NEW i \in (k + 1)..Len(s)
        PROVE  p.fragment_offset < s[i].fragment_offset
    <3>1. i \in 1..Len(s) /\ i \notin 1..k
      BY <1>3
    <3>2. ~(s[i].fragment_offset <= p.fragment_offset)
      BY <1>1, <1>2, <1>3, <3>1
    <3> QED
      BY <1>4, <1>5, <3>1, <3>2
  <2> QED
    BY <2>1, <2>2
<1>16. InOrder(t)
  <2>1. SUFFICES ASSUME NEW i \in 1..(Len(s) + 1), NEW j \in 1..(Len(s) + 1), i <= j
                 PROVE  t[i].fragment_offset <= t[j].fragment_offset
    BY <1>13 DEF InOrder
  <2>2. ASSUME NEW n \in 1..(Len(s) + 1)
        PROVE  \/ n \in 1..k /\ n \in 1..Len(s) /\ t[n] = s[n]
               \/ n = k + 1 /\ t[n] = p
               \/ n \in (k + 2)..(Len(s) + 1) /\ n - 1 \in (k + 1)..Len(s) /\ t[n] = s[n - 1]
                  /\ n - 1 \in 1..Len(s)
    BY <1>3, <1>14
  <2>3. CASE i \in 1..k /\ j \in 1..k
    BY <1>3, <1>14, <2>1, <2>3 DEF InOrder
  <2>4. CASE i \in 1..k /\ j = k + 1
    BY <1>14, <1>15, <2>4
  <2>5. CASE i \in 1..k /\ j \in (k + 2)..(Len(s) + 1)
    <3>1. i \in 1..Len(s) /\ j - 1 \in 1..Len(s) /\ i <= j - 1
      BY <1>3, <2>5
    <3>2. t[i] = s[i] /\ t[j] = s[j - 1]
      BY <1>14, <2>5
    <3> QED
      BY <3>1, <3>2 DEF InOrder
  <2>6. CASE i = k + 1 /\ j = k + 1
    BY <1>5, <1>14, <2>6
  <2>7. CASE i = k + 1 /\ j \in (k + 2)..(Len(s) + 1)
    <3>1. j - 1 \in (k + 1)..Len(s) /\ j - 1 \in 1..Len(s)
      BY <1>3, <2>7
    <3>2. p.fragment_offset < s[j - 1].fragment_offset /\ s[j - 1].fragment_offset \in Int
      BY <1>4, <1>15, <3>1
    <3> QED
      BY <1>5, <1>14, <2>7, <3>2
  <2>8. CASE i \in (k + 2)..(Len(s) + 1) /\ j \in (k + 2)..(Len(s) + 1)
    <3>1. i - 1 \in 1..Len(s) /\ j - 1 \in 1..Len(s) /\ i - 1 <= j - 1
      BY <1>3, <2>1, <2>8
    <3>2. t[i] = s[i - 1] /\ t[j] = s[j - 1]
      BY <1>14, <2>8
    <3> QED
      BY <3>1, <3>2 DEF InOrder
  <2> QED
    BY <1>3, <2>1, <2>2, <2>3, <2>4, <2>5, <2>6, <2>7, <2>8
<1>17. Range(t) = Range(s) \cup {p}
  <2>1. Range(w) = Range(u) \cup Range(<<p>>) /\ Range(t) = Range(w) \cup Range(v)
    <3>1. <<p>> \in Seq(Pieces)
      OBVIOUS
    <3>2. Range(u \o <<p>>) = Range(u) \cup Range(<<p>>)
      BY <1>9, <3>1, RangeConcatenation
    <3>3. Range(w \o v) = Range(w) \cup Range(v)
      BY <1>10, <1>12, RangeConcatenation
    <3> QED
      BY <1>8, <1>11, <3>2, <3>3
  <2>2. Range(<<p>>) = {p}
    BY DEF Range
  <2>3. Range(s) = {s[i] : i \in 1..Len(s)} /\ Range(u) = {u[i] : i \in 1..k}
        /\ Range(v) = {v[i] : i \in 1..(Len(s) - k)}
    <3>1. Range(s) = {s[i] : i \in 1..Len(s)}
      BY RangeEquality
    <3>2. Range(u) = {u[i] : i \in 1..Len(u)}
      BY <1>9, RangeEquality
    <3>3. Range(v) = {v[i] : i \in 1..Len(v)}
      BY <1>10, RangeEquality
    <3> QED
      BY <1>9, <1>10, <3>1, <3>2, <3>3
  <2>4. ASSUME NEW x
        PROVE  x \in Range(s) <=> x \in Range(u) \/ x \in Range(v)
    <3>1. ASSUME x \in Range(s)
          PROVE  x \in Range(u) \/ x \in Range(v)
      <4>1. PICK i \in 1..Len(s) : x = s[i]
        BY <2>3, <3>1
      <4>2. CASE i <= k
        BY <1>9, <2>3, <4>1, <4>2
      <4>3. CASE i > k
        <5>1. i - k \in 1..(Len(s) - k) /\ k + (i - k) = i
          BY <1>3, <4>3
        <5>2. v[i - k] = x
          BY <1>10, <4>1, <5>1
        <5> QED
          BY <2>3, <5>1, <5>2
      <4> QED
        BY <4>2, <4>3
    <3>2. ASSUME x \in Range(u)
          PROVE  x \in Range(s)
      BY <1>3, <1>9, <2>3, <3>2
    <3>3. ASSUME x \in Range(v)
          PROVE  x \in Range(s)
      <4>1. PICK i \in 1..(Len(s) - k) : x = s[k + i]
        BY <1>10, <2>3, <3>3
      <4>2. k + i \in 1..Len(s)
        BY <1>3
      <4> QED
        BY <2>3, <4>1, <4>2
    <3> QED
      BY <3>1, <3>2, <3>3
  <2> QED
    BY <2>1, <2>2, <2>4
<1> QED
  BY <1>13, <1>16, <1>17

\* The fragments at the destination, sorted.
LEMMA SortedIs ==
  ASSUME received \in Seq(Pieces)
  PROVE  /\ Sorted \in Seq(Pieces) /\ InOrder(Sorted) /\ Len(Sorted) = Len(received)
         /\ Range(Sorted) = Range(received)
<1>1. PICK N \in Nat : N = Len(received)
  BY LenProperties
<1>2. DOMAIN received = 1..N /\ \A n \in 1..N : received[n] \in Pieces
  BY <1>1, LenProperties, ElementOfSeq
<1>3. PICK S : S = {s \in Seq(Pieces) : InOrder(s)}
  OBVIOUS
<1>4. <<>> \in S
  BY <1>3 DEF InOrder
<1>5. PICK g : g = [x \in (1..N) \X S |-> Insert(x[2], received[x[1]])]
  OBVIOUS
<1>6. \A n \in 1..N : \A s \in S : g[<<n, s>>] = Insert(s, received[n])
  BY <1>5
<1>7. ASSUME NEW n \in 1..N, NEW s \in S
      PROVE  g[<<n, s>>] \in S
  <2>1. received[n] \in Pieces
    BY <1>2
  <2>2. s \in Seq(Pieces) /\ InOrder(s)
    BY <1>3
  <2>3. Insert(s, received[n]) \in Seq(Pieces) /\ InOrder(Insert(s, received[n]))
    BY <2>1, <2>2, InsertIs
  <2> QED
    BY <1>3, <1>6, <2>3
<1>8. g \in [(1..N) \X S -> S]
  BY <1>5, <1>7
<1>9. PICK f : f \in [0..N -> S] /\ f[0] = <<>> /\ \A n \in 1..N : f[n] = g[<<n, f[n - 1]>>]
  <2>1. \E f : Iterates(f, N, S, <<>>, g)
    BY <1>4, <1>8, Recursion, Zenon
  <2> QED
    BY <2>1 DEF Iterates
<1>10. f = [n \in 0..N |-> IF n = 0 THEN <<>> ELSE Insert(f[n - 1], received[n])]
  <2>1. ASSUME NEW n \in 1..N
        PROVE  f[n] = Insert(f[n - 1], received[n])
    BY <1>6, <1>9
  <2> QED
    BY <1>9, <2>1
<1>11. sort = [n \in 0..N |-> IF n = 0 THEN <<>> ELSE Insert(sort[n - 1], received[n])]
  BY <1>1, <1>10, Zenon DEF sort
<1>12. sort[0] = <<>> /\ \A n \in 1..N : sort[n] = Insert(sort[n - 1], received[n])
  BY <1>11
<1>13. PICK T : T = {n \in 0..N : /\ sort[n] \in Seq(Pieces) /\ InOrder(sort[n])
                                   /\ Len(sort[n]) = n
                                   /\ Range(sort[n]) = {received[i] : i \in 1..n}}
  OBVIOUS
<1>14. 0 \in T
  <2>1. InOrder(<<>>) /\ Range(<<>>) = {}
    BY DEF InOrder, Range
  <2>2. {received[i] : i \in 1..0} = {}
    OBVIOUS
  <2>3. <<>> \in Seq(Pieces) /\ Len(<<>>) = 0
    OBVIOUS
  <2>4. 0 \in 0..N
    OBVIOUS
  <2>5. /\ sort[0] \in Seq(Pieces) /\ InOrder(sort[0]) /\ Len(sort[0]) = 0
        /\ Range(sort[0]) = {received[i] : i \in 1..0}
    BY <1>12, <2>1, <2>2, <2>3
  <2> QED
    BY <1>13, <2>4, <2>5
<1>15. ASSUME NEW n \in 1..N, n - 1 \in T
       PROVE  n \in T
  <2>1. PICK s : s = sort[n - 1]
    OBVIOUS
  <2>2. /\ s \in Seq(Pieces) /\ InOrder(s) /\ Len(s) = n - 1
        /\ Range(s) = {received[i] : i \in 1..(n - 1)}
    BY <1>13, <1>15, <2>1
  <2>3. received[n] \in Pieces /\ sort[n] = Insert(s, received[n])
    BY <1>2, <1>12, <2>1
  <2>4. /\ sort[n] \in Seq(Pieces) /\ InOrder(sort[n]) /\ Len(sort[n]) = Len(s) + 1
        /\ Range(sort[n]) = Range(s) \cup {received[n]}
    BY <2>2, <2>3, InsertIs
  <2>5. 1..n = (1..(n - 1)) \cup {n}
    OBVIOUS
  <2>6. {received[i] : i \in 1..n} = {received[i] : i \in 1..(n - 1)} \cup {received[n]}
    BY <2>5
  <2> QED
    BY <1>13, <2>2, <2>4, <2>6
<1>16. N \in T
  <2>1. \A n \in 1..N : n - 1 \in T => n \in T
    BY <1>15
  <2>2. \A n \in 0..N : n \in T
    BY <1>14, <2>1, Induction
  <2> QED
    BY <2>2
<1>17. Range(received) = {received[i] : i \in 1..N}
  BY <1>1, RangeEquality
<1> QED
  BY <1>1, <1>13, <1>16, <1>17 DEF Sorted

-------------------------------------------------------------------------------
(* The search for a gap *)

\* The larger of two numbers.
LEMMA MaxIs ==
  ASSUME NEW a \in Int, NEW b \in Int
  PROVE  Max({a, b}) = IF a <= b THEN b ELSE a
BY DEF Max

\* The sorted fragments are those that have arrived, each the interval its offset
\* says.
LEMMA SortedPieces ==
  ASSUME Inv, NEW i \in 1..Len(received), NEW p, p = Sorted[i]
  PROVE  /\ p \in Range(received) /\ p \in Pieces
         /\ p.data.from \in Nat /\ p.data.to \in Nat
         /\ p.data.from < p.data.to /\ p.data.to <= original.length
         /\ p.fragment_offset = p.data.from /\ p.total_data_length = original.length
         /\ p.fragment_offset + Length(p) = p.data.to
         /\ Length(p) = p.data.to - p.data.from
         /\ p.data.from = 0 => p.blocks = original.blocks
<1>1. /\ received \in Seq(Pieces) /\ \A j \in DOMAIN received : IsFragment(received[j])
      /\ \A q \in Everything : PieceInv(q)
      /\ original \in Originals
  BY DEF Inv
<1>2. /\ Sorted \in Seq(Pieces) /\ Len(Sorted) = Len(received)
      /\ Range(Sorted) = Range(received)
  BY <1>1, SortedIs
<1>3. p \in Pieces
  BY <1>2, ElementOfSeq
<1>4. p \in Range(received)
  <2>1. Range(Sorted) = {Sorted[j] : j \in 1..Len(Sorted)}
    BY <1>2, RangeEquality
  <2> QED
    BY <1>2, <2>1
<1>5. PICK j \in 1..Len(received) : p = received[j]
  <2>1. Range(received) = {received[j] : j \in 1..Len(received)}
    BY <1>1, RangeEquality
  <2> QED
    BY <1>4, <2>1
<1>6. IsFragment(p) /\ PieceInv(p)
  <2>1. j \in DOMAIN received
    BY <1>1, LenProperties
  <2>2. p \in Everything
    BY <1>4 DEF Everything
  <2> QED
    BY <1>1, <1>5, <2>1, <2>2
<1>7. /\ p.data.from \in Nat /\ p.data.to \in Nat /\ Length(p) = p.data.to - p.data.from
  BY <1>1, <1>6, PieceNumbers
<1>8. /\ p.data.from < p.data.to /\ p.data.to <= original.length
      /\ p.fragment_offset = p.data.from /\ p.total_data_length = original.length
      /\ p.data.from = 0 => p.blocks = original.blocks
  BY <1>6 DEF PieceInv
<1>9. p.fragment_offset + Length(p) = p.data.to
  BY <1>7, <1>8
<1> QED
  BY <1>3, <1>4, <1>7, <1>8, <1>9

\* What the closure of try_fold makes of the end it is given and a fragment.
LEMMA ExtendIs ==
  ASSUME Inv, NEW i \in 1..Len(received), NEW p, p = Sorted[i], NEW e \in Int
  PROVE  /\ Extend(e, p) \in Int
         /\ Extend(e, p) = IF e # -1 /\ p.data.from <= e
                           THEN IF e <= p.data.to THEN p.data.to ELSE e
                           ELSE -1
<1>1. /\ p.data.from \in Nat /\ p.data.to \in Nat
      /\ p.fragment_offset = p.data.from /\ p.fragment_offset + Length(p) = p.data.to
  BY SortedPieces
<1>2. Max({e, p.data.to}) = IF e <= p.data.to THEN p.data.to ELSE e
  BY <1>1, MaxIs
<1>3. Extend(e, p) = IF e # -1 /\ p.data.from <= e
                     THEN IF e <= p.data.to THEN p.data.to ELSE e
                     ELSE -1
  BY <1>1, <1>2 DEF Extend, Gap
<1> QED
  BY <1>1, <1>3

\* try_fold goes over the sorted fragments.
LEMMA TryFoldIs ==
  ASSUME Inv
  PROVE  /\ try_fold[0] = 0
         /\ \A n \in 1..Len(received) : try_fold[n] = Extend(try_fold[n - 1], Sorted[n])
         /\ \A n \in 0..Len(received) : try_fold[n] \in Int
<1>1. PICK N \in Nat : N = Len(received)
  BY LenProperties DEF Inv
<1>2. PICK g : g = [x \in (1..N) \X Int |-> Extend(x[2], Sorted[x[1]])]
  OBVIOUS
<1>3. \A n \in 1..N : \A e \in Int : g[<<n, e>>] = Extend(e, Sorted[n])
  BY <1>2
<1>4. ASSUME NEW n \in 1..N, NEW e \in Int
      PROVE  Extend(e, Sorted[n]) \in Int
  BY <1>1, ExtendIs
<1>5. g \in [(1..N) \X Int -> Int]
  BY <1>2, <1>4
<1>6. PICK f : f \in [0..N -> Int] /\ f[0] = 0 /\ \A n \in 1..N : f[n] = g[<<n, f[n - 1]>>]
  <2>1. 0 \in Int
    OBVIOUS
  <2>2. \E f : Iterates(f, N, Int, 0, g)
    BY <1>5, <2>1, Recursion, Zenon
  <2> QED
    BY <2>2 DEF Iterates
<1>7. f = [n \in 0..N |-> IF n = 0 THEN 0 ELSE Extend(f[n - 1], Sorted[n])]
  <2>1. ASSUME NEW n \in 1..N
        PROVE  f[n] = Extend(f[n - 1], Sorted[n])
    <3>1. f[n] = g[<<n, f[n - 1]>>] /\ f[n - 1] \in Int
      BY <1>6
    <3> QED
      BY <1>3, <3>1
  <2> QED
    BY <1>6, <2>1
<1>8. try_fold = [n \in 0..N |-> IF n = 0 THEN 0 ELSE Extend(try_fold[n - 1], Sorted[n])]
  BY <1>1, <1>7, Zenon DEF try_fold
<1>9. /\ try_fold[0] = 0
      /\ \A n \in 1..N : try_fold[n] = Extend(try_fold[n - 1], Sorted[n])
  BY <1>8
<1>10. PICK T : T = {n \in 0..N : try_fold[n] \in Int}
  OBVIOUS
<1>11. 0 \in T
  BY <1>9, <1>10
<1>12. ASSUME NEW n \in 1..N, n - 1 \in T
       PROVE  n \in T
  BY <1>4, <1>9, <1>10, <1>12
<1>13. \A n \in 0..N : n \in T
  BY <1>11, <1>12, Induction
<1> QED
  BY <1>1, <1>9, <1>10, <1>13

\* A gap is never closed again.
LEMMA GapStays ==
  ASSUME Inv, try_fold[Len(received)] # -1
  PROVE  \A n \in 0..Len(received) : try_fold[n] # -1
<1>1. PICK N \in Nat : N = Len(received)
  BY LenProperties DEF Inv
<1>2. SUFFICES ASSUME NEW n \in 0..N, try_fold[n] = -1
               PROVE  FALSE
  BY <1>1
<1>3. PICK T : T = {m \in 0..N : m < n \/ try_fold[m] = -1}
  OBVIOUS
<1>4. 0 \in T
  BY <1>2, <1>3
<1>5. ASSUME NEW m \in 1..N, m - 1 \in T
      PROVE  m \in T
  <2>1. m < n \/ m = n \/ (m - 1 >= n)
    OBVIOUS
  <2>2. CASE m - 1 >= n
    <3>1. try_fold[m - 1] = -1
      BY <1>3, <1>5, <2>2
    <3>2. try_fold[m] = Extend(-1, Sorted[m])
      BY <1>1, <3>1, TryFoldIs
    <3>3. try_fold[m] = -1
      BY <3>2 DEF Extend, Gap
    <3> QED
      BY <1>3, <3>3
  <2> QED
    BY <1>2, <1>3, <2>1, <2>2
<1>6. \A m \in 0..N : m \in T
  BY <1>4, <1>5, Induction
<1>7. N \in T
  BY <1>6
<1> QED
  BY <1>1, <1>2, <1>3, <1>7

\* A byte that has not arrived, at a place where Covered looks.
Missing(x) ==
  /\ x \in 0..(original.length - 1)
  /\ x = 0 \/ \E i \in 1..Len(received) : Sorted[i].data.to = x
  /\ \A i \in 1..Len(received) : ~Has(Sorted[i], x)

\* The first n fragments are there without a gap up to e.
UpTo(n, e) ==
  /\ e \in 0..original.length
  /\ e = 0 \/ \E i \in 1..n : Sorted[i].data.to = e
  /\ \A i \in 1..n : Sorted[i].data.to <= e
  /\ \A x \in 0..(e - 1) : \E i \in 1..n : Has(Sorted[i], x)

\* One more fragment moves the end or shows a gap.
LEMMA FoldStep ==
  ASSUME Inv, NEW n \in 1..Len(received), NEW e, UpTo(n - 1, e)
  PROVE  \/ UpTo(n, Extend(e, Sorted[n]))
         \/ Extend(e, Sorted[n]) = -1 /\ Missing(e)
<1>1. Len(received) \in Nat /\ original.length \in Nat /\ e \in Nat /\ e <= original.length
  BY LenProperties, OriginalType DEF Inv, UpTo
<1>2. \A i \in 1..Len(received) :
        /\ Sorted[i].data.from \in Nat /\ Sorted[i].data.to \in Nat
        /\ Sorted[i].data.from < Sorted[i].data.to
        /\ Sorted[i].data.to <= original.length
        /\ Sorted[i].fragment_offset = Sorted[i].data.from
  BY SortedPieces
<1>3. PICK p : p = Sorted[n]
  OBVIOUS
<1>4. /\ p.data.from \in Nat /\ p.data.to \in Nat /\ p.data.from < p.data.to
      /\ p.data.to <= original.length
  BY <1>2, <1>3
<1>7. Extend(e, p) = IF e # -1 /\ p.data.from <= e
                     THEN IF e <= p.data.to THEN p.data.to ELSE e
                     ELSE -1
  <2>1. e \in Int
    BY <1>1
  <2> QED
    BY <1>3, <2>1, ExtendIs
<1>5. CASE p.data.from <= e
  <2>1. PICK d : d = Extend(e, p)
    OBVIOUS
  <2>2. d = IF e <= p.data.to THEN p.data.to ELSE e
    BY <1>1, <1>5, <1>7, <2>1
  <2>3. d \in 0..original.length /\ e <= d /\ p.data.to <= d
    BY <1>1, <1>4, <2>2
  <2>4. d = 0 \/ \E i \in 1..n : Sorted[i].data.to = d
    BY <1>1, <1>3, <2>2 DEF UpTo
  <2>5. ASSUME NEW i \in 1..n
        PROVE  Sorted[i].data.to <= d
    <3>1. CASE i = n
      BY <1>3, <2>3, <3>1
    <3>2. CASE i # n
      <4>1. i \in 1..(n - 1) /\ i \in 1..Len(received)
        BY <1>1, <3>2
      <4>2. Sorted[i].data.to <= e /\ Sorted[i].data.to \in Nat
        BY <1>2, <4>1 DEF UpTo
      <4> QED
        BY <1>1, <2>3, <4>2
    <3> QED
      BY <3>1, <3>2
  <2>6. ASSUME NEW x \in 0..(d - 1)
        PROVE  \E i \in 1..n : Has(Sorted[i], x)
    <3>1. CASE x < e
      <4>1. x \in 0..(e - 1)
        BY <1>1, <3>1
      <4>2. PICK i \in 1..(n - 1) : Has(Sorted[i], x)
        BY <4>1 DEF UpTo
      <4> QED
        BY <4>2
    <3>2. CASE x >= e
      <4>1. Has(p, x)
        BY <1>1, <1>4, <1>5, <2>2, <2>3, <3>2 DEF Has
      <4> QED
        BY <1>3, <4>1
    <3> QED
      BY <1>1, <3>1, <3>2
  <2>7. UpTo(n, d)
    BY <2>3, <2>4, <2>5, <2>6 DEF UpTo
  <2> QED
    BY <1>3, <2>1, <2>7
<1>6. CASE ~(p.data.from <= e)
  <2>1. Extend(e, p) = -1
    BY <1>6, <1>7
  <2>2. e \in 0..(original.length - 1)
    BY <1>1, <1>4, <1>6
  <2>3. e = 0 \/ \E i \in 1..Len(received) : Sorted[i].data.to = e
    <3>1. SUFFICES ASSUME e # 0
                   PROVE  \E i \in 1..Len(received) : Sorted[i].data.to = e
      OBVIOUS
    <3>2. PICK i \in 1..(n - 1) : Sorted[i].data.to = e
      BY <3>1 DEF UpTo
    <3>3. i \in 1..Len(received)
      BY <1>1
    <3> QED
      BY <3>2, <3>3
  <2>4. ASSUME NEW i \in 1..Len(received)
        PROVE  ~Has(Sorted[i], e)
    <3>1. CASE i < n
      <4>1. i \in 1..(n - 1)
        BY <3>1
      <4>2. Sorted[i].data.to <= e
        BY <4>1 DEF UpTo
      <4>3. Sorted[i].data.to \in Nat
        BY <1>2
      <4> QED
        BY <1>1, <4>2, <4>3 DEF Has
    <3>2. CASE i >= n
      <4>1. InOrder(Sorted) /\ Len(Sorted) = Len(received)
        BY SortedIs DEF Inv
      <4>2. Sorted[n].fragment_offset <= Sorted[i].fragment_offset
        BY <3>2, <4>1 DEF InOrder
      <4>3. p.data.from <= Sorted[i].data.from
        BY <1>2, <1>3, <4>2
      <4>4. Sorted[i].data.from \in Nat
        BY <1>2
      <4> QED
        BY <1>1, <1>4, <1>6, <4>3, <4>4 DEF Has
    <3> QED
      BY <3>1, <3>2
  <2> QED
    BY <1>3, <2>1, <2>2, <2>3, <2>4 DEF Missing
<1> QED
  BY <1>5, <1>6

\* After n fragments there is no gap, or there is a byte that has not arrived.
LEMMA FoldIs ==
  ASSUME Inv
  PROVE  \/ UpTo(Len(received), try_fold[Len(received)])
         \/ try_fold[Len(received)] = -1 /\ \E x : Missing(x)
<1>1. PICK N \in Nat : N = Len(received)
  BY LenProperties DEF Inv
<1>2. PICK T : T = {n \in 0..N : \/ UpTo(n, try_fold[n])
                                 \/ try_fold[n] = -1 /\ \E x : Missing(x)}
  OBVIOUS
<1>3. 0 \in T
  <2>1. try_fold[0] = 0 /\ original.length \in Nat
    BY TryFoldIs, OriginalType DEF Inv
  <2>2. UpTo(0, 0)
    BY <2>1 DEF UpTo
  <2> QED
    BY <1>2, <2>1, <2>2
<1>4. ASSUME NEW n \in 1..N, n - 1 \in T
      PROVE  n \in T
  <2>1. try_fold[n] = Extend(try_fold[n - 1], Sorted[n])
    BY <1>1, TryFoldIs
  <2>2. CASE UpTo(n - 1, try_fold[n - 1])
    <3>1. PICK e : e = try_fold[n - 1]
      OBVIOUS
    <3>2. \/ UpTo(n, Extend(e, Sorted[n]))
          \/ Extend(e, Sorted[n]) = -1 /\ Missing(e)
      BY <1>1, <2>2, <3>1, FoldStep
    <3> QED
      BY <1>2, <2>1, <3>1, <3>2
  <2>3. CASE try_fold[n - 1] = -1 /\ \E x : Missing(x)
    <3>1. try_fold[n] = -1
      BY <2>1, <2>3 DEF Extend, Gap
    <3> QED
      BY <1>2, <2>3, <3>1
  <2> QED
    BY <1>2, <1>4, <2>2, <2>3
<1>5. \A n \in 0..N : n \in T
  BY <1>3, <1>4, Induction
<1>6. N \in T
  BY <1>5
<1> QED
  BY <1>1, <1>2, <1>6

\* The fragments that have arrived, by their place in the sorted sequence.
LEMMA ReceivedIs ==
  ASSUME Inv
  PROVE  Range(received) = {Sorted[i] : i \in 1..Len(received)}
<1>1. /\ Sorted \in Seq(Pieces) /\ Len(Sorted) = Len(received)
      /\ Range(Sorted) = Range(received)
  BY SortedIs DEF Inv
<1>2. Range(Sorted) = {Sorted[i] : i \in 1..Len(Sorted)}
  BY <1>1, RangeEquality
<1> QED
  BY <1>1, <1>2

\* can_reassemble_bundles finds out whether every byte has arrived.
LEMMA DecisionIsRight ==
  ASSUME Inv
  PROVE  can_reassemble_bundles <=> Complete
<1>1. PICK N \in Nat : N = Len(received)
  BY LenProperties DEF Inv
<1>2. PICK L \in Nat \ {0} : L = original.length
  BY OriginalType DEF Inv
<1>3. Range(received) = {Sorted[i] : i \in 1..N}
  BY <1>1, ReceivedIs
<1>4. \A i \in 1..N : /\ Sorted[i].data.from \in Nat /\ Sorted[i].data.to \in Nat
                      /\ Sorted[i].fragment_offset = Sorted[i].data.from
                      /\ Sorted[i].total_data_length = L
  BY <1>1, <1>2, SortedPieces
<1>5. PICK e : e = try_fold[N]
  OBVIOUS
<1>6. UpTo(N, e) \/ (e = -1 /\ \E x : Missing(x))
  BY <1>1, <1>5, FoldIs
<1>7. (received = <<>>) <=> (N = 0)
  BY <1>1, EmptySeq DEF Inv
<1>8. ASSUME can_reassemble_bundles
      PROVE  Complete
  <2>1. N \in Nat \ {0}
    BY <1>7, <1>8 DEF can_reassemble_bundles
  <2>2. e = L
    <3>1. 1 \in 1..N
      BY <2>1
    <3> QED
      BY <1>1, <1>4, <1>5, <1>8, <3>1 DEF can_reassemble_bundles
  <2>3. UpTo(N, L)
    BY <1>2, <1>6, <2>2
  <2>4. ASSUME NEW i \in {0} \cup {p.data.to : p \in Range(received)}, i < original.length
        PROVE  \E p \in Range(received) : Has(p, i)
    <3>1. i \in Nat
      BY <1>3, <1>4
    <3>2. i \in 0..(L - 1)
      BY <1>2, <2>4, <3>1
    <3>3. PICK j \in 1..N : Has(Sorted[j], i)
      BY <2>3, <3>2 DEF UpTo
    <3> QED
      BY <1>3, <3>3
  <2> QED
    BY <2>4 DEF Complete, Covered
<1>9. ASSUME Complete
      PROVE  can_reassemble_bundles
  <2>1. ASSUME NEW x \in 0..(L - 1), x = 0 \/ \E i \in 1..N : Sorted[i].data.to = x
        PROVE  \E i \in 1..N : Has(Sorted[i], x)
    <3>1. x \in {0} \cup {p.data.to : p \in Range(received)}
      BY <1>3, <2>1
    <3>2. x < original.length
      BY <1>2
    <3>3. PICK p \in Range(received) : Has(p, x)
      BY <1>9, <3>1, <3>2 DEF Complete, Covered
    <3> QED
      BY <1>3, <3>3
  <2>2. ASSUME NEW x, Missing(x)
        PROVE  FALSE
    BY <1>1, <1>2, <2>1, <2>2 DEF Missing
  <2>3. UpTo(N, e)
    BY <1>6, <2>2
  <2>4. e \in Nat /\ e <= L
    BY <1>2, <2>3 DEF UpTo
  <2>5. e = L
    <3>1. SUFFICES ASSUME e < L
                   PROVE  FALSE
      BY <2>4
    <3>2. e \in 0..(L - 1)
      BY <2>4, <3>1
    <3>3. e = 0 \/ \E i \in 1..N : Sorted[i].data.to = e
      BY <2>3 DEF UpTo
    <3>4. PICK i \in 1..N : Has(Sorted[i], e)
      BY <2>1, <3>2, <3>3
    <3>5. Sorted[i].data.to <= e
      BY <2>3 DEF UpTo
    <3> QED
      BY <1>4, <2>4, <3>4, <3>5 DEF Has
  <2>6. PICK i \in 1..N : Has(Sorted[i], 0)
    <3>1. 0 \in 0..(L - 1)
      OBVIOUS
    <3> QED
      BY <2>1, <3>1
  <2>7. 1 \in 1..N
    OBVIOUS
  <2>8. Sorted[i].fragment_offset = 0
    BY <1>4, <2>6 DEF Has
  <2>9. Sorted[1].fragment_offset <= Sorted[i].fragment_offset
    <3>1. InOrder(Sorted) /\ Len(Sorted) = N
      BY <1>1, SortedIs DEF Inv
    <3> QED
      BY <2>7, <3>1 DEF InOrder
  <2>10. Sorted[1].fragment_offset = 0 /\ Sorted[1].total_data_length = L
    BY <1>4, <2>7, <2>8, <2>9
  <2>11. received # <<>>
    BY <1>7, <2>7
  <2> QED
    BY <1>1, <1>5, <2>5, <2>10, <2>11 DEF can_reassemble_bundles
<1> QED
  BY <1>8, <1>9

-------------------------------------------------------------------------------
(* Putting the payload together *)

\* The first n bytes of the payload that was sent.
Sent(n) == [i \in 1..n |-> i - 1]

\* It is a sequence of n numbers.
LEMMA SentIs ==
  ASSUME NEW n \in Nat
  PROVE  /\ Sent(n) \in Seq(Int) /\ Len(Sent(n)) = n
         /\ \A i \in 1..n : Sent(n)[i] = i - 1
<1>1. Sent(n) \in [1..n -> Int]
  BY DEF Sent
<1>2. Sent(n) \in Seq(Int)
  BY <1>1, SeqDef
<1>3. Len(Sent(n)) = n
  BY <1>1, <1>2, LenProperties
<1> QED
  BY <1>2, <1>3 DEF Sent

\* A fragment that starts where the data end, or before, adds what is missing.
LEMMA AddIs ==
  ASSUME Inv, NEW i \in 1..Len(received), NEW p, p = Sorted[i],
         NEW e \in Nat, p.data.from <= e
  PROVE  Add(Sent(e), p) = Sent(IF e <= p.data.to THEN p.data.to ELSE e)
<1>1. /\ p.data.from \in Nat /\ p.data.to \in Nat /\ p.data.from < p.data.to
      /\ p.fragment_offset = p.data.from /\ p.fragment_offset + Length(p) = p.data.to
      /\ Length(p) = p.data.to - p.data.from
  BY SortedPieces
<1>2. Sent(e) \in Seq(Int) /\ Len(Sent(e)) = e /\ \A j \in 1..e : Sent(e)[j] = j - 1
  BY SentIs
<1>3. CASE p.data.to < e
  <2>1. Add(Sent(e), p) = Sent(e)
    BY <1>1, <1>2, <1>3 DEF Add
  <2> QED
    BY <1>1, <1>3, <2>1
<1>4. CASE ~(p.data.to < e)
  <2>1. PICK s : s = e - p.data.from
    OBVIOUS
  <2>2. PICK n : n = Length(p)
    OBVIOUS
  <2>3. s \in Nat /\ n \in Nat /\ s <= n /\ p.data.from + n = p.data.to
        /\ p.data.from + s = e
    <3>1. PICK from \in Nat : from = p.data.from
      BY <1>1
    <3>2. PICK to \in Nat : to = p.data.to
      BY <1>1
    <3>3. n = to - from /\ s = e - from /\ from < to /\ from <= e /\ ~(to < e)
      BY <1>1, <1>4, <2>1, <2>2, <3>1, <3>2
    <3>4. s \in Nat /\ n \in Nat /\ s <= n /\ from + n = to /\ from + s = e
      BY <3>3
    <3> QED
      BY <3>1, <3>2, <3>4
  <2>4. PICK b : b = Bytes(p)
    OBVIOUS
  <2>5. \A j \in 1..n : b[j] = p.data.from + j - 1 /\ b[j] \in Int
    BY <1>1, <2>2, <2>4 DEF Bytes
  <2>6. PICK r : r = SubSeq(b, s + 1, n)
    OBVIOUS
  <2>7. Add(Sent(e), p) = Sent(e) \o r
    BY <1>1, <1>2, <1>4, <2>1, <2>2, <2>4, <2>6 DEF Add
  <2>8. /\ r \in Seq(Int) /\ Len(r) = n - s
        /\ \A j \in 1..(n - s) : r[j] = e + j - 1
    <3>1. \A j \in (s + 1)..n : b[j] \in Int
      BY <2>3, <2>5
    <3>2. /\ SubSeq(b, s + 1, n) \in Seq(Int)
          /\ Len(SubSeq(b, s + 1, n)) = IF s + 1 <= n THEN n - (s + 1) + 1 ELSE 0
          /\ \A j \in 1..(n - (s + 1) + 1) : SubSeq(b, s + 1, n)[j] = b[s + 1 + j - 1]
      BY <2>3, <3>1, SubSeqProperties
    <3>3. Len(r) = n - s
      BY <2>3, <2>6, <3>2
    <3>4. ASSUME NEW j \in 1..(n - s)
          PROVE  r[j] = e + j - 1
      <4>1. j \in 1..(n - (s + 1) + 1) /\ s + 1 + j - 1 = s + j /\ s + j \in 1..n
        BY <2>3
      <4>2. r[j] = b[s + j]
        BY <2>6, <3>2, <4>1
      <4>3. b[s + j] = p.data.from + (s + j) - 1
        BY <2>5, <4>1
      <4>4. PICK from \in Nat : from = p.data.from
        BY <1>1
      <4>5. from + s = e /\ b[s + j] = from + (s + j) - 1
        BY <2>3, <4>3, <4>4
      <4>6. from + (s + j) - 1 = e + j - 1
        BY <2>3, <4>5
      <4> QED
        BY <4>2, <4>5, <4>6
    <3> QED
      BY <2>6, <3>2, <3>3, <3>4
  <2>9. /\ Sent(e) \o r \in Seq(Int) /\ Len(Sent(e) \o r) = e + (n - s)
        /\ \A j \in 1..(e + (n - s)) :
             (Sent(e) \o r)[j] = IF j <= e THEN Sent(e)[j] ELSE r[j - e]
    <3>1. /\ Sent(e) \o r \in Seq(Int) /\ Len(Sent(e) \o r) = Len(Sent(e)) + Len(r)
          /\ \A j \in 1..(Len(Sent(e)) + Len(r)) :
               (Sent(e) \o r)[j] = IF j <= Len(Sent(e)) THEN Sent(e)[j]
                                  ELSE r[j - Len(Sent(e))]
      BY <1>2, <2>8, ConcatProperties
    <3> QED
      BY <1>2, <2>8, <3>1
  <2>10. e + (n - s) = p.data.to
    BY <1>1, <2>1, <2>3, SMTT(30)
  <2>11. /\ Sent(p.data.to) \in Seq(Int) /\ Len(Sent(p.data.to)) = p.data.to
         /\ \A j \in 1..p.data.to : Sent(p.data.to)[j] = j - 1
    BY <1>1, SentIs
  <2>12. ASSUME NEW j \in 1..p.data.to
         PROVE  (Sent(e) \o r)[j] = Sent(p.data.to)[j]
    <3>1. CASE j <= e
      <4>1. j \in 1..e
        BY <1>1, <3>1
      <4>2. (Sent(e) \o r)[j] = Sent(e)[j]
        BY <2>9, <2>10, <3>1
      <4> QED
        BY <1>2, <2>11, <4>1, <4>2
    <3>2. CASE ~(j <= e)
      <4>1. j - e \in 1..(n - s)
        BY <1>1, <2>3, <2>10, <3>2
      <4>2. (Sent(e) \o r)[j] = r[j - e]
        BY <2>9, <2>10, <3>2
      <4>3. r[j - e] = e + (j - e) - 1
        BY <2>8, <4>1
      <4> QED
        BY <1>1, <2>11, <4>2, <4>3
    <3> QED
      BY <3>1, <3>2
  <2>13. Sent(e) \o r = Sent(p.data.to)
    <3>1. PICK u : u = Sent(e) \o r
      OBVIOUS
    <3>2. PICK v : v = Sent(p.data.to)
      OBVIOUS
    <3>3. u \in Seq(Int) /\ v \in Seq(Int) /\ Len(u) = Len(v)
          /\ \A j \in 1..Len(u) : u[j] = v[j]
      BY <2>9, <2>10, <2>11, <2>12, <3>1, <3>2
    <3>4. u = v
      BY <3>3, SeqEqual
    <3> QED
      BY <3>1, <3>2, <3>4
  <2> QED
    BY <1>1, <1>4, <2>7, <2>13
<1> QED
  BY <1>3, <1>4

\* The bytes of the fragment that starts the payload.
LEMMA FirstBytesAre ==
  ASSUME Inv, 1 \in 1..Len(received), NEW p, p = Sorted[1], p.data.from = 0
  PROVE  Bytes(p) = Sent(p.data.to)
<1>1. p.data.to \in Nat /\ Length(p) = p.data.to - 0
  BY SortedPieces
<1>2. Length(p) = p.data.to
  BY <1>1
<1> QED
  BY <1>1, <1>2 DEF Bytes, Sent

\* What reassemble_bundles puts together is the payload that was sent.
LEMMA PayloadIsRight ==
  ASSUME Inv, can_reassemble_bundles
  PROVE  Payload = Sent(original.length)
<1>1. PICK N \in Nat : N = Len(received)
  BY LenProperties DEF Inv
<1>2. N \in Nat \ {0} /\ 1 \in 1..N
  <2>1. received # <<>>
    BY DEF can_reassemble_bundles
  <2> QED
    BY <1>1, <2>1, EmptySeq DEF Inv
<1>3. \A i \in 1..N : /\ Sorted[i].data.from \in Nat /\ Sorted[i].data.to \in Nat
                      /\ Sorted[i].fragment_offset = Sorted[i].data.from
                      /\ Sorted[i].total_data_length = original.length
                      /\ Sorted[i].data.from < Sorted[i].data.to
  BY <1>1, SortedPieces
<1>4. original.length \in Nat /\ try_fold[N] = original.length /\ Sorted[1].data.from = 0
  <2>1. original.length \in Nat
    BY OriginalType DEF Inv
  <2> QED
    BY <1>1, <1>2, <1>3, <2>1 DEF can_reassemble_bundles
<1>5. \A n \in 0..N : try_fold[n] # -1 /\ try_fold[n] \in Int
  <2>1. try_fold[Len(received)] # -1
    BY <1>1, <1>4
  <2> QED
    BY <1>1, <2>1, GapStays, TryFoldIs
<1>6. ASSUME NEW n \in 1..N, NEW e, e = try_fold[n - 1]
      PROVE  /\ Sorted[n].data.from <= e
             /\ try_fold[n] = IF e <= Sorted[n].data.to THEN Sorted[n].data.to ELSE e
  <2>1. try_fold[n] = Extend(e, Sorted[n])
    BY <1>1, <1>6, TryFoldIs
  <2>2. e \in Int /\ e # -1 /\ try_fold[n] # -1
    BY <1>5, <1>6
  <2>3. Extend(e, Sorted[n]) = IF e # -1 /\ Sorted[n].data.from <= e
                               THEN IF e <= Sorted[n].data.to THEN Sorted[n].data.to ELSE e
                               ELSE -1
    BY <1>1, <2>2, ExtendIs
  <2> QED
    BY <2>1, <2>2, <2>3
<1>7. ASSUME NEW n \in 1..N
      PROVE  try_fold[n] \in Nat
  <2>1. Sorted[n].data.from <= try_fold[n - 1] /\ try_fold[n - 1] \in Int
    BY <1>5, <1>6
  <2> QED
    BY <1>3, <1>6, <2>1
<1>8. try_fold[1] = Sorted[1].data.to
  <2>1. try_fold[1 - 1] = 0
    BY TryFoldIs
  <2> QED
    BY <1>2, <1>3, <1>6, <2>1
<1>9. Bytes(Sorted[1]) = Sent(try_fold[1])
  BY <1>1, <1>2, <1>4, <1>8, FirstBytesAre
<1>10. ASSUME NEW n \in 1..(N - 1)
       PROVE  Sent(try_fold[n + 1]) = Add(Sent(try_fold[n]), Sorted[n + 1])
  <2>1. n \in 1..N /\ n + 1 \in 1..N /\ (n + 1) - 1 = n
    OBVIOUS
  <2>2. PICK e \in Nat : e = try_fold[n]
    BY <1>7, <2>1
  <2>3. /\ Sorted[n + 1].data.from <= e
        /\ try_fold[n + 1] = IF e <= Sorted[n + 1].data.to THEN Sorted[n + 1].data.to ELSE e
    BY <1>6, <2>1, <2>2
  <2>4. Add(Sent(e), Sorted[n + 1]) =
          Sent(IF e <= Sorted[n + 1].data.to THEN Sorted[n + 1].data.to ELSE e)
    BY <1>1, <2>1, <2>3, AddIs
  <2> QED
    BY <2>2, <2>3, <2>4
<1>11. PICK f : f = [n \in 0..(N - 1) |-> Sent(try_fold[n + 1])]
  OBVIOUS
<1>12. f = [n \in 0..(N - 1) |->
              IF n = 0 THEN Bytes(Sorted[1]) ELSE Add(f[n - 1], Sorted[n + 1])]
  <2>1. ASSUME NEW n \in 0..(N - 1)
        PROVE  f[n] = IF n = 0 THEN Bytes(Sorted[1]) ELSE Add(f[n - 1], Sorted[n + 1])
    <3>1. f[n] = Sent(try_fold[n + 1])
      BY <1>11
    <3>2. CASE n = 0
      BY <1>9, <3>1, <3>2
    <3>3. CASE n # 0
      <4>1. n \in 1..(N - 1) /\ n - 1 \in 0..(N - 1) /\ (n - 1) + 1 = n
        BY <1>2, <3>3
      <4>2. f[n - 1] = Sent(try_fold[n])
        BY <1>11, <4>1
      <4> QED
        BY <1>10, <3>1, <3>3, <4>1, <4>2
    <3> QED
      BY <3>2, <3>3
  <2> QED
    BY <1>11, <2>1
<1>13. extend = [n \in 0..(N - 1) |->
              IF n = 0 THEN Bytes(Sorted[1]) ELSE Add(extend[n - 1], Sorted[n + 1])]
  BY <1>1, <1>12, Zenon DEF extend
<1>14. PICK T : T = {n \in 0..(N - 1) : extend[n] = Sent(try_fold[n + 1])}
  OBVIOUS
<1>15. 0 \in T
  BY <1>2, <1>9, <1>13, <1>14
<1>16. ASSUME NEW n \in 1..(N - 1), n - 1 \in T
       PROVE  n \in T
  <2>1. n \in 0..(N - 1) /\ n # 0 /\ (n - 1) + 1 = n
    OBVIOUS
  <2>2. extend[n] = Add(extend[n - 1], Sorted[n + 1])
    BY <1>13, <2>1
  <2>3. extend[n - 1] = Sent(try_fold[n])
    BY <1>14, <1>16, <2>1
  <2> QED
    BY <1>10, <1>14, <2>1, <2>2, <2>3
<1>17. N - 1 \in T
  <2>1. N - 1 \in Nat /\ N - 1 \in 0..(N - 1)
    BY <1>2
  <2>2. \A n \in 0..(N - 1) : n \in T
    BY <1>15, <1>16, <2>1, Induction
  <2> QED
    BY <2>1, <2>2
<1>18. extend[N - 1] = Sent(try_fold[N])
  <2>1. (N - 1) + 1 = N
    OBVIOUS
  <2> QED
    BY <1>14, <1>17, <2>1
<1> QED
  BY <1>1, <1>4, <1>18 DEF Payload

-------------------------------------------------------------------------------
(* The theorems *)

\* Fragments of fragments keep the length of the whole payload, and everything
\* that was not split is the bundle as it was sent (total_data_length in
\* Bundle::fragment).
THEOREM TypeCorrect == Spec => []TypeOK
<1>1. Inv => TypeOK
  <2>1. SUFFICES ASSUME Inv
                 PROVE  TypeOK
    OBVIOUS
  <2>2. ASSUME NEW p \in Everything
        PROVE  /\ p.copy \in Copies /\ p.blocks \subseteq Blocks
               /\ p.data.from \in Nat /\ p.data.to \in Nat
               /\ IF IsFragment(p) THEN /\ p.fragment_offset \in Nat
                                        /\ p.total_data_length = original.length
                  ELSE p = Whole(p.copy)
    <3>1. PieceInv(p) /\ original \in Originals
      BY <2>1, <2>2 DEF Inv
    <3>2. /\ p.copy \in Copies /\ p.blocks \in SUBSET Blocks
          /\ p.data.from \in Nat /\ p.data.to \in Nat
      BY <3>1, PieceNumbers
    <3> QED
      BY <3>1, <3>2 DEF PieceInv
  <2> QED
    BY <2>1, <2>2 DEF TypeOK, Inv
<1> QED
  BY <1>1, Invariance, PTL

\* However often and to whatever sizes the copies of a bundle are split, the
\* pieces of each are a partition of the payload, each at the place its offset
\* says (the loop of Bundle::fragment and its global_payload_offset).
THEOREM Partition == Spec => []PiecesPartition
<1>1. Inv => PiecesPartition
  <2>1. SUFFICES ASSUME Inv, NEW c \in Copies,
                        NEW mine, mine = {p \in Everything : p.copy = c}
                 PROVE  /\ \A p \in mine : p.data.from < p.data.to
                                           /\ p.data.to <= original.length
                        /\ \A p \in mine : IsFragment(p) => p.fragment_offset = p.data.from
                        /\ \A p, q \in mine : p # q => Apart(p, q)
                        /\ Covered(mine)
    BY DEF PiecesPartition, Apart
  <2>2. original \in Originals /\ original.length \in Nat
    BY <2>1, OriginalType DEF Inv
  <2>3. \A p \in mine : PieceInv(p)
    BY <2>1 DEF Inv
  <2>4. /\ \A p \in mine : p.data.from < p.data.to /\ p.data.to <= original.length
        /\ \A p \in mine : IsFragment(p) => p.fragment_offset = p.data.from
    BY <2>3 DEF PieceInv
  <2>5. \A p, q \in mine : p # q => Apart(p, q)
    BY <2>1 DEF Inv, AreApart
  <2>6. Covered(mine)
    <3>1. SUFFICES ASSUME NEW i \in {0} \cup {p.data.to : p \in mine},
                          i < original.length
                   PROVE  \E p \in mine : Has(p, i)
      BY DEF Covered
    <3>2. i \in Nat
      BY <2>2, <2>3, PieceNumbers
    <3>3. i \in 0..(original.length - 1)
      BY <2>2, <3>1, <3>2
    <3>4. PICK p \in Everything : p.copy = c /\ Has(p, i)
      BY <2>1, <3>3 DEF Inv, AreAll
    <3> QED
      BY <2>1, <3>4
  <2> QED
    BY <2>4, <2>5, <2>6
<1> QED
  BY <1>1, Invariance, PTL

\* The assertions of Bundle::fragment fail for no other reason than the two that
\* AssertionsExplained names, whatever the sizes of the blocks, the payload and
\* the bundle that is asked for.
THEOREM AssertionsHold == Spec => []AssertionsExplained
<1>1. Inv => AssertionsExplained
  BY DEF Inv
<1> QED
  BY <1>1, Invariance, PTL

\* Bundle::can_reassemble_bundles says yes if and only if every byte of the payload
\* has arrived, and Bundle::reassemble_bundles then puts together exactly the
\* payload that was sent, for fragments of any number that overlap in any way and
\* arrive in any order.
THEOREM Exact == Spec => []ReassemblyIsExact
<1>1. Inv => ReassemblyIsExact
  BY DecisionIsRight, PayloadIsRight DEF ReassemblyIsExact, Sent
<1> QED
  BY <1>1, Invariance, PTL

\* The bundle that was put together has all blocks of the original, although only
\* the first piece of each copy keeps them.
THEOREM BlocksKept == Spec => []BlocksSurvive
<1>1. Inv => BlocksSurvive
  <2>1. SUFFICES ASSUME Inv, can_reassemble_bundles
                 PROVE  ReassembledBlocks = original.blocks
    BY DEF BlocksSurvive
  <2>2. 1 \in 1..Len(received)
    BY <2>1, EmptySeq, LenProperties DEF can_reassemble_bundles, Inv
  <2>3. Sorted[1].fragment_offset = 0
    BY <2>1 DEF can_reassemble_bundles
  <2>4. /\ Sorted[1].fragment_offset = Sorted[1].data.from
        /\ Sorted[1].data.from = 0 => Sorted[1].blocks = original.blocks
    BY <2>1, <2>2, SortedPieces
  <2> QED
    BY <2>3, <2>4 DEF ReassembledBlocks
<1> QED
  BY <1>1, Invariance, PTL
===============================================================================

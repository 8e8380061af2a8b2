---------------------------- MODULE Fragmentation ----------------------------
(***************************************************************************)
(* How bp7 splits a bundle and puts it together again.  Copies of a bundle *)
(* take different ways to its destination; on its way a copy, or what it   *)
(* was split into, is split to the size the next hop takes, as often as    *)
(* necessary, and the fragments arrive in any order.                       *)
(*                                                                         *)
(* Sizes are bytes of the CBOR encoding.  A payload is the part of the     *)
(* original payload it consists of, from its first byte to the one before  *)
(* "to": which bytes a slice takes is what matters, not their values.      *)
(***************************************************************************)
EXTENDS Integers, Sequences, FiniteSets, FiniteSetsExt, SequencesExt

CONSTANTS BlockSize,     \* encoded sizes of the blocks other than the payload block
          Replicated,    \* the ones with MUST_REPLICATE_TO_ALL_FRAGMENTS
          Originals,     \* the bundles that are sent
          MaxSizes,      \* sizes bundles are split to
          Copies,        \* names of the copies
          MaxPieces      \* bound: bundles the copies consist of, all together

\* Blocks are numbered.
Blocks == 1..Len(BlockSize)

(***************************************************************************)
(* primary : encoded size of the primary block, as no fragment.            *)
(* head : encoded size of the payload block without the length and data.   *)
(* length : bytes of payload.                                              *)
(***************************************************************************)
ASSUME FragmentationAssumption ==
  /\ BlockSize \in Seq(Nat) /\ Replicated \subseteq Blocks
  /\ Originals \subseteq [primary : Nat, head : 5..41, length : Nat \ {0},
                          blocks : SUBSET Blocks]
  /\ MaxSizes \subseteq Nat /\ MaxPieces \in Nat

VARIABLES original,
          pieces,    \* bundles on their way
          received,  \* fragments at the destination, in the order they are stored
          panic      \* the assertion that failed, for which bundle and size

vars == <<original, pieces, received, panic>>

NoFailure == [reason |-> "none", piece |-> <<>>, max_size |-> 0]

\* A bundle that is no fragment has no offset and no total_data_length.
Whole(c) == [copy |-> c, fragment_offset |-> -1, total_data_length |-> -1,
             blocks |-> original.blocks, data |-> [from |-> 0, to |-> original.length]]
IsFragment(p) == p.fragment_offset # -1

Length(p) == p.data.to - p.data.from

-------------------------------------------------------------------------------
(* Encoded sizes *)

BUNDLE_SERIALIZATION_OVERHEAD == 2
PAYLOAD_BLOCK_SERIALIZATION_OVERHEAD == 128

\* Bytes of a number, and of the head of a byte string of that length.
\* (The comparison with 2^32 is by division to stay within TLC's integers.)
Cbor(n) == CASE n < 24 -> 1
             [] 24 <= n /\ n < 256 -> 2
             [] 256 <= n /\ n < 65536 -> 3
             [] 65536 <= n /\ n \div 65536 < 65536 -> 5
             [] n \div 65536 >= 65536 -> 9

PrimarySize(p) ==
  original.primary + IF IsFragment(p)
                     THEN Cbor(p.fragment_offset) + Cbor(p.total_data_length) ELSE 0

\* The encoded size of the blocks bs.
Weight(bs) ==
  LET sum[n \in 0..Len(BlockSize)] ==
        IF n = 0 THEN 0 ELSE sum[n - 1] + IF n \in bs THEN BlockSize[n] ELSE 0
  IN  sum[Len(BlockSize)]

PayloadSize(p) == original.head + Cbor(Length(p)) + Length(p)

Encoded(p) ==
  BUNDLE_SERIALIZATION_OVERHEAD + PrimarySize(p) + Weight(p.blocks) + PayloadSize(p)

-------------------------------------------------------------------------------
(* Bundle::fragment *)

\* Mutant: the payload block is taken to need nothing but its data.
BareSize(p) == PrimarySize(p) + BUNDLE_SERIALIZATION_OVERHEAD

\* The size of a fragment without any payload and other blocks.  The offset and
\* the length that a fragment has in addition are covered by the overhead.
BaseSize(p) ==
  PrimarySize(p) + PAYLOAD_BLOCK_SERIALIZATION_OVERHEAD + BUNDLE_SERIALIZATION_OVERHEAD

first_fragment_min_size(p) == BaseSize(p) + Weight(p.blocks)
fragment_min_size(p) == BaseSize(p) + Weight(p.blocks \cap Replicated)

\* Mutant: the first fragment is treated like the others.
LaterBlocks(p, off) == p.blocks \ Replicated

\* The first fragment has all blocks, every other the ones that are not marked
\* for replication.
FragmentBlocks(p, off) == IF off = 0 THEN p.blocks ELSE p.blocks \ Replicated

\* Mutant: offsets count from the start of the bundle that is split.
OwnOffset(p) == 0

global_payload_offset(p) == IF IsFragment(p) THEN p.fragment_offset ELSE 0

\* Mutant: the length is that of the bundle that is split.
OwnLength(p) == Length(p)

total_data_length(p) == IF IsFragment(p) THEN p.total_data_length ELSE Length(p)

\* The fragment of p with n bytes from its byte off on.
Slice(p, off, n) ==
  [p EXCEPT !.fragment_offset = global_payload_offset(p) + off,
            !.total_data_length = total_data_length(p),
            !.blocks = FragmentBlocks(p, off),
            !.data = [from |-> p.data.from + off, to |-> p.data.from + off + n]]

Room(p, max_size, off) ==
  max_size - IF off = 0 THEN first_fragment_min_size(p) ELSE fragment_min_size(p)

\* Where the fragments start: the first takes all it has room for, and so does
\* every later one.
Starts(p, max_size) ==
  LET first == Room(p, max_size, 0)
      later == Room(p, max_size, 1)
  IN {0} \cup {first + k * later : k \in 0..((Length(p) - first - 1) \div later)}

Fragments(p, max_size) ==
  {Slice(p, off, Min({Length(p) - off, Room(p, max_size, off)})) :
     off \in Starts(p, max_size)}

\* A bundle is split when it does not fit; CanNotFragmentThatSmall leaves it as
\* it is.
Splits(p, max_size) ==
  /\ panic = NoFailure
  /\ Encoded(p) > max_size
  /\ first_fragment_min_size(p) <= max_size /\ fragment_min_size(p) <= max_size

HasRoom(p, max_size) == Room(p, max_size, 0) >= 1 /\ Room(p, max_size, 1) >= 1
Fits(fragments, max_size) == \A f \in fragments : Encoded(f) <= max_size

fragment(p, max_size) ==
  /\ Splits(p, max_size) /\ HasRoom(p, max_size)
  /\ LET fragments == Fragments(p, max_size) IN
       /\ Fits(fragments, max_size)
       /\ pieces' = (pieces \ {p}) \cup fragments
       /\ Cardinality(pieces') + Len(received) <= MaxPieces
  /\ UNCHANGED <<original, received, panic>>

\* An assertion fails: a fragment without payload, or one that is too large.
Fail(p, max_size) ==
  /\ Splits(p, max_size)
  /\ \/ /\ ~HasRoom(p, max_size)
        /\ panic' = [reason |-> "empty", piece |-> p, max_size |-> max_size]
     \/ /\ HasRoom(p, max_size)
        /\ ~Fits(Fragments(p, max_size), max_size)
        /\ panic' = [reason |-> "oversize", piece |-> p, max_size |-> max_size]
  /\ UNCHANGED <<original, pieces, received>>

\* External: a fragment gets to the destination and is stored there.
Arrive(p) ==
  /\ panic = NoFailure
  /\ IsFragment(p)
  /\ pieces' = pieces \ {p} /\ received' = Append(received, p)
  /\ UNCHANGED <<original, panic>>

Init ==
  /\ original \in Originals
  /\ pieces = {Whole(c) : c \in Copies}
  /\ received = <<>>
  /\ panic = NoFailure

Next ==
  \E p \in pieces :
    \/ \E max_size \in MaxSizes : fragment(p, max_size) \/ Fail(p, max_size)
    \/ Arrive(p)

Spec == Init /\ [][Next]_vars

-------------------------------------------------------------------------------
(* Bundle::reassemble_bundles *)

\* The sort by offset is stable.
Insert(sorted, p) ==
  LET before == {i \in DOMAIN sorted : sorted[i].fragment_offset <= p.fragment_offset}
      k == Cardinality(before)
  IN SubSeq(sorted, 1, k) \o <<p>> \o SubSeq(sorted, k + 1, Len(sorted))

\* The first n fragments, sorted.
sort[n \in 0..Len(received)] ==
  IF n = 0 THEN <<>> ELSE Insert(sort[n - 1], received[n])

Sorted == sort[Len(received)]

Gap == -1

\* Mutant: a fragment that overlaps sets the end, even if it ends earlier.
EndOfLast(end, p) ==
  IF end # Gap /\ p.fragment_offset <= end THEN p.fragment_offset + Length(p) ELSE Gap

\* The end of the payload that is there without a gap, with p.
Extend(end, p) ==
  IF end # Gap /\ p.fragment_offset <= end
  THEN Max({end, p.fragment_offset + Length(p)}) ELSE Gap

try_fold[n \in 0..Len(received)] ==
  IF n = 0 THEN 0 ELSE Extend(try_fold[n - 1], Sorted[n])

can_reassemble_bundles ==
  /\ received # <<>>
  /\ Sorted[1].fragment_offset = 0
  /\ try_fold[Len(received)] = Sorted[1].total_data_length

\* The payload of a bundle, each byte as its place in the original payload.
Bytes(p) == [i \in 1..Length(p) |-> p.data.from + i - 1]

\* What the code appends to the data it has: a fragment that ends before them is
\* left out, of any other the bytes that are missing.
Add(data, p) ==
  LET current_len == Len(data)
      start == current_len - p.fragment_offset
  IN IF p.fragment_offset + Length(p) < current_len THEN data
     ELSE data \o SubSeq(Bytes(p), start + 1, Length(p))

\* The data of the first fragment and n others.
extend[n \in 0..(Len(received) - 1)] ==
  IF n = 0 THEN Bytes(Sorted[1]) ELSE Add(extend[n - 1], Sorted[n + 1])

Payload == extend[Len(received) - 1]

\* The other blocks are those of the first fragment.
ReassembledBlocks == Sorted[1].blocks

-------------------------------------------------------------------------------
Everything == pieces \cup Range(received)

\* Type invariant; every fragment agrees on the length of the whole.
TypeOK ==
  /\ original \in Originals
  /\ \A p \in Everything :
       /\ p.copy \in Copies /\ p.blocks \subseteq Blocks
       /\ p.data.from \in Nat /\ p.data.to \in Nat
       /\ IF IsFragment(p) THEN /\ p.fragment_offset \in Nat
                                /\ p.total_data_length = original.length
          ELSE p = Whole(p.copy)
  /\ \A i \in DOMAIN received : IsFragment(received[i])
  /\ panic.reason \in {"none", "empty", "oversize"}

Has(p, i) == p.data.from <= i /\ i < p.data.to

\* Every byte of the payload is in one of the given bundles.  The first that is
\* not would be byte 0 or the one after the end of a bundle.
Covered(ps) ==
  \A i \in {0} \cup {p.data.to : p \in ps} :
    i < original.length => \E p \in ps : Has(p, i)

\* However often a copy is split, every byte of the payload is in exactly one of
\* its pieces, and in each of them at the place the offset says.
PiecesPartition ==
  \A c \in Copies :
    LET mine == {p \in Everything : p.copy = c} IN
      /\ \A p \in mine : p.data.from < p.data.to /\ p.data.to <= original.length
      /\ \A p \in mine : IsFragment(p) => p.fragment_offset = p.data.from
      /\ \A p, q \in mine : p # q => p.data.to <= q.data.from \/ q.data.to <= p.data.from
      /\ Covered(mine)

Complete == Covered(Range(received))

\* Fragments of different copies overlap in any way.  They are put together if
\* and only if every byte has arrived, and then every byte of the payload is
\* there once, in order.
ReassemblyIsExact ==
  /\ can_reassemble_bundles <=> Complete
  /\ can_reassemble_bundles => Payload = [i \in 1..original.length |-> i - 1]

\* The bundle that was put together has all blocks of the original, whichever
\* copy its first fragment came from.
BlocksSurvive == can_reassemble_bundles => ReassembledBlocks = original.blocks

\* The assertions of fragment fail only when the size asked for is exactly the
\* minimal one, or when the blocks not marked for replication, which are left
\* out of fragment_min_size but put into every fragment, weigh more than the
\* marked ones.  In particular the overhead covers the offsets that are added
\* to the primary block, also when a fragment is split again.
AssertionsExplained ==
  /\ panic.reason = "empty" => panic.max_size = first_fragment_min_size(panic.piece)
  /\ panic.reason = "oversize" =>
       Weight(panic.piece.blocks \ Replicated) > Weight(panic.piece.blocks \cap Replicated)
===============================================================================

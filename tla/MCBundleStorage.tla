--------------------------- MODULE MCBundleStorage ---------------------------
EXTENDS BundleStorage, TLC

CONSTANTS b, f1, f2, e, n,
          MaxStored,    \* bound: bundles held at a time
          MaxAnnounced, \* bound: announcements the protocol agent is behind
          MaxData       \* bound: allocations made

Whole == [dest |-> n, reportTo |-> e, mine |-> FALSE, wants |-> {}, hops |-> 1,
          size |-> 4, minSize |-> 2, mayFragment |-> TRUE, pieces |-> <<f1, f2>>,
          fragment |-> FALSE, whole |-> b, span |-> {0, 1}]

\* One bundle for another node that can be split into two fragments.
SplitHeader == b :> Whole
            @@ f1 :> [Whole EXCEPT !.fragment = TRUE, !.pieces = <<>>, !.span = {0},
                               !.size = 1, !.minSize = 1]
            @@ f2 :> [Whole EXCEPT !.fragment = TRUE, !.pieces = <<>>, !.span = {1},
                               !.size = 1, !.minSize = 1]

WithinBounds ==
  Len(bundles) <= MaxStored /\ Len(bpaMail) <= MaxAnnounced /\ nextData <= MaxData

BoundedNext ==
  \/ WithinBounds /\ Handle
  \/ FileStep \/ StartStep \/ Crash \/ ProtocolAgent

BoundedSpec == Init /\ [][BoundedNext]_vars
==============================================================================

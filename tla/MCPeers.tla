------------------------------- MODULE MCPeers -------------------------------
(* Instances of Peers. *)
EXTENDS Peers

CONSTANTS u1, u2, w1, i1, n1, n2

Bound(adds, removals, losses, outages) ==
  [adds |-> adds, removals |-> removals, losses |-> losses, outages |-> outages]

\* The urls of a world lead to different nodes, or u1 and the connection that
\* comes in to the same one.
Distinct == [u \in Urls |-> IF u = u1 THEN n1 ELSE n2]
Same == [u \in Urls |-> n1]

MCWorlds ==
  { [urls |-> {u1}, endpoint |-> Distinct, bound |-> Bound(2, 2, 0, 1)],
    [urls |-> {u1}, endpoint |-> Distinct, bound |-> Bound(1, 1, 2, 1)],
    [urls |-> {u1, u2}, endpoint |-> Distinct, bound |-> Bound(2, 1, 0, 1)],
    [urls |-> {u1, i1}, endpoint |-> Distinct, bound |-> Bound(1, 1, 1, 0)],
    [urls |-> {u1, i1}, endpoint |-> Same, bound |-> Bound(1, 1, 1, 0)],
    [urls |-> {u1, w1}, endpoint |-> Distinct, bound |-> Bound(2, 1, 0, 0)] }
==============================================================================

--------------------------- MODULE MCFragmentation ---------------------------
(* Bundles for Fragmentation, with sizes as dtrd makes them. *)
EXTENDS Fragmentation, TLC

CONSTANTS c1, c2

\* The large block is one dtrd does not know.
hop == 1
age == 2
large == 3
MCBlockSize == <<10, 12, 150>>
MCReplicated == {age}

Sent(length, blocks) == [primary |-> 60, head |-> 5, length |-> length, blocks |-> blocks]

MCOriginals == {Sent(300, {}), Sent(420, {hop}), Sent(420, {age}), Sent(300, {hop, age}),
                Sent(420, {hop, large}), [Sent(420, {hop}) EXCEPT !.head = 41]}
==============================================================================

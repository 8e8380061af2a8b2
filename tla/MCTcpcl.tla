-------------------------------- MODULE MCTcpcl --------------------------------
(* Scenarios for TcpclSession. *)
EXTENDS TcpclSession

Sending(a, p) == [x \in Ends |-> IF x = "active" THEN a ELSE p]

Scene(bundles, narrow, closing, lossy) ==
  [bundles |-> bundles, narrow |-> narrow, closing |-> closing, lossy |-> lossy]

\* Transfers both ways, one of them too large; one way, while the socket may
\* block; or while either end may close; and on a connection that may break.
RegularScenarios ==
  {Scene(Sending(<<2, 1>>, <<4, 1>>), {}, {}, FALSE),
   Scene(Sending(<<2>>, <<>>), {"active"}, {}, FALSE),
   Scene(Sending(<<2>>, <<>>), {}, Ends, FALSE),
   Scene(Sending(<<>>, <<2>>), {}, {}, TRUE)}

\* Transfers both ways, and the socket of one end may block.
BlockingScenarios == {Scene(Sending(<<1, 1>>, <<1>>), {"passive"}, {}, FALSE)}
===============================================================================

------------------------------- MODULE MCDtrd -------------------------------
EXTENDS Dtrd

CONSTANTS b1, b2, b3, f1, f2, e1, e2, n1, n2, c1, c2, s1, s2

Plain == [dest |-> e1, reportTo |-> e1, mine |-> FALSE, wants |-> {}, hops |-> 1,
          size |-> 4, minSize |-> 4, mayFragment |-> TRUE, pieces |-> <<>>,
          fragment |-> FALSE, whole |-> b1, span |-> {0, 1}]

\* One bundle that comes in two fragments and whose report nobody listens for,
\* and one of this node.
LocalHeader == b1 :> [Plain EXCEPT !.wants = {"delivered"}, !.reportTo = e2]
            @@ f1 :> [Plain EXCEPT !.fragment = TRUE, !.span = {0}]
            @@ f2 :> [Plain EXCEPT !.fragment = TRUE, !.span = {1}]
            @@ b2 :> [Plain EXCEPT !.whole = b2, !.mine = TRUE]

MCListensTo == [c \in Clients |-> e1]
NoPeers == <<>>

\* One bundle for a node behind n1, one that may not be forwarded any more.
RemoteHeader == b1 :> [Plain EXCEPT !.dest = n2, !.wants = {"forwarded"}]
             @@ b2 :> [Plain EXCEPT !.dest = n1, !.whole = b2, !.hops = 0]

\* Two bundles for the peer n1, one for the client.
LiveHeader == b1 :> [Plain EXCEPT !.dest = n1]
           @@ b2 :> [Plain EXCEPT !.dest = n1, !.whole = b2, !.mine = TRUE]
           @@ b3 :> [Plain EXCEPT !.whole = b3]

\* Two bundles, for the peer n1 and for a node behind it.
SharedHeader == b1 :> [Plain EXCEPT !.dest = n1]
             @@ b2 :> [Plain EXCEPT !.dest = n2, !.whole = b2]

RestartHeader == b1 :> [Plain EXCEPT !.dest = n1]

\* One bundle for n1 that has to be split, one for the client.
CrashHeader == b1 :> [Plain EXCEPT !.dest = n1, !.minSize = 2, !.pieces = <<f1, f2>>,
                                 !.hops = 2]
            @@ f1 :> [Plain EXCEPT !.dest = n1, !.fragment = TRUE, !.span = {0}, !.size = 3,
                                 !.minSize = 3]
            @@ f2 :> [Plain EXCEPT !.dest = n1, !.fragment = TRUE, !.span = {1}, !.size = 3,
                                 !.minSize = 3]
            @@ b2 :> [Plain EXCEPT !.whole = b2]

\* n2 is reached over n1.
ViaN1 == {Static(n2, n1)}
MCPeerOf == [s \in Sessions |-> n1]
SplitMru == [s \in Sessions |-> 3]
RemoteMru == s1 :> 9 @@ s2 :> 1
LargeMru == [s \in Sessions |-> 9]
==============================================================================

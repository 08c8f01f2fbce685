------------------------------- MODULE MCPing -------------------------------
(* Four nodes with ping programs for model checking Ping.tla.              *)
EXTENDS Ping

CONSTANTS a, b, c, d, s, t

\* Two of the clients are started, in each run any two.  a and b share a node.
\* s is alone on a node, which a, c and d ping; c is alone on its own; t shares
\* the last node, which b pings, with d.  Node 3 has its cable to node 2, which
\* has all the others.
Clients == {a, b, c, d}
Servers == {s, t}
Nodes == 1..4
Home == (a :> 1) @@ (b :> 1) @@ (c :> 3) @@ (d :> 4) @@ (s :> 2) @@ (t :> 4)
Host == (a :> 2) @@ (b :> 4) @@ (c :> 2) @@ (d :> 2)
Texts == (a :> "x") @@ (b :> "y") @@ (c :> "z") @@ (d :> "x")
Neighbours == (1 :> {2}) @@ (2 :> {1, 3, 4}) @@ (3 :> {2}) @@ (4 :> {2})
=============================================================================

------------------------------- MODULE MCMipd -------------------------------
(* Small networks, packets and routes for model checking Mipd.tla.           *)
EXTENDS Mipd

CONSTANTS p1, p2, p3, p4

Nodes == 1..3
Line == {<<1, 2>>, <<2, 1>>, <<2, 3>>, <<3, 2>>}

\* Packets that follow, pass and meet each other, and the HELLO of the middle
\* node.  With MaxTtl 3 the time to live 4 that p3 asks for wraps to zero.
Mixed == {p1, p2, p3, p4}
Few == {p1, p2, p3}
MixedSrc == (p1 :> 1) @@ (p2 :> 1) @@ (p3 :> 3) @@ (p4 :> 2)
MixedDst == (p1 :> 3) @@ (p2 :> 2) @@ (p3 :> 1) @@ (p4 :> Broadcast)
MixedAsked == (p1 :> 0) @@ (p2 :> 1) @@ (p3 :> 4) @@ (p4 :> 1)
Pair == {p1, p2}
FewSrc == [p \in Few |-> MixedSrc[p]]
FewDst == [p \in Few |-> MixedDst[p]]
FewAsked == [p \in Few |-> MixedAsked[p]]
PairSrc == [p \in Pair |-> MixedSrc[p]]
PairDst == [p \in Pair |-> MixedDst[p]]
PairAsked == [p \in Pair |-> MixedAsked[p]]

\* How often each routing daemon may exit.
NoExit == <<0, 0, 0>>
FirstExits == <<1, 0, 0>>
FirstExitsTwice == <<2, 0, 0>>

\* Packets that leave the first node before it has resolved the next hop.
Burst == {p1, p2, p3}
BurstSrc == [p \in Burst |-> 1]
BurstDst == [p \in Burst |-> 3]
BurstAsked == [p \in Burst |-> 0]

\* The routes of the line; the same when the middle node may take either
\* neighbour for the way to node 1; and when only the routes to node 3 are
\* settled, and the others bounce or come and go.
Routes == <<<< {Unreachable}, {2}, {2} >>,
            << {1}, {Unreachable}, {3} >>,
            << {2}, {2}, {Unreachable} >>>>
Bouncing == [Routes EXCEPT ![2][1] = {1, 3}]
Unsettled == [Routes EXCEPT ![2][1] = {1, 3}, ![1][2] = {2, Unreachable},
                            ![3][1] = {2, Unreachable}]
=============================================================================

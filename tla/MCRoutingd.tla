----------------------------- MODULE MCRoutingd -----------------------------
(***************************************************************************)
(* Three nodes in a line, for TLC.                                         *)
(***************************************************************************)
EXTENDS RoutingdTree

Nodes == 1..3
Line == {<<1, 2>>, <<2, 1>>, <<2, 3>>, <<3, 2>>}
LineDist ==
    [n \in Nodes |-> [d \in Nodes |-> IF n < d THEN d - n ELSE n - d]]

\* Bound on the state space: messages in flight in the whole network.
AtMostTwoInFlight ==
    Cardinality(hellos) + MapThenSumSet(LAMBDA c : Len(updates[c]), Links) <= 2
===========================================================================

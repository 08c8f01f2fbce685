------------------------------- MODULE Relay -------------------------------
(***************************************************************************)
(* What a network of MIP daemons promises for the packets sent to one      *)
(* node, whatever queues and caches they wait in: a packet is accepted     *)
(* once, is at one node at a time, crosses one cable at a time and no more *)
(* of them than its client allowed, and ends up delivered, once and only   *)
(* at its destination, or lost.  Mipd.tla is shown to implement this.      *)
(***************************************************************************)
EXTENDS Naturals

CONSTANTS
    Addr,      \* MIP addresses of the nodes
    Links,     \* the cables between them
    Packet,    \* the packets that clients send to one node
    Src, Dst,  \* where each packet starts and where it is to go
    Budget,    \* Budget[p]: how many cables p may cross
    Nowhere    \* no node: where a packet is that is not on its way

VARIABLES
    fate,      \* what has become of each packet
    at,        \* the node that holds it while it is moving
    crossed    \* the cables it has crossed

vars == <<fate, at, crossed>>

Init ==
    /\ fate = [p \in Packet |-> "unsent"]
    /\ at = [p \in Packet |-> Nowhere]
    /\ crossed = [p \in Packet |-> 0]

\* p is now held by n, or is no longer on its way.
Becomes(p, what, n) ==
    /\ fate' = [fate EXCEPT ![p] = what]
    /\ at' = [at EXCEPT ![p] = IF what = "moving" THEN n ELSE Nowhere]

\* A daemon that cannot ask for a route loses what it is given.
Accept(p) ==
    /\ fate[p] = "unsent"
    /\ \E what \in {"moving", "lost"} : Becomes(p, what, Src[p])
    /\ UNCHANGED crossed

Cross(p, n) ==
    /\ fate[p] = "moving"
    /\ <<at[p], n>> \in Links
    /\ crossed[p] < Budget[p]
    /\ crossed' = [crossed EXCEPT ![p] = @ + 1]
    /\ \/ n = Dst[p] /\ Becomes(p, "delivered", n)
       \/ n # Dst[p] /\ \E what \in {"moving", "lost"} : Becomes(p, what, n)

Lose(p) ==
    /\ fate[p] = "moving"
    /\ Becomes(p, "lost", Nowhere)
    /\ UNCHANGED crossed

Next == \E p \in Packet : Accept(p) \/ Lose(p) \/ \E n \in Addr : Cross(p, n)

Spec == Init /\ [][Next]_vars
=============================================================================

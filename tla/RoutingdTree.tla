---------------------------- MODULE RoutingdTree ----------------------------
(***************************************************************************)
(* What the routing daemons promise in a network without cycles.  There a  *)
(* node has one neighbour that is closer to a given destination, and the   *)
(* poisoned reverse of routingd/table/table.c is enough to keep every cost *)
(* exact and every path free of loops, at every moment: while UPDATEs are  *)
(* late, lost or overtaken, and while daemons crash and cables are pulled. *)
(***************************************************************************)
EXTENDS Routingd

CONSTANT Dist     \* Dist[n][d]: the number of cables between n and d

\* Every cable leads closer to a destination or away from it, and only one
\* cable of a node leads closer.
ASSUME TreeAssumption ==
    /\ Dist \in [Addr -> [Addr -> Nat]]
    /\ \A n \in Addr : Dist[n][n] = 0
    /\ \A link \in Links : \A d \in Addr :
        \/ Dist[link[1]][d] = Dist[link[2]][d] + 1
        \/ Dist[link[2]][d] = Dist[link[1]][d] + 1
    /\ \A n, d, h, g \in Addr :
        /\ <<n, h>> \in Links /\ Dist[n][d] = Dist[h][d] + 1
        /\ <<n, g>> \in Links /\ Dist[n][d] = Dist[g][d] + 1
        => h = g
---------------------------------------------------------------------------
\* A route that a node would use has the true cost and leads one cable closer
\* to its destination: no stale vector ever makes a route that bounces back,
\* so that costs never count up to MaxCost (the promise of the comment of
\* get_all_fastest_routes_for_neighbour), though the destination may be gone.
TreeCostsExact ==
    \A n, d \in Addr : \A i \in DOMAIN table[n][d] :
        LET route == table[n][d][i]
        IN  route.cost < MaxCost =>
                /\ route.cost = Dist[n][d]
                /\ Dist[n][d] = Dist[route.next_hop][d] + 1
===========================================================================

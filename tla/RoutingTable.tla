--------------------------- MODULE RoutingTable ---------------------------
(***************************************************************************)
(* The routing table of one routing daemon (routingd/table/table.c) and    *)
(* the pure parts of the handlers that read or rewrite it as a whole.      *)
(*                                                                         *)
(* The code keeps, for every destination, a linked list of routes in the   *)
(* order in which they were first learnt: one route per next hop, with the *)
(* cost that hop last announced plus one.  A table is a function from      *)
(* destinations to sequences of such routes.  The valid flag of route_info *)
(* is left out: every route that is stored has it set.                     *)
(***************************************************************************)
EXTENDS Integers, Sequences, SequencesExt

CONSTANTS
    Addr,      \* MIP addresses of the nodes; the code has 0..254
    MaxCost    \* MAX_COST, 255 in the code: a cost that means unreachable

\* The next hop by which routingd tells mipd that it has no route; as
\* an address it is the MIP broadcast, which no node has.
Unreachable == 255

ASSUME AddrAssumption == Addr \subseteq Nat \ {Unreachable}
ASSUME MaxCostAssumption == MaxCost \in Nat /\ MaxCost >= 2

\* The next hop of "no route": find_fastest_route leaves it at zero.
NoHop == 0

Cost == 0..MaxCost

Route == [next_hop : Addr, cost : Cost]

\* What find_fastest_route returns when no route is usable.
NoRoute == [next_hop |-> NoHop, cost |-> MaxCost]

\* Costs are kept in a uint8_t (256 values, MaxCost the largest).
U8(c) == c % (MaxCost + 1)

EmptyTable == [d \in Addr |-> <<>>]
---------------------------------------------------------------------------
(* Operations on the routes of one destination.                            *)

IsRouteVia(routes, hop, i) == routes[i].next_hop = hop

RouteExists(routes, hop) == \E i \in DOMAIN routes : IsRouteVia(routes, hop, i)

\* The position at which the list walk of the code stops.
RouteIndex(routes, hop) ==
    CHOOSE i \in DOMAIN routes :
        /\ IsRouteVia(routes, hop, i)
        /\ \A j \in DOMAIN routes : j < i => ~IsRouteVia(routes, hop, j)

AddUpdateRoute(routes, hop, cost) ==
    IF RouteExists(routes, hop)
    THEN [routes EXCEPT ![RouteIndex(routes, hop)].cost = U8(cost)]
    ELSE Append(routes, [next_hop |-> hop, cost |-> U8(cost)])

DeleteRoute(routes, hop) ==
    IF RouteExists(routes, hop)
    THEN RemoveAt(routes, RouteIndex(routes, hop))
    ELSE routes

\* The list walk keeps the first of the cheapest usable routes.
IsFastest(routes, i) ==
    /\ routes[i].cost < MaxCost
    /\ \A j \in DOMAIN routes :
        /\ routes[i].cost <= routes[j].cost
        /\ j < i => routes[i].cost < routes[j].cost

FindFastestRoute(routes) ==
    IF \E i \in DOMAIN routes : IsFastest(routes, i)
    THEN routes[CHOOSE i \in DOMAIN routes : IsFastest(routes, i)]
    ELSE NoRoute
---------------------------------------------------------------------------
(* Operations on a whole table.                                            *)

\* Fault: only the routes to a lost neighbour, not those through it.
SetDirectUnreachable(table, hops) ==
    [d \in Addr |->
        [i \in DOMAIN table[d] |->
            IF d \in hops /\ table[d][i].next_hop \in hops
            THEN [table[d][i] EXCEPT !.cost = MaxCost]
            ELSE table[d][i]]]

SetHopsUnreachable(table, hops) ==
    [d \in Addr |->
        [i \in DOMAIN table[d] |->
            IF table[d][i].next_hop \in hops
            THEN [table[d][i] EXCEPT !.cost = MaxCost]
            ELSE table[d][i]]]

GetAllFastestRoutes(table) == [d \in Addr |-> FindFastestRoute(table[d]).cost]

GetAllNeighbours(table) == {d \in Addr : FindFastestRoute(table[d]).cost = 1}

\* Fault: a neighbour is told what is reached through itself.
UnpoisonedRoutesForNeighbour(table, neighbour) == GetAllFastestRoutes(table)

\* Poisoned reverse: what is reached through a neighbour is unreachable for it.
GetAllFastestRoutesForNeighbour(table, neighbour) ==
    [d \in Addr |->
        LET fastest == FindFastestRoute(table[d])
        IN  IF fastest.next_hop = neighbour THEN MaxCost ELSE fastest.cost]

\* Fault: a neighbour whose route was marked unreachable is not learnt again.
LearnUnknown(routes, sender) ==
    IF RouteExists(routes, sender)
    THEN routes
    ELSE AddUpdateRoute(routes, sender, 1)

\* A node heard from is a neighbour, at cost one through itself.
LearnDirect(routes, sender) ==
    IF FindFastestRoute(routes).cost = 1
    THEN routes
    ELSE AddUpdateRoute(routes, sender, 1)

LearnNeighbour(table, sender) ==
    [table EXCEPT ![sender] = LearnDirect(@, sender)]

\* Fault: the cable to the sender is not counted.
ApplyFreeVector(table, sender, received) ==
    [d \in Addr |->
        IF d = sender THEN LearnDirect(table[d], sender)
        ELSE IF received[d] = MaxCost THEN DeleteRoute(table[d], sender)
        ELSE AddUpdateRoute(table[d], sender, received[d])]

\* Fault: an unreachable destination is stored like any other, one dearer.
ApplyUncheckedVector(table, sender, received) ==
    [d \in Addr |->
        IF d = sender THEN LearnDirect(table[d], sender)
        ELSE AddUpdateRoute(table[d], sender, received[d] + 1)]

\* The table after handle_update_message: the sender is a neighbour, and each
\* received cost replaces what its destination had through the sender.
ApplyVector(table, sender, received) ==
    [d \in Addr |->
        IF d = sender THEN LearnDirect(table[d], sender)
        ELSE IF received[d] = MaxCost THEN DeleteRoute(table[d], sender)
        ELSE AddUpdateRoute(table[d], sender, received[d] + 1)]

\* Fault: only a withdrawn route is found to be a change.
OnlyWithdrawn(before, after, sender, received) ==
    \E d \in Addr \ {sender} :
        received[d] = MaxCost /\ RouteExists(before[d], sender)

\* The flag fastest_route_changed of handle_update_message: a new neighbour,
\* a withdrawn route, or a fastest cost (not a next hop) that differs.
FastestRouteChanged(before, after, sender, received) ==
    \/ FindFastestRoute(before[sender]).cost # 1
    \/ \E d \in Addr \ {sender} :
        received[d] = MaxCost /\ RouteExists(before[d], sender)
    \/ GetAllFastestRoutes(after) # GetAllFastestRoutes(before)

\* Fault: the first route of the list is answered, usable or not.
AnswerFirst(table, d) ==
    IF table[d] = <<>> THEN Unreachable ELSE table[d][1].next_hop

\* The next hop handle_request_message answers for a destination.
AnswerRequest(table, d) ==
    LET fastest == FindFastestRoute(table[d])
    IN  IF fastest.next_hop = NoHop THEN Unreachable ELSE fastest.next_hop
===========================================================================

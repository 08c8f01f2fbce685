------------------------- MODULE RoutingTableProofs -------------------------
(***************************************************************************)
(* What the operations on a routing table do, as facts about the set of    *)
(* routes a list holds.  The proofs about the daemons rest on these.       *)
(***************************************************************************)
EXTENDS RoutingTable, WellFoundedInduction, TLAPS

\* One route per next hop.
DistinctHops(routes) ==
    \A i, j \in DOMAIN routes :
        routes[i].next_hop = routes[j].next_hop => i = j

\* Costs stay within the uint8_t: the sums formed by the code do not wrap.
LEMMA U8Identity ==
    ASSUME NEW c \in Cost
    PROVE  U8(c) = c
BY MaxCostAssumption, SMTT(30) DEF U8, Cost

\* In a list with one route per next hop the walk stops at that route.
LEMMA RouteIndexUnique ==
    ASSUME NEW routes \in Seq(Route), DistinctHops(routes),
           NEW i \in DOMAIN routes
    PROVE  RouteIndex(routes, routes[i].next_hop) = i
<1> DEFINE P(k) == /\ IsRouteVia(routes, routes[i].next_hop, k)
                   /\ \A j \in DOMAIN routes :
                        j < k => ~IsRouteVia(routes, routes[i].next_hop, j)
<1>1. P(i)
  BY SMT DEF DistinctHops, IsRouteVia
<1>2. \A k \in DOMAIN routes : P(k) => k = i
  BY SMT DEF DistinctHops, IsRouteVia
<1>. QED
  BY <1>1, <1>2, Zenon DEF RouteIndex

LEMMA RouteIndexVia ==
    ASSUME NEW routes \in Seq(Route), DistinctHops(routes),
           NEW hop, RouteExists(routes, hop)
    PROVE  /\ RouteIndex(routes, hop) \in DOMAIN routes
           /\ routes[RouteIndex(routes, hop)].next_hop = hop
<1>1. PICK i \in DOMAIN routes : routes[i].next_hop = hop
  BY DEF RouteExists, IsRouteVia
<1>2. RouteIndex(routes, hop) = i
  BY <1>1, RouteIndexUnique
<1>. QED
  BY <1>1, <1>2

\* add_update_route leaves exactly one route through the hop, with the given
\* cost, and the routes through other hops as they were.
LEMMA AddUpdateRouteFacts ==
    ASSUME NEW routes \in Seq(Route), DistinctHops(routes),
           NEW hop \in Addr, NEW c \in Cost
    PROVE  LET after == AddUpdateRoute(routes, hop, c)
           IN  /\ after \in Seq(Route)
               /\ DistinctHops(after)
               /\ ToSet(after) = {r \in ToSet(routes) : r.next_hop # hop}
                                   \union {[next_hop |-> hop, cost |-> c]}
<1> DEFINE after == AddUpdateRoute(routes, hop, c)
           new == [next_hop |-> hop, cost |-> c]
<1>0. new \in Route
  BY DEF Route
<1>1. CASE RouteExists(routes, hop)
  <2> DEFINE k == RouteIndex(routes, hop)
  <2>1. k \in DOMAIN routes /\ routes[k].next_hop = hop
    BY <1>1, RouteIndexVia
  <2>2. after = [routes EXCEPT ![k].cost = c]
    BY <1>1, U8Identity DEF AddUpdateRoute
  <2>3. routes[k] \in Route
    BY <2>1
  <2>4. [routes[k] EXCEPT !.cost = c] = new
    BY <2>1, <2>3 DEF Route
  <2>5. after = [routes EXCEPT ![k] = new]
    BY <2>2, <2>4
  <2> HIDE DEF k, new, after
  <2>6. after \in Seq(Route) /\ DOMAIN after = DOMAIN routes
    BY <2>1, <2>5, <1>0
  <2>7. \A i \in DOMAIN routes : after[i] = IF i = k THEN new ELSE routes[i]
    BY <2>1, <2>5
  <2>8. new.next_hop = hop
    BY DEF new
  <2>9. DistinctHops(after)
    BY <2>1, <2>6, <2>7, <2>8 DEF DistinctHops
  <2>10. \A i \in DOMAIN routes : i # k => routes[i].next_hop # hop
    BY <2>1 DEF DistinctHops
  <2>11. ToSet(after) = {r \in ToSet(routes) : r.next_hop # hop} \union {new}
    BY <2>1, <2>6, <2>7, <2>10 DEF ToSet
  <2>. QED
    BY <2>6, <2>9, <2>11 DEF after, new
<1>2. CASE ~RouteExists(routes, hop)
  <2>1. after = Append(routes, new)
    BY <1>2, U8Identity DEF AddUpdateRoute
  <2>2. new.next_hop = hop
    OBVIOUS
  <2>3. \A i \in DOMAIN routes : routes[i].next_hop # hop
    BY <1>2 DEF RouteExists, IsRouteVia
  <2> HIDE DEF new, after
  <2>4. /\ after \in Seq(Route) /\ Len(after) = Len(routes) + 1
        /\ \A i \in DOMAIN routes : after[i] = routes[i]
        /\ after[Len(routes) + 1] = new
        /\ DOMAIN after = DOMAIN routes \union {Len(routes) + 1}
    BY <1>0, <2>1
  <2>5. DistinctHops(after)
    BY <2>2, <2>3, <2>4 DEF DistinctHops
  <2>6. ToSet(after) = {r \in ToSet(routes) : r.next_hop # hop} \union {new}
    BY <2>3, <2>4 DEF ToSet
  <2>. QED
    BY <2>4, <2>5, <2>6 DEF after, new
<1>. QED
  BY <1>1, <1>2

\* delete_route removes the route through the hop and no other.
LEMMA DeleteRouteFacts ==
    ASSUME NEW routes \in Seq(Route), DistinctHops(routes), NEW hop
    PROVE  LET after == DeleteRoute(routes, hop)
           IN  /\ after \in Seq(Route)
               /\ DistinctHops(after)
               /\ ToSet(after) = {r \in ToSet(routes) : r.next_hop # hop}
<1> DEFINE after == DeleteRoute(routes, hop)
<1>1. CASE RouteExists(routes, hop)
  <2> DEFINE k == RouteIndex(routes, hop)
  <2>1. k \in DOMAIN routes /\ routes[k].next_hop = hop
    BY <1>1, RouteIndexVia
  <2>2. after = SubSeq(routes, 1, k - 1) \o SubSeq(routes, k + 1, Len(routes))
    BY <1>1 DEF DeleteRoute, RemoveAt
  <2> HIDE DEF k, after
  <2>3. k \in 1..Len(routes)
    BY <2>1
  <2>4. /\ after \in Seq(Route) /\ Len(after) = Len(routes) - 1
        /\ \A i \in 1..(Len(routes) - 1) :
                after[i] = IF i < k THEN routes[i] ELSE routes[i + 1]
    <3> DEFINE left == SubSeq(routes, 1, k - 1)
               right == SubSeq(routes, k + 1, Len(routes))
    <3>1. /\ left \in Seq(Route) /\ Len(left) = k - 1
          /\ \A i \in 1..(k - 1) : left[i] = routes[i]
      BY <2>3
    <3>2. /\ right \in Seq(Route) /\ Len(right) = Len(routes) - k
          /\ \A i \in 1..(Len(routes) - k) : right[i] = routes[k + i]
      BY <2>3
    <3>3. after = left \o right
      BY <2>2
    <3> HIDE DEF left, right
    <3>4. after \in Seq(Route) /\ Len(after) = Len(left) + Len(right)
      BY <3>1, <3>2, <3>3
    <3>5. \A i \in 1..(Len(left) + Len(right)) :
            after[i] = IF i <= Len(left) THEN left[i] ELSE right[i - Len(left)]
      BY <3>1, <3>2, <3>3
    <3>6. ASSUME NEW i \in 1..(Len(routes) - 1)
          PROVE  after[i] = IF i < k THEN routes[i] ELSE routes[i + 1]
      <4>1. CASE i < k
        <5>1. i \in 1..(Len(left) + Len(right)) /\ i <= Len(left)
          BY <4>1, <3>1, <3>2, <2>3
        <5>2. after[i] = left[i] /\ left[i] = routes[i]
          BY <5>1, <3>1, <3>5
        <5>. QED
          BY <5>2, <4>1
      <4>2. CASE i >= k
        <5>1. i - Len(left) \in 1..(Len(routes) - k) /\ ~(i <= Len(left))
          BY <4>2, <3>1, <2>3
        <5>2. after[i] = right[i - Len(left)]
          BY <5>1, <3>1, <3>2, <3>5, <2>3, SMTT(30)
        <5>3. right[i - Len(left)] = routes[k + (i - Len(left))]
          BY <5>1, <3>2
        <5>4. k + (i - Len(left)) = i + 1
          BY <3>1, <2>3
        <5>. QED
          BY <5>2, <5>3, <5>4, <4>2, <2>3
      <4>. QED
        BY <4>1, <4>2, <2>3
    <3>. QED
      BY <3>1, <3>2, <3>4, <3>6, <2>3
  <2>5. DOMAIN after = 1..(Len(routes) - 1)
    BY <2>3, <2>4
  <2>6. DistinctHops(after)
    <3> SUFFICES ASSUME NEW i \in DOMAIN after, NEW j \in DOMAIN after,
                        after[i].next_hop = after[j].next_hop
                 PROVE  i = j
      BY DEF DistinctHops
    <3> DEFINE from(m) == IF m < k THEN m ELSE m + 1
    <3>1. from(i) \in DOMAIN routes /\ from(j) \in DOMAIN routes
      BY <2>3, <2>5
    <3>2. after[i] = routes[from(i)] /\ after[j] = routes[from(j)]
      BY <2>3, <2>4, <2>5
    <3>3. from(i) = from(j)
      BY <3>1, <3>2 DEF DistinctHops
    <3>. QED
      BY <3>3, <2>3, <2>5
  <2>7. \A i \in DOMAIN routes : i # k => routes[i].next_hop # hop
    BY <2>1 DEF DistinctHops
  <2>8. \A i \in DOMAIN after :
            \E j \in DOMAIN routes : j # k /\ after[i] = routes[j]
    <3> TAKE i \in DOMAIN after
    <3>1. CASE i < k
      <4>1. i \in DOMAIN routes /\ i # k /\ after[i] = routes[i]
        BY <3>1, <2>3, <2>4, <2>5
      <4>. QED BY <4>1
    <3>2. CASE i >= k
      <4>1. i + 1 \in DOMAIN routes /\ i + 1 # k /\ after[i] = routes[i + 1]
        BY <3>2, <2>3, <2>4, <2>5
      <4>. QED BY <4>1
    <3>. QED
      BY <3>1, <3>2, <2>3, <2>5
  <2>9. \A j \in DOMAIN routes :
            j # k => \E i \in DOMAIN after : after[i] = routes[j]
    <3> TAKE j \in DOMAIN routes
    <3>1. CASE j < k
      <4>1. j \in DOMAIN after /\ after[j] = routes[j]
        BY <3>1, <2>3, <2>4, <2>5
      <4>. QED BY <4>1
    <3>2. CASE j > k
      <4>1. j - 1 \in DOMAIN after /\ after[j - 1] = routes[j]
        BY <3>2, <2>3, <2>4, <2>5
      <4>. QED BY <4>1
    <3>. QED
      BY <3>1, <3>2, <2>3
  <2>10. ToSet(after) = {r \in ToSet(routes) : r.next_hop # hop}
    BY <2>1, <2>7, <2>8, <2>9 DEF ToSet
  <2>. QED
    BY <2>4, <2>6, <2>10 DEF after
<1>2. CASE ~RouteExists(routes, hop)
  BY <1>2 DEF DeleteRoute, RouteExists, IsRouteVia, ToSet
<1>. QED
  BY <1>1, <1>2
---------------------------------------------------------------------------
(* The routes for destination d of a daemon that only ever learns a cost   *)
(* of one for a node it hears from itself.                                 *)

RoutesOK(routes, d) ==
    /\ routes \in Seq(Route)
    /\ DistinctHops(routes)
    /\ \A r \in ToSet(routes) :
        IF r.next_hop = d THEN r.cost \in {1, MaxCost} ELSE r.cost >= 2

DirectRoute(d) == [next_hop |-> d, cost |-> 1]

\* find_fastest_route returns a usable route of the list, or none.
LEMMA FindFastestFacts ==
    ASSUME NEW routes \in Seq(Route)
    PROVE  LET fastest == FindFastestRoute(routes)
           IN  \/ fastest = NoRoute
               \/ fastest \in ToSet(routes) /\ fastest.cost < MaxCost
<1>1. CASE \E i \in DOMAIN routes : IsFastest(routes, i)
  <2> DEFINE k == CHOOSE i \in DOMAIN routes : IsFastest(routes, i)
  <2>1. k \in DOMAIN routes /\ IsFastest(routes, k)
    BY <1>1, Zenon
  <2>2. FindFastestRoute(routes) = routes[k]
    BY <1>1 DEF FindFastestRoute
  <2>. QED
    BY <2>1, <2>2 DEF IsFastest, ToSet
<1>2. CASE ~\E i \in DOMAIN routes : IsFastest(routes, i)
  BY <1>2 DEF FindFastestRoute
<1>. QED
  BY <1>1, <1>2

LEMMA LeastNatural ==
    ASSUME NEW S \in SUBSET Nat, S # {}
    PROVE  \E x \in S : \A y \in S : x <= y
<1>1. PICK x \in S : \A y \in S : ~(<<y, x>> \in OpToRel(<, Nat))
  BY NatLessThanWellFounded, WFMin
<1>2. \A y \in S : ~(y < x)
  BY <1>1 DEF OpToRel
<1>. QED
  BY <1>2

\* It returns none only when no route of the list is usable.
LEMMA FastestExists ==
    ASSUME NEW routes \in Seq(Route), NEW k \in DOMAIN routes,
           routes[k].cost < MaxCost
    PROVE  /\ FindFastestRoute(routes) \in ToSet(routes)
           /\ FindFastestRoute(routes).cost < MaxCost
<1> DEFINE costs == {routes[i].cost : i \in DOMAIN routes}
<1>0. \A i \in DOMAIN routes : routes[i] \in Route /\ i \in Nat
  OBVIOUS
<1>1. \A i \in DOMAIN routes : routes[i].cost \in Nat /\ i \in Nat
  BY <1>0, MaxCostAssumption DEF Route, Cost
<1>2. PICK least \in costs : \A x \in costs : least <= x
  BY <1>1, LeastNatural
<1> DEFINE places == {i \in DOMAIN routes : routes[i].cost = least}
<1>3. PICK i \in places : \A j \in places : i <= j
  <2>1. places # {} /\ places \in SUBSET Nat
    BY <1>1, <1>2
  <2> HIDE DEF places
  <2>. QED
    BY <2>1, LeastNatural
<1>4. IsFastest(routes, i)
  <2>1. \A j \in DOMAIN routes : routes[i].cost <= routes[j].cost
    BY <1>2, <1>3
  <2>2. ASSUME NEW j \in DOMAIN routes, j < i
        PROVE  routes[i].cost < routes[j].cost
    <3>1. j \notin places
      BY <1>0, <1>3, <2>2
    <3>. QED
      BY <1>1, <1>3, <2>1, <3>1
  <2>3. routes[i].cost < MaxCost
    BY <1>1, <2>1, MaxCostAssumption
  <2>. QED
    BY <2>1, <2>2, <2>3 DEF IsFastest
<1> DEFINE f == CHOOSE j \in DOMAIN routes : IsFastest(routes, j)
<1>5. f \in DOMAIN routes /\ IsFastest(routes, f)
  BY <1>4, Zenon
<1>6. FindFastestRoute(routes) = routes[f]
  BY <1>4 DEF FindFastestRoute
<1>. QED
  BY <1>5, <1>6 DEF IsFastest, ToSet

\* A direct route of cost one is the fastest: nothing else costs one.
LEMMA DirectIsFastest ==
    ASSUME NEW d \in Addr, NEW routes, RoutesOK(routes, d),
           DirectRoute(d) \in ToSet(routes)
    PROVE  FindFastestRoute(routes) = DirectRoute(d)
<1>1. PICK i \in DOMAIN routes : routes[i] = DirectRoute(d)
  BY DEF ToSet
<1>2. routes[i].cost = 1 /\ routes[i].next_hop = d
  BY <1>1 DEF DirectRoute
<1>3. \A j \in DOMAIN routes : routes[j] \in Route /\ routes[j] \in ToSet(routes)
  BY DEF RoutesOK, ToSet
<1>4. ASSUME NEW j \in DOMAIN routes, j # i
      PROVE  routes[j].cost >= 2
  <2>1. routes[j].next_hop # d
    BY <1>2, <1>4 DEF RoutesOK, DistinctHops
  <2>. QED
    BY <2>1, <1>3 DEF RoutesOK
<1>5. \A j \in DOMAIN routes : routes[j].cost \in Int /\ j \in Int
  BY <1>3 DEF Route, Cost, RoutesOK
<1>6. IsFastest(routes, i)
  BY <1>2, <1>4, <1>5, MaxCostAssumption DEF IsFastest
<1>7. \A j \in DOMAIN routes : IsFastest(routes, j) => j = i
  BY <1>2, <1>4, <1>5 DEF IsFastest
<1>8. (CHOOSE j \in DOMAIN routes : IsFastest(routes, j)) = i
  BY <1>6, <1>7, Zenon
<1>. QED
  BY <1>1, <1>6, <1>8, Zenon DEF FindFastestRoute

\* Conversely a fastest cost of one is the direct route.
LEMMA FastestOneIsDirect ==
    ASSUME NEW d \in Addr, NEW routes, RoutesOK(routes, d),
           FindFastestRoute(routes).cost = 1
    PROVE  DirectRoute(d) \in ToSet(routes)
<1> DEFINE fastest == FindFastestRoute(routes)
<1>1. fastest # NoRoute
  BY MaxCostAssumption DEF NoRoute
<1>2. fastest \in ToSet(routes)
  BY <1>1, FindFastestFacts DEF RoutesOK
<1>3. fastest \in Route
  BY <1>2 DEF RoutesOK, ToSet
<1>4. fastest.next_hop = d
  BY <1>2, <1>3 DEF RoutesOK, Route, Cost
<1>5. fastest = DirectRoute(d)
  BY <1>3, <1>4 DEF Route, DirectRoute
<1>. QED
  BY <1>2, <1>5

\* Whoever is heard from ends up with a direct route; nothing else changes.
LEMMA LearnDirectFacts ==
    ASSUME NEW d \in Addr, NEW routes, RoutesOK(routes, d)
    PROVE  LET after == LearnDirect(routes, d)
           IN  /\ RoutesOK(after, d)
               /\ DirectRoute(d) \in ToSet(after)
               /\ ToSet(after) \subseteq ToSet(routes) \union {DirectRoute(d)}
<1> DEFINE after == LearnDirect(routes, d)
<1>1. CASE FindFastestRoute(routes).cost = 1
  BY <1>1, FastestOneIsDirect DEF LearnDirect
<1>2. CASE FindFastestRoute(routes).cost # 1
  <2>1. 1 \in Cost
    BY MaxCostAssumption DEF Cost
  <2>2. after = AddUpdateRoute(routes, d, 1)
    BY <1>2 DEF LearnDirect
  <2>3. /\ after \in Seq(Route) /\ DistinctHops(after)
        /\ ToSet(after) = {r \in ToSet(routes) : r.next_hop # d}
                            \union {DirectRoute(d)}
    BY <2>1, <2>2, AddUpdateRouteFacts DEF RoutesOK, DirectRoute
  <2>4. RoutesOK(after, d)
    BY <2>3 DEF RoutesOK, DirectRoute
  <2>. QED
    BY <2>3, <2>4
<1>. QED
  BY <1>1, <1>2
---------------------------------------------------------------------------
(* The table of node n: no route to n itself, and every usable route goes  *)
(* through a node with a direct route.                                     *)

HasDirect(t, m) == DirectRoute(m) \in ToSet(t[m])

TableOK(t, n) ==
    /\ t \in [Addr -> Seq(Route)]
    /\ \A d \in Addr : RoutesOK(t[d], d)
    /\ t[n] = <<>>
    /\ \A d \in Addr : \A r \in ToSet(t[d]) :
        r.cost < MaxCost => HasDirect(t, r.next_hop)

LEMMA RoutesAreRoutes ==
    ASSUME NEW routes \in Seq(Route), NEW r \in ToSet(routes)
    PROVE  r \in Route /\ r.next_hop \in Addr /\ r.cost \in 0..MaxCost
<1>1. r \in Route
  BY DEF ToSet
<1>. QED
  BY <1>1 DEF Route, Cost

LEMMA EmptyTableOK == \A n \in Addr : TableOK(EmptyTable, n)
BY DEF EmptyTable, TableOK, RoutesOK, DistinctHops, ToSet

\* The neighbours of a daemon are the nodes it has direct routes to.
LEMMA NeighboursAreDirect ==
    ASSUME NEW n \in Addr, NEW t, TableOK(t, n), NEW m \in Addr
    PROVE  /\ m \in GetAllNeighbours(t) <=> HasDirect(t, m)
           /\ HasDirect(t, m) => FindFastestRoute(t[m]) = DirectRoute(m)
<1>1. RoutesOK(t[m], m)
  BY DEF TableOK
<1>2. HasDirect(t, m) => FindFastestRoute(t[m]) = DirectRoute(m)
  BY <1>1, DirectIsFastest DEF HasDirect
<1>3. DirectRoute(m).cost = 1
  BY DEF DirectRoute
<1>4. FindFastestRoute(t[m]).cost = 1 => HasDirect(t, m)
  BY <1>1, FastestOneIsDirect DEF HasDirect
<1>. QED
  BY <1>2, <1>3, <1>4 DEF GetAllNeighbours

\* handle_hello_message and the first step of handle_update_message.
LEMMA LearnNeighbourFacts ==
    ASSUME NEW n \in Addr, NEW t, TableOK(t, n), NEW s \in Addr, s # n
    PROVE  LET after == LearnNeighbour(t, s)
           IN  /\ TableOK(after, n)
               /\ HasDirect(after, s)
               /\ \A m \in Addr : HasDirect(t, m) => HasDirect(after, m)
<1> DEFINE after == LearnNeighbour(t, s)
<1>1. RoutesOK(t[s], s)
  BY DEF TableOK
<1>2. after = [t EXCEPT ![s] = LearnDirect(t[s], s)]
  BY DEF LearnNeighbour
<1>3. /\ RoutesOK(after[s], s)
      /\ DirectRoute(s) \in ToSet(after[s])
      /\ ToSet(after[s]) \subseteq ToSet(t[s]) \union {DirectRoute(s)}
  BY <1>1, <1>2, LearnDirectFacts DEF TableOK
<1>4. \A d \in Addr : d # s => after[d] = t[d]
  BY <1>2 DEF TableOK
<1>5. after \in [Addr -> Seq(Route)]
  BY <1>1, <1>2, LearnDirectFacts DEF RoutesOK, TableOK
<1>6. \A m \in Addr : HasDirect(t, m) => HasDirect(after, m)
  BY <1>3, <1>4 DEF HasDirect
<1>7. HasDirect(after, s)
  BY <1>3 DEF HasDirect
<1>8. ASSUME NEW d \in Addr, NEW r \in ToSet(after[d]), r.cost < MaxCost
      PROVE  HasDirect(after, r.next_hop)
  <2>1. r \in ToSet(t[d]) \/ r = DirectRoute(s)
    BY <1>3, <1>4
  <2>2. CASE r \in ToSet(t[d])
    <3>1. r.next_hop \in Addr
      BY <2>2, RoutesAreRoutes DEF TableOK
    <3>. QED
      BY <2>2, <3>1, <1>6, <1>8 DEF TableOK
  <2>3. CASE r = DirectRoute(s)
    BY <2>3, <1>7 DEF DirectRoute
  <2>. QED
    BY <2>1, <2>2, <2>3
<1>9. after[n] = <<>> /\ \A d \in Addr : RoutesOK(after[d], d)
  BY <1>3, <1>4 DEF TableOK
<1>. QED
  BY <1>5, <1>6, <1>7, <1>8, <1>9 DEF TableOK

\* A vector as the neighbours of n make it for n: no way to n, no cost zero.
VectorOK(v, n) ==
    /\ v \in [Addr -> Cost]
    /\ v[n] = MaxCost
    /\ \A d \in Addr : v[d] >= 1

\* One entry of ApplyVector, for a destination other than the sender.
LEMMA ApplyVectorEntry ==
    ASSUME NEW n \in Addr, NEW t, TableOK(t, n), NEW s \in Addr,
           NEW v, VectorOK(v, n), NEW d \in Addr, d # s
    PROVE  LET after == ApplyVector(t, s, v)[d]
           IN  /\ RoutesOK(after, d)
               /\ ToSet(after) =
                    {r \in ToSet(t[d]) : r.next_hop # s}
                    \union IF v[d] = MaxCost THEN {}
                           ELSE {[next_hop |-> s, cost |-> v[d] + 1]}
<1> DEFINE after == ApplyVector(t, s, v)[d]
           rest == {r \in ToSet(t[d]) : r.next_hop # s}
<1>0. /\ RoutesOK(t[d], d) /\ t[d] \in Seq(Route) /\ DistinctHops(t[d])
      /\ v[d] \in 1..MaxCost
  BY MaxCostAssumption DEF TableOK, RoutesOK, VectorOK, Cost
<1>1. CASE v[d] = MaxCost
  <2>1. after = DeleteRoute(t[d], s)
    BY <1>1 DEF ApplyVector
  <2>2. after \in Seq(Route) /\ DistinctHops(after) /\ ToSet(after) = rest
    BY <2>1, <1>0, DeleteRouteFacts
  <2>3. RoutesOK(after, d)
    BY <2>2, <1>0 DEF RoutesOK
  <2>. QED
    BY <2>2, <2>3, <1>1
<1>2. CASE v[d] # MaxCost
  <2> DEFINE new == [next_hop |-> s, cost |-> v[d] + 1]
  <2>1. v[d] + 1 \in Cost /\ v[d] + 1 >= 2
    BY <1>0, <1>2, MaxCostAssumption DEF Cost
  <2>2. after = AddUpdateRoute(t[d], s, v[d] + 1)
    BY <1>2 DEF ApplyVector
  <2>3. after \in Seq(Route) /\ DistinctHops(after) /\ ToSet(after) = rest \union {new}
    <3> DEFINE c == v[d] + 1
    <3>1. c \in Cost
      BY <2>1
    <3> HIDE DEF c
    <3>2. LET updated == AddUpdateRoute(t[d], s, c)
          IN  /\ updated \in Seq(Route) /\ DistinctHops(updated)
              /\ ToSet(updated) = rest \union {[next_hop |-> s, cost |-> c]}
      BY <3>1, <1>0, AddUpdateRouteFacts
    <3>. QED
      BY <3>2, <2>2 DEF c
  <2>4. \A r \in ToSet(after) :
            IF r.next_hop = d THEN r.cost \in {1, MaxCost} ELSE r.cost >= 2
    BY <2>1, <2>3, <1>0 DEF RoutesOK
  <2>5. RoutesOK(after, d)
    BY <2>3, <2>4 DEF RoutesOK
  <2>. QED
    BY <2>3, <2>5, <1>2
<1>. QED
  BY <1>1, <1>2

\* handle_update_message keeps the table of n sound and every neighbour.
LEMMA ApplyVectorFacts ==
    ASSUME NEW n \in Addr, NEW t, TableOK(t, n), NEW s \in Addr, s # n,
           NEW v, VectorOK(v, n)
    PROVE  LET after == ApplyVector(t, s, v)
           IN  /\ TableOK(after, n)
               /\ HasDirect(after, s)
               /\ \A m \in Addr : HasDirect(t, m) => HasDirect(after, m)
<1> DEFINE after == ApplyVector(t, s, v)
           newRoute(d) == [next_hop |-> s, cost |-> v[d] + 1]
<1>1. after[s] = LearnDirect(t[s], s)
  BY DEF ApplyVector
<1>2. /\ RoutesOK(after[s], s)
      /\ DirectRoute(s) \in ToSet(after[s])
      /\ ToSet(after[s]) \subseteq ToSet(t[s]) \union {DirectRoute(s)}
  BY <1>1, LearnDirectFacts DEF TableOK
<1>3. \A d \in Addr : d # s =>
        /\ RoutesOK(after[d], d)
        /\ ToSet(after[d]) = {r \in ToSet(t[d]) : r.next_hop # s}
                              \union IF v[d] = MaxCost THEN {} ELSE {newRoute(d)}
  BY ApplyVectorEntry
<1>4. HasDirect(after, s)
  BY <1>2 DEF HasDirect
<1>5. ASSUME NEW m \in Addr, HasDirect(t, m)
      PROVE  HasDirect(after, m)
  <2>1. CASE m = s
    BY <2>1, <1>4
  <2>2. CASE m # s
    BY <2>2, <1>3, <1>5 DEF HasDirect, DirectRoute
  <2>. QED
    BY <2>1, <2>2
<1>6. \A d \in Addr : RoutesOK(after[d], d)
  BY <1>2, <1>3
<1>7. after \in [Addr -> Seq(Route)]
  <2>1. after = [d \in Addr |-> after[d]]
    BY DEF ApplyVector
  <2>2. \A d \in Addr : after[d] \in Seq(Route)
    BY <1>6 DEF RoutesOK
  <2> HIDE DEF after
  <2>. QED
    BY <2>1, <2>2
<1>8. ASSUME NEW d \in Addr, NEW r \in ToSet(after[d]), r.cost < MaxCost
      PROVE  HasDirect(after, r.next_hop)
  <2>1. r \in ToSet(t[d]) \/ r.next_hop = s
    BY <1>2, <1>3 DEF DirectRoute
  <2>2. CASE r \in ToSet(t[d])
    <3>1. r.next_hop \in Addr
      BY <2>2, RoutesAreRoutes DEF TableOK
    <3>2. HasDirect(t, r.next_hop)
      BY <2>2, <1>8 DEF TableOK
    <3>. QED
      BY <3>1, <3>2, <1>5
  <2>3. CASE r.next_hop = s
    BY <2>3, <1>4
  <2>. QED
    BY <2>1, <2>2, <2>3
<1>9. after[n] = <<>>
  <2>1. v[n] = MaxCost /\ t[n] = <<>>
    BY DEF VectorOK, TableOK
  <2>2. ~RouteExists(t[n], s)
    BY <2>1 DEF RouteExists
  <2>. QED
    BY <2>1, <2>2 DEF ApplyVector, DeleteRoute
<1>. QED
  BY <1>4, <1>5, <1>6, <1>7, <1>8, <1>9 DEF TableOK

\* set_hop_unreachable takes every usable route through the hops along, and
\* no neighbour but the hops themselves.
LEMMA SetHopsUnreachableFacts ==
    ASSUME NEW n \in Addr, NEW t, TableOK(t, n), NEW hops \in SUBSET Addr
    PROVE  LET after == SetHopsUnreachable(t, hops)
           IN  /\ TableOK(after, n)
               /\ \A m \in Addr \ hops : HasDirect(t, m) => HasDirect(after, m)
               /\ \A d \in Addr : \A r \in ToSet(after[d]) :
                    \E q \in ToSet(t[d]) : /\ q.next_hop = r.next_hop
                                           /\ r.cost < MaxCost => r = q
<1> DEFINE after == SetHopsUnreachable(t, hops)
           worsened(r) == IF r.next_hop \in hops
                          THEN [r EXCEPT !.cost = MaxCost] ELSE r
<1>1. ASSUME NEW d \in Addr
      PROVE  /\ after[d] \in Seq(Route)
             /\ DOMAIN after[d] = DOMAIN t[d]
             /\ \A i \in DOMAIN t[d] : after[d][i] = worsened(t[d][i])
  <2>1. t[d] \in Seq(Route)
    BY DEF TableOK
  <2>2. after[d] = [i \in DOMAIN t[d] |-> worsened(t[d][i])]
    BY DEF SetHopsUnreachable
  <2>3. \A r \in Route : worsened(r) \in Route
    BY MaxCostAssumption DEF Route, Cost
  <2>. QED
    BY <2>1, <2>2, <2>3
<1>2. \A r \in Route : /\ worsened(r).next_hop = r.next_hop
                       /\ r.next_hop \notin hops => worsened(r) = r
                       /\ r.next_hop \in hops => worsened(r).cost = MaxCost
  BY DEF Route
<1>3. \A d \in Addr : \A i \in DOMAIN t[d] : t[d][i] \in Route
  BY DEF TableOK
<1> HIDE DEF worsened, after
<1>4. \A d \in Addr : \A r \in ToSet(after[d]) :
        \E q \in ToSet(t[d]) : q \in Route /\ r = worsened(q)
  BY <1>1, <1>3 DEF ToSet
<1>5. \A d \in Addr : \A q \in ToSet(t[d]) :
        q.next_hop \notin hops => q \in ToSet(after[d])
  BY <1>1, <1>2, <1>3 DEF ToSet
<1>6. ASSUME NEW d \in Addr
      PROVE  RoutesOK(after[d], d)
  <2>1. RoutesOK(t[d], d)
    BY DEF TableOK
  <2>2. DistinctHops(after[d])
    BY <2>1, <1>1, <1>2, <1>3, SMTT(30) DEF RoutesOK, DistinctHops
  <2>3. ASSUME NEW r \in ToSet(after[d])
        PROVE  IF r.next_hop = d THEN r.cost \in {1, MaxCost} ELSE r.cost >= 2
    <3>1. PICK q \in ToSet(t[d]) : q \in Route /\ r = worsened(q)
      BY <1>4
    <3>. QED
      BY <3>1, <2>1, <1>2, MaxCostAssumption DEF RoutesOK
  <2>. QED
    BY <1>1, <2>2, <2>3 DEF RoutesOK
<1>7. \A m \in Addr \ hops : HasDirect(t, m) => HasDirect(after, m)
  BY <1>5 DEF HasDirect, DirectRoute
<1>8. ASSUME NEW d \in Addr, NEW r \in ToSet(after[d]), r.cost < MaxCost
      PROVE  HasDirect(after, r.next_hop)
  <2>1. PICK q \in ToSet(t[d]) : q \in Route /\ r = worsened(q)
    BY <1>4
  <2>2. q.next_hop \in Addr \ hops /\ r = q
    BY <2>1, <1>2, <1>8, MaxCostAssumption DEF Route
  <2>3. HasDirect(t, r.next_hop)
    BY <2>2, <1>8 DEF TableOK
  <2>. QED
    BY <2>2, <2>3, <1>7
<1>9. after[n] = <<>>
  BY <1>1 DEF TableOK
<1>10. after \in [Addr -> Seq(Route)]
  <2>1. after = [d \in Addr |-> after[d]]
    BY DEF SetHopsUnreachable, after
  <2>. QED
    BY <2>1, <1>1
<1>11. ASSUME NEW d \in Addr, NEW r \in ToSet(after[d])
       PROVE  \E q \in ToSet(t[d]) : /\ q.next_hop = r.next_hop
                                     /\ r.cost < MaxCost => r = q
  <2>1. PICK q \in ToSet(t[d]) : q \in Route /\ r = worsened(q)
    BY <1>4
  <2>. QED
    BY <2>1, <1>2, MaxCostAssumption
<1>. QED
  BY <1>6, <1>7, <1>8, <1>9, <1>10, <1>11 DEF TableOK, after

\* Poisoned reverse: the vector made for a neighbour offers no way to it.
LEMMA VectorForNeighbour ==
    ASSUME NEW n \in Addr, NEW t, TableOK(t, n),
           NEW m \in Addr, m \in GetAllNeighbours(t)
    PROVE  VectorOK(GetAllFastestRoutesForNeighbour(t, m), m)
<1> DEFINE v == GetAllFastestRoutesForNeighbour(t, m)
<1>1. ASSUME NEW d \in Addr
      PROVE  FindFastestRoute(t[d]).cost \in 1..MaxCost
  <2> DEFINE fastest == FindFastestRoute(t[d])
  <2>1. RoutesOK(t[d], d) /\ t[d] \in Seq(Route)
    BY DEF TableOK
  <2>2. CASE fastest = NoRoute
    BY <2>2, MaxCostAssumption DEF NoRoute
  <2>3. CASE fastest \in ToSet(t[d])
    <3>1. fastest.cost \in 0..MaxCost
      BY <2>1, <2>3, RoutesAreRoutes
    <3>2. fastest.cost >= 1
      BY <2>1, <2>3, <3>1, MaxCostAssumption DEF RoutesOK
    <3>. QED
      BY <3>1, <3>2
  <2>. QED
    BY <2>1, <2>2, <2>3, FindFastestFacts
<1>2. FindFastestRoute(t[m]).next_hop = m
  <2>1. FindFastestRoute(t[m]) = DirectRoute(m)
    BY NeighboursAreDirect
  <2>. QED
    BY <2>1 DEF DirectRoute
<1>3. v = [d \in Addr |-> IF FindFastestRoute(t[d]).next_hop = m
                          THEN MaxCost ELSE FindFastestRoute(t[d]).cost]
  BY DEF GetAllFastestRoutesForNeighbour
<1>. QED
  BY <1>1, <1>2, <1>3, MaxCostAssumption DEF VectorOK, Cost
===========================================================================

------------------------- MODULE RoutingdTreeProofs -------------------------
(***************************************************************************)
(* In a network without cycles every usable cost is exact and no answer    *)
(* of the routing daemons leads a packet back, for every such network.     *)
(*                                                                         *)
(* TreeCostsExact is made inductive by what it says of the vectors in      *)
(* flight: because of the poisoned reverse a finite cost in a vector is    *)
(* the exact distance of its sender, and its receiver is one cable further *)
(* away.  A stale vector is therefore as exact as a fresh one.             *)
(***************************************************************************)
EXTENDS RoutingdTree, RoutingdProofs, WellFoundedInduction

ExactRoute(n, d, r) ==
    /\ <<n, r.next_hop>> \in Links
    /\ r.cost < MaxCost => /\ r.cost = Dist[n][d]
                           /\ Dist[n][d] = Dist[r.next_hop][d] + 1

ExactTable(t, n) == \A d \in Addr : \A r \in ToSet(t[d]) : ExactRoute(n, d, r)

ExactVector(v, c) ==
    \A d \in Addr :
        v[d] < MaxCost => v[d] = Dist[c[1]][d] /\ Dist[c[2]][d] = v[d] + 1

ExactChannels(channels) ==
    \A c \in Links : \A v \in ToSet(channels[c]) : ExactVector(v, c)

TreeInv ==
    /\ IInv
    /\ \A n \in Addr : ExactTable(table[n], n)
    /\ ExactChannels(updates)
---------------------------------------------------------------------------
LEMMA DirectIsExact ==
    ASSUME NEW n \in Addr, NEW s \in Addr, <<s, n>> \in Links
    PROVE  ExactRoute(n, s, DirectRoute(s))
<1>1. <<n, s>> \in Links
  BY LinksAssumption
<1>2. Dist[s][s] = 0 /\ Dist[n][s] \in Nat
  BY TreeAssumption
<1>3. Dist[n][s] = Dist[s][s] + 1 \/ Dist[s][s] = Dist[n][s] + 1
  <2>1. /\ <<n, s>>[1] = n /\ <<n, s>>[2] = s
    OBVIOUS
  <2>. QED
    BY <1>1, <2>1, TreeAssumption
<1>4. Dist[n][s] = 1
  BY <1>2, <1>3
<1>. QED
  BY <1>1, <1>2, <1>4 DEF ExactRoute, DirectRoute

\* The vector for a neighbour holds no cost of a route through it, and in a
\* tree every other way out of n leads away from that neighbour.
LEMMA VectorIsExact ==
    ASSUME NEW n \in Addr, NEW t, TableOK(t, n), ExactTable(t, n),
           NEW c \in Links, c[1] = n
    PROVE  ExactVector(GetAllFastestRoutesForNeighbour(t, c[2]), c)
<1> DEFINE v == GetAllFastestRoutesForNeighbour(t, c[2])
<1> SUFFICES ASSUME NEW d \in Addr, v[d] < MaxCost
             PROVE  v[d] = Dist[n][d] /\ Dist[c[2]][d] = v[d] + 1
  BY DEF ExactVector
<1> DEFINE r == FindFastestRoute(t[d])
<1>1. r.next_hop # c[2] /\ v[d] = r.cost
  BY MaxCostAssumption DEF GetAllFastestRoutesForNeighbour
<1>2. r \in ToSet(t[d]) /\ t[d] \in Seq(Route)
  BY <1>1, FindFastestFacts, MaxCostAssumption DEF NoRoute, TableOK
<1>3. r.next_hop \in Addr /\ ExactRoute(n, d, r)
  BY <1>2, RoutesAreRoutes DEF ExactTable
<1>4. /\ <<n, r.next_hop>> \in Links
      /\ r.cost = Dist[n][d] /\ Dist[n][d] = Dist[r.next_hop][d] + 1
  BY <1>1, <1>3 DEF ExactRoute
<1>5. c[2] \in Addr /\ <<n, c[2]>> \in Links
  BY LinkEnds
<1>6. Dist[n][d] # Dist[c[2]][d] + 1
  BY <1>1, <1>3, <1>4, <1>5, TreeAssumption
<1>7. Dist[n][d] = Dist[c[2]][d] + 1 \/ Dist[c[2]][d] = Dist[n][d] + 1
  BY TreeAssumption
<1>. QED
  BY <1>1, <1>4, <1>6, <1>7

LEMMA WithUpdatesExact ==
    ASSUME TypeOK, NEW n \in Addr, NEW t, TableOK(t, n), ExactTable(t, n),
           NEW channels \in [Links -> Seq(Vector)], ExactChannels(channels)
    PROVE  ExactChannels(WithUpdates(n, t, channels))
<1> DEFINE after == WithUpdates(n, t, channels)
           vector(m) == GetAllFastestRoutesForNeighbour(t, m)
<1> SUFFICES ASSUME NEW c \in Links
             PROVE  \A v \in ToSet(after[c]) : ExactVector(v, c)
  BY DEF ExactChannels
<1>1. CASE after[c] = channels[c]
  BY <1>1 DEF ExactChannels
<1>2. CASE /\ after[c] = Append(channels[c], vector(c[2]))
           /\ c[2] \in GetAllNeighbours(t) /\ c[1] = n
  <2>1. ExactVector(vector(c[2]), c)
    BY <1>2, VectorIsExact
  <2>2. vector(c[2]) \in Vector
    BY <1>2, VectorForNeighbour, LinkEnds DEF VectorOK, Vector
  <2> HIDE DEF vector, after
  <2>3. channels[c] \in Seq(Vector) /\ after[c] \in Seq(Vector)
    BY <1>2, <2>2
  <2>4. \A i \in DOMAIN after[c] :
          after[c][i] = vector(c[2]) \/ after[c][i] \in ToSet(channels[c])
    BY <1>2, <2>2, <2>3 DEF ToSet
  <2>. QED
    BY <2>1, <2>3, <2>4 DEF ExactChannels, ToSet
<1>. QED
  BY <1>1, <1>2 DEF WithUpdates

LEMMA TailExact ==
    ASSUME NEW c \in Links, updates \in [Links -> Seq(Vector)],
           ExactChannels(updates), updates[c] # <<>>
    PROVE  /\ ExactVector(Head(updates[c]), c)
           /\ ExactChannels([updates EXCEPT ![c] = Tail(@)])
           /\ ExactChannels([updates EXCEPT ![c] = Append(Tail(@), Head(@))])
<1>1. updates[c] \in Seq(Vector) /\ updates[c] # <<>>
  OBVIOUS
<1>2. /\ Head(updates[c]) \in Vector /\ Head(updates[c]) \in ToSet(updates[c])
      /\ Tail(updates[c]) \in Seq(Vector)
      /\ ToSet(Tail(updates[c])) \subseteq ToSet(updates[c])
  BY <1>1 DEF ToSet
<1>3. ToSet(Append(Tail(updates[c]), Head(updates[c]))) \subseteq ToSet(updates[c])
  BY <1>1 DEF ToSet
<1>. QED
  BY <1>2, <1>3 DEF ExactChannels

LEMMA LearnExact ==
    ASSUME NEW n \in Addr, NEW t, TableOK(t, n), ExactTable(t, n),
           NEW s \in Addr, <<s, n>> \in Links
    PROVE  ExactTable(LearnNeighbour(t, s), n)
<1>1. ToSet(LearnNeighbour(t, s)[s]) \subseteq ToSet(t[s]) \union {DirectRoute(s)}
  BY LearnDirectFacts DEF LearnNeighbour, TableOK
<1>2. \A d \in Addr : d # s => LearnNeighbour(t, s)[d] = t[d]
  BY DEF LearnNeighbour, TableOK
<1>. QED
  BY <1>1, <1>2, DirectIsExact DEF ExactTable

LEMMA ApplyExact ==
    ASSUME NEW n \in Addr, NEW t, TableOK(t, n), ExactTable(t, n),
           NEW s \in Addr, <<s, n>> \in Links,
           NEW v, VectorOK(v, n), ExactVector(v, <<s, n>>)
    PROVE  ExactTable(ApplyVector(t, s, v), n)
<1> DEFINE after == ApplyVector(t, s, v)
<1> SUFFICES ASSUME NEW d \in Addr, NEW r \in ToSet(after[d])
             PROVE  ExactRoute(n, d, r)
  BY DEF ExactTable
<1>1. CASE d = s
  <2>1. RoutesOK(t[s], s) /\ after[s] = LearnDirect(t[s], s)
    BY DEF TableOK, ApplyVector
  <2>2. r \in ToSet(t[s]) \/ r = DirectRoute(s)
    BY <1>1, <2>1, LearnDirectFacts
  <2>. QED
    BY <1>1, <2>2, DirectIsExact DEF ExactTable
<1>2. CASE d # s
  <2> DEFINE new == [next_hop |-> s, cost |-> v[d] + 1]
  <2>1. r \in ToSet(t[d]) \/ (v[d] # MaxCost /\ r = new)
    BY <1>2, ApplyVectorEntry
  <2>2. CASE r \in ToSet(t[d])
    BY <2>2 DEF ExactTable
  <2>3. CASE v[d] # MaxCost /\ r = new
    <3>1. v[d] < MaxCost
      BY <2>3, MaxCostAssumption DEF VectorOK, Cost
    <3>2. v[d] = Dist[s][d] /\ Dist[n][d] = v[d] + 1
      BY <3>1 DEF ExactVector
    <3>3. <<n, s>> \in Links
      BY LinksAssumption
    <3>. QED
      BY <2>3, <3>2, <3>3 DEF ExactRoute
  <2>. QED
    BY <2>1, <2>2, <2>3
<1>. QED
  BY <1>1, <1>2

LEMMA UnreachableExact ==
    ASSUME NEW n \in Addr, NEW t, TableOK(t, n), ExactTable(t, n),
           NEW hops \in SUBSET Addr
    PROVE  ExactTable(SetHopsUnreachable(t, hops), n)
<1> DEFINE after == SetHopsUnreachable(t, hops)
<1>1. /\ TableOK(after, n)
      /\ \A d \in Addr : \A r \in ToSet(after[d]) :
            \E q \in ToSet(t[d]) : /\ q.next_hop = r.next_hop
                                   /\ r.cost < MaxCost => r = q
  BY SetHopsUnreachableFacts, SMTT(30)
<1> HIDE DEF after
<1>2. ASSUME NEW d \in Addr, NEW r \in ToSet(after[d])
      PROVE  ExactRoute(n, d, r)
  <2>1. PICK q \in ToSet(t[d]) : /\ q.next_hop = r.next_hop
                                 /\ r.cost < MaxCost => r = q
    BY <1>1
  <2>2. r.cost \in Int /\ MaxCost \in Int
    BY <1>1, RoutesAreRoutes, MaxCostAssumption DEF TableOK
  <2>3. ExactRoute(n, d, q)
    BY DEF ExactTable
  <2>4. CASE r.cost < MaxCost
    <3>1. r = q
      BY <2>1, <2>4
    <3>. QED
      BY <3>1, <2>3, Zenon
  <2>5. CASE ~(r.cost < MaxCost)
    BY <2>1, <2>3, <2>5 DEF ExactRoute
  <2>. QED
    BY <2>4, <2>5
<1>. QED
  BY <1>2 DEF ExactTable, after
---------------------------------------------------------------------------
LEMMA InitTree == Init => TreeInv
<1> SUFFICES ASSUME Init PROVE TreeInv
  OBVIOUS
<1>. QED
  BY InitIInv DEF Init, TreeInv, EmptyTable, ExactTable, ExactChannels, ToSet

LEMMA StepTree == TreeInv /\ [Next]_vars => TreeInv'
<1> SUFFICES ASSUME TreeInv, [Next]_vars PROVE TreeInv'
  OBVIOUS
<1>0. /\ IInv /\ IInv' /\ TypeOK /\ updates \in [Links -> Seq(Vector)]
      /\ \A n \in Addr : TableOK(table[n], n) /\ TableOK(table'[n], n)
      /\ \A n \in Addr : ExactTable(table[n], n)
      /\ ExactChannels(updates)
  BY StepIInv DEF TreeInv, IInv, TypeOK, TablesOK
<1> DEFINE Goal == (\A n \in Addr : ExactTable(table'[n], n)) /\ ExactChannels(updates')
<1>1. ASSUME NEW n \in Addr, Start(n) \/ SendHello(n) \/ Crash(n)
      PROVE  Goal
  <2>1. \A m \in Addr : table'[m] = table[m] \/ table'[m] = EmptyTable
    BY <1>1, <1>0 DEF Start, SendHello, Crash, TypeOK
  <2>2. updates' = updates
    BY <1>1 DEF Start, SendHello, Crash
  <2>. QED
    BY <2>1, <2>2, <1>0 DEF EmptyTable, ExactTable, ToSet
<1>2. ASSUME NEW n \in Addr, CheckTimeouts(n)
      PROVE  Goal
  <2>1. /\ table'[n] = SetHopsUnreachable(table[n], TimedOut(n))
        /\ \A m \in Addr : m # n => table'[m] = table[m]
    BY <1>2, <1>0 DEF CheckTimeouts, TypeOK
  <2>2. TimedOut(n) \in SUBSET Addr
    BY DEF TimedOut, GetAllNeighbours
  <2>3. ExactTable(table'[n], n)
    BY <2>1, <2>2, <1>0, UnreachableExact
  <2>4. updates' = updates \/ updates' = WithUpdates(n, table'[n], updates)
    BY <1>2 DEF CheckTimeouts
  <2>. QED
    BY <2>1, <2>3, <2>4, <1>0, WithUpdatesExact
<1>3. ASSUME NEW n \in Addr, NEW s \in Addr, HandleHello(n, s)
      PROVE  Goal
  <2>1. /\ table'[n] = LearnNeighbour(table[n], s)
        /\ \A m \in Addr : m # n => table'[m] = table[m]
        /\ <<s, n>> \in Links
    BY <1>3, <1>0 DEF HandleHello, TypeOK
  <2>2. ExactTable(table'[n], n)
    BY <2>1, <1>0, LearnExact
  <2>3. updates' = WithUpdates(n, table'[n], updates)
    BY <1>3 DEF HandleHello
  <2>. QED
    BY <2>1, <2>2, <2>3, <1>0, WithUpdatesExact
<1>4. ASSUME NEW n \in Addr, NEW s \in Addr, HandleUpdate(n, s)
      PROVE  Goal
  <2> DEFINE received == Head(updates[<<s, n>>])
             rest == [updates EXCEPT ![<<s, n>>] = Tail(@)]
  <2>1. <<s, n>> \in Links /\ updates[<<s, n>>] # <<>>
    BY <1>4 DEF HandleUpdate, Pending
  <2>2. /\ ExactVector(received, <<s, n>>) /\ ExactChannels(rest)
        /\ VectorOK(received, n) /\ rest \in [Links -> Seq(Vector)]
    BY <2>1, <1>0, TailExact, TailOfChannel DEF IInv
  <2>3. /\ table'[n] = ApplyVector(table[n], s, received)
        /\ \A m \in Addr : m # n => table'[m] = table[m]
        /\ updates' = rest \/ updates' = WithUpdates(n, table'[n], rest)
    BY <1>4, <1>0 DEF HandleUpdate, TypeOK
  <2> HIDE DEF received, rest
  <2>4. ExactTable(table'[n], n)
    BY <2>1, <2>2, <2>3, <1>0, ApplyExact
  <2>. QED
    BY <2>2, <2>3, <2>4, <1>0, WithUpdatesExact
<1>5. ASSUME NEW n \in Addr, NEW s \in Addr, Environment(n, s)
      PROVE  Goal
  <2>1. table' = table
    BY <1>5 DEF Environment, Discard, Unroutable, LoseHello, LoseUpdate,
                Overtake, LinkDown, LinkUp
  <2>2. \/ updates' = updates
        \/ Pending(s, n) /\ updates' = [updates EXCEPT ![<<s, n>>] = Tail(@)]
        \/ /\ Pending(s, n)
           /\ updates' = [updates EXCEPT ![<<s, n>>] = Append(Tail(@), Head(@))]
    BY <1>5 DEF Environment, Discard, Unroutable, LoseHello, LoseUpdate,
                Overtake, LinkDown, LinkUp
  <2>3. ExactChannels(updates')
    BY <2>2, <1>0, TailExact DEF Pending
  <2>. QED
    BY <2>1, <2>3, <1>0
<1>6. ASSUME UNCHANGED vars
      PROVE  Goal
  BY <1>6, <1>0 DEF vars
<1> HIDE DEF Goal
<1>7. Goal
  BY <1>1, <1>2, <1>3, <1>4, <1>5, <1>6 DEF Next, Receive
<1>. QED
  BY <1>0, <1>7 DEF TreeInv, Goal

LEMMA TreeInvariance == Spec => []TreeInv
BY InitTree, StepTree, PTL DEF Spec
---------------------------------------------------------------------------
LEMMA TreeInvExact == TreeInv => TreeCostsExact
<1> SUFFICES ASSUME TreeInv, NEW n \in Addr, NEW d \in Addr,
                    NEW i \in DOMAIN table[n][d]
             PROVE  LET route == table[n][d][i]
                    IN  route.cost < MaxCost =>
                            /\ route.cost = Dist[n][d]
                            /\ Dist[n][d] = Dist[route.next_hop][d] + 1
  BY DEF TreeCostsExact
<1>1. table[n][d][i] \in ToSet(table[n][d])
  BY DEF ToSet
<1>. QED
  BY <1>1 DEF TreeInv, ExactTable, ExactRoute

\* Among some nodes one is closest to d; its next hop is closer still.
LEMMA TreeInvLoopFree == TreeInv => LoopFree
<1> SUFFICES ASSUME TreeInv, NEW d \in Addr, NEW S \in SUBSET Addr, S # {}
             PROVE  \E n \in S : AnswerRequest(table[n], d) \notin S
  BY DEF LoopFree
<1> DEFINE distances == {Dist[n][d] : n \in S}
<1>1. distances \subseteq Nat /\ distances # {}
  BY TreeAssumption
<1>2. PICK least \in distances : \A x \in distances : ~(<<x, least>> \in OpToRel(<, Nat))
  BY <1>1, WFMin, NatLessThanWellFounded
<1>3. \A x \in distances : ~(x < least)
  BY <1>1, <1>2 DEF OpToRel
<1>4. PICK n \in S : Dist[n][d] = least
  OBVIOUS
<1> DEFINE r == FindFastestRoute(table[n][d])
<1>5. table[n][d] \in Seq(Route) /\ ExactTable(table[n], n)
  BY DEF TreeInv, IInv, TypeOK
<1>6. CASE r = NoRoute
  <2>1. AnswerRequest(table[n], d) = Unreachable
    BY <1>6 DEF NoRoute, AnswerRequest
  <2>. QED
    BY <2>1, AddrAssumption
<1>7. CASE r \in ToSet(table[n][d]) /\ r.cost < MaxCost
  <2>1. Dist[n][d] = Dist[r.next_hop][d] + 1 /\ r.next_hop \in Addr
    BY <1>5, <1>7, RoutesAreRoutes DEF ExactTable, ExactRoute
  <2>2. r.next_hop \notin S
    <3> SUFFICES ASSUME r.next_hop \in S PROVE FALSE
      OBVIOUS
    <3>1. Dist[r.next_hop][d] \in distances /\ Dist[r.next_hop][d] \in Nat
      BY <1>1
    <3>2. Dist[r.next_hop][d] < least
      BY <2>1, <3>1, <1>4
    <3>. QED
      BY <3>1, <3>2, <1>3
  <2>3. AnswerRequest(table[n], d) \in {Unreachable, r.next_hop}
    BY DEF AnswerRequest
  <2>. QED
    BY <2>2, <2>3, AddrAssumption
<1>. QED
  BY <1>5, <1>6, <1>7, FindFastestFacts

\* In a tree no usable cost is ever wrong, whatever is late, lost or crashed.
THEOREM TreeCosts == Spec => []TreeCostsExact
BY TreeInvariance, TreeInvExact, PTL

\* In a tree no packet is ever sent in a circle.
THEOREM TreeLoopFree == Spec => []LoopFree
BY TreeInvariance, TreeInvLoopFree, PTL
===========================================================================

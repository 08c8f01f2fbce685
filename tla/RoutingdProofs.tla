--------------------------- MODULE RoutingdProofs ---------------------------
(***************************************************************************)
(* Invariants of the routing daemons for every network, every number of    *)
(* faults and every choice of the timers.                                  *)
(*                                                                         *)
(* None of the properties is inductive by itself.  IInv adds what each     *)
(* table looks like (TableOK), that a check-in stands for a direct route,  *)
(* and that every vector in flight is poisoned for its receiver.           *)
(***************************************************************************)
EXTENDS RoutingdPaced, RoutingTableProofs

TablesOK == \A n \in Addr : TableOK(table[n], n)

CheckinsDirect == \A n \in Addr : \A m \in checkins[n] : HasDirect(table[n], m)

ChannelsOK(channels) ==
    \A c \in Links : \A v \in ToSet(channels[c]) : VectorOK(v, c[2])

IInv == TypeOK /\ TablesOK /\ CheckinsDirect /\ ChannelsOK(updates)
---------------------------------------------------------------------------
LEMMA LinkEnds ==
    ASSUME NEW c \in Links
    PROVE  c[1] \in Addr /\ c[2] \in Addr /\ c = <<c[1], c[2]>> /\ c[1] # c[2]
BY LinksAssumption

\* Sending keeps the channels well formed, whatever is dropped on the way.
LEMMA WithUpdatesFacts ==
    ASSUME TypeOK, NEW n \in Addr, NEW t, TableOK(t, n),
           NEW channels \in [Links -> Seq(Vector)], ChannelsOK(channels)
    PROVE  /\ WithUpdates(n, t, channels) \in [Links -> Seq(Vector)]
           /\ ChannelsOK(WithUpdates(n, t, channels))
<1> DEFINE after == WithUpdates(n, t, channels)
           vector(m) == GetAllFastestRoutesForNeighbour(t, m)
<1>1. ASSUME NEW c \in Links
      PROVE  /\ after[c] \in Seq(Vector)
             /\ \A v \in ToSet(after[c]) : VectorOK(v, c[2])
  <2>1. CASE after[c] = channels[c]
    BY <2>1 DEF ChannelsOK
  <2>2. CASE after[c] = Append(channels[c], vector(c[2]))
             /\ c[2] \in GetAllNeighbours(t)
    <3>1. VectorOK(vector(c[2]), c[2])
      BY <2>2, VectorForNeighbour, LinkEnds
    <3>2. vector(c[2]) \in Vector
      BY <3>1 DEF VectorOK, Vector
    <3> HIDE DEF vector, after
    <3>3. channels[c] \in Seq(Vector) /\ after[c] \in Seq(Vector)
      BY <2>2, <3>2
    <3>4. \A i \in DOMAIN after[c] :
            after[c][i] = vector(c[2]) \/ after[c][i] \in ToSet(channels[c])
      BY <2>2, <3>2, <3>3 DEF ToSet
    <3>. QED
      BY <3>1, <3>3, <3>4 DEF ChannelsOK, ToSet
  <2>. QED
    BY <2>1, <2>2 DEF WithUpdates
<1>2. after = [c \in Links |-> after[c]]
  BY DEF WithUpdates
<1> HIDE DEF after
<1>. QED
  BY <1>1, <1>2 DEF ChannelsOK, after

\* Taking the first message off a channel.
LEMMA TailOfChannel ==
    ASSUME NEW c \in Links, updates \in [Links -> Seq(Vector)],
           ChannelsOK(updates), updates[c] # <<>>
    PROVE  /\ Head(updates[c]) \in Vector /\ VectorOK(Head(updates[c]), c[2])
           /\ [updates EXCEPT ![c] = Tail(@)] \in [Links -> Seq(Vector)]
           /\ ChannelsOK([updates EXCEPT ![c] = Tail(@)])
<1>1. updates[c] \in Seq(Vector) /\ updates[c] # <<>>
  OBVIOUS
<1>2. /\ Head(updates[c]) \in Vector /\ Head(updates[c]) \in ToSet(updates[c])
      /\ Tail(updates[c]) \in Seq(Vector)
      /\ ToSet(Tail(updates[c])) \subseteq ToSet(updates[c])
  BY <1>1 DEF ToSet
<1>. QED
  BY <1>2 DEF ChannelsOK

LEMMA InitIInv == Init => IInv
<1> SUFFICES ASSUME Init PROVE IInv
  OBVIOUS
<1>1. TypeOK
  BY DEF Init, TypeOK, EmptyTable
<1>2. TablesOK
  BY EmptyTableOK DEF Init, TablesOK
<1>3. CheckinsDirect /\ ChannelsOK(updates)
  BY DEF Init, CheckinsDirect, ChannelsOK, ToSet
<1>. QED
  BY <1>1, <1>2, <1>3 DEF IInv

LEMMA StepIInv == IInv /\ [Next]_vars => IInv'
<1> SUFFICES ASSUME IInv, [Next]_vars PROVE IInv'
  OBVIOUS
<1>0. /\ TypeOK /\ TablesOK /\ CheckinsDirect /\ ChannelsOK(updates)
      /\ updates \in [Links -> Seq(Vector)]
  BY DEF IInv, TypeOK
<1>1. ASSUME NEW n \in Addr, Start(n)
      PROVE  IInv'
  <2>1. TypeOK'
    BY <1>0, <1>1 DEF Start, TypeOK, EmptyTable, HellosFrom, counts
  <2>2. TablesOK'
    BY <1>0, <1>1, EmptyTableOK DEF Start, TablesOK, TypeOK
  <2>3. CheckinsDirect'
    BY <1>0, <1>1 DEF Start, CheckinsDirect, TypeOK
  <2>4. ChannelsOK(updates)'
    BY <1>0, <1>1 DEF Start, ChannelsOK
  <2>. QED
    BY <2>1, <2>2, <2>3, <2>4 DEF IInv
<1>2. ASSUME NEW n \in Addr, SendHello(n)
      PROVE  IInv'
  <2>1. TypeOK'
    BY <1>0, <1>2 DEF SendHello, TypeOK, HellosFrom, counts
  <2>. QED
    BY <2>1, <1>0, <1>2 DEF SendHello, IInv, TablesOK, CheckinsDirect, ChannelsOK
<1>3. ASSUME NEW n \in Addr, CheckTimeouts(n)
      PROVE  IInv'
  <2> DEFINE after == SetHopsUnreachable(table[n], TimedOut(n))
  <2>1. TableOK(table[n], n) /\ TimedOut(n) \in SUBSET Addr
    BY <1>0 DEF TablesOK, TimedOut, GetAllNeighbours
  <2>2. /\ TableOK(after, n)
        /\ \A m \in Addr \ TimedOut(n) : HasDirect(table[n], m) => HasDirect(after, m)
    BY <2>1, SetHopsUnreachableFacts
  <2>3. table' = [table EXCEPT ![n] = after]
    BY <1>3 DEF CheckTimeouts
  <2>4. table'[n] = after /\ \A m \in Addr : m # n => table'[m] = table[m]
    BY <2>3, <1>0 DEF TypeOK
  <2>5. updates' \in [Links -> Seq(Vector)] /\ ChannelsOK(updates')
    BY <2>2, <2>4, <1>0, <1>3, WithUpdatesFacts DEF CheckTimeouts
  <2> HIDE DEF after
  <2>6. TablesOK'
    BY <2>2, <2>4, <1>0 DEF TablesOK
  <2>7. checkins' = [checkins EXCEPT ![n] = checkins[n] \ GetAllNeighbours(table[n])]
    BY <1>3 DEF CheckTimeouts
  <2>8. CheckinsDirect'
    <3> SUFFICES ASSUME NEW p \in Addr, NEW m \in checkins'[p]
                 PROVE  HasDirect(table'[p], m)
      BY DEF CheckinsDirect
    <3>1. m \in checkins[p] /\ m \in Addr
      BY <2>7, <1>0 DEF TypeOK
    <3>2. HasDirect(table[p], m)
      BY <3>1, <1>0 DEF CheckinsDirect
    <3>3. CASE p = n
      <4>1. m \in GetAllNeighbours(table[n])
        BY <3>1, <3>2, <3>3, <2>1, NeighboursAreDirect
      <4>2. m \notin checkins'[n]
        BY <4>1, <2>7, <1>0 DEF TypeOK
      <4>. QED
        BY <4>2, <3>3
    <3>4. CASE p # n
      BY <3>2, <3>4, <2>4
    <3>. QED
      BY <3>3, <3>4
  <2>9. TypeOK'
    <3>1. after \in [Addr -> Seq(Route)]
      BY <2>2 DEF TableOK
    <3>. QED
      BY <3>1, <2>3, <2>5, <2>7, <1>0, <1>3 DEF CheckTimeouts, TypeOK, counts
  <2>. QED
    BY <2>5, <2>6, <2>8, <2>9 DEF IInv
<1>4. ASSUME NEW n \in Addr, Crash(n)
      PROVE  IInv'
  <2>1. TypeOK'
    BY <1>0, <1>4 DEF Crash, TypeOK, EmptyTable
  <2>2. TablesOK'
    BY <1>0, <1>4, EmptyTableOK DEF Crash, TablesOK, TypeOK
  <2>3. CheckinsDirect'
    BY <1>0, <1>4 DEF Crash, CheckinsDirect, TypeOK
  <2>4. ChannelsOK(updates)'
    BY <1>0, <1>4 DEF Crash, ChannelsOK
  <2>. QED
    BY <2>1, <2>2, <2>3, <2>4 DEF IInv
<1>5. ASSUME NEW n \in Addr, NEW s \in Addr, HandleHello(n, s)
      PROVE  IInv'
  <2> DEFINE after == LearnNeighbour(table[n], s)
  <2>1. s # n
    BY <1>5, <1>0, LinksAssumption DEF HandleHello, TypeOK
  <2>2. TableOK(table[n], n)
    BY <1>0 DEF TablesOK
  <2>3. /\ TableOK(after, n) /\ HasDirect(after, s)
        /\ \A m \in Addr : HasDirect(table[n], m) => HasDirect(after, m)
    BY <2>1, <2>2, LearnNeighbourFacts
  <2>4. table' = [table EXCEPT ![n] = after]
    BY <1>5 DEF HandleHello
  <2>5. table'[n] = after /\ \A m \in Addr : m # n => table'[m] = table[m]
    BY <2>4, <1>0 DEF TypeOK
  <2>6. updates' \in [Links -> Seq(Vector)] /\ ChannelsOK(updates')
    BY <2>3, <2>5, <1>0, <1>5, WithUpdatesFacts DEF HandleHello
  <2> HIDE DEF after
  <2>7. TablesOK'
    BY <2>3, <2>5, <1>0 DEF TablesOK
  <2>8. checkins' = [checkins EXCEPT ![n] = checkins[n] \union {s}]
    BY <1>5 DEF HandleHello
  <2>9. CheckinsDirect'
    BY <2>3, <2>5, <2>8, <1>0 DEF CheckinsDirect, TypeOK
  <2>10. TypeOK'
    <3>1. after \in [Addr -> Seq(Route)]
      BY <2>3 DEF TableOK
    <3>. QED
      BY <3>1, <2>4, <2>6, <2>8, <1>0, <1>5 DEF HandleHello, TypeOK, counts
  <2>. QED
    BY <2>6, <2>7, <2>9, <2>10 DEF IInv
<1>6. ASSUME NEW n \in Addr, NEW s \in Addr, HandleUpdate(n, s)
      PROVE  IInv'
  <2> DEFINE received == Head(updates[<<s, n>>])
             rest == [updates EXCEPT ![<<s, n>>] = Tail(@)]
             after == ApplyVector(table[n], s, received)
  <2>1. <<s, n>> \in Links /\ updates[<<s, n>>] # <<>> /\ s # n
    BY <1>6, LinksAssumption DEF HandleUpdate, Pending
  <2>2. /\ VectorOK(received, n) /\ rest \in [Links -> Seq(Vector)]
        /\ ChannelsOK(rest)
    BY <2>1, <1>0, TailOfChannel
  <2>3. TableOK(table[n], n)
    BY <1>0 DEF TablesOK
  <2> HIDE DEF received, rest
  <2>4. /\ TableOK(after, n)
        /\ \A m \in Addr : HasDirect(table[n], m) => HasDirect(after, m)
    BY <2>1, <2>2, <2>3, ApplyVectorFacts
  <2>5. /\ table' = [table EXCEPT ![n] = after]
        /\ updates' = rest \/ updates' = WithUpdates(n, table'[n], rest)
        /\ UNCHANGED <<running, checkins, hellos, links, counts>>
    BY <1>6 DEF HandleUpdate, received, rest
  <2> HIDE DEF after
  <2>6. table'[n] = after /\ \A m \in Addr : m # n => table'[m] = table[m]
    BY <2>5, <1>0 DEF TypeOK
  <2>7. updates' \in [Links -> Seq(Vector)] /\ ChannelsOK(updates')
    BY <2>2, <2>4, <2>5, <2>6, <1>0, WithUpdatesFacts
  <2>8. TablesOK'
    BY <2>4, <2>6, <1>0 DEF TablesOK
  <2>9. CheckinsDirect'
    BY <2>4, <2>5, <2>6, <1>0 DEF CheckinsDirect, TypeOK
  <2>10. TypeOK'
    <3>1. after \in [Addr -> Seq(Route)]
      BY <2>4 DEF TableOK
    <3>. QED
      BY <3>1, <2>5, <2>7, <1>0 DEF TypeOK, counts
  <2>. QED
    BY <2>7, <2>8, <2>9, <2>10 DEF IInv
<1>7. ASSUME NEW n \in Addr, NEW s \in Addr, Environment(n, s)
      PROVE  IInv'
  <2>1. /\ UNCHANGED <<table, checkins>>
        /\ running' = running
    BY <1>7 DEF Environment, Discard, Unroutable, LoseHello, LoseUpdate,
                Overtake, LinkDown, LinkUp
  <2>2. /\ hellos' \in SUBSET Links /\ links' \in SUBSET Links
        /\ faults' \in Nat /\ overtakes' \in Nat
    <3>1. /\ hellos \in SUBSET Links /\ links \in SUBSET Links
          /\ faults \in Nat /\ overtakes \in Nat
      BY <1>0 DEF TypeOK
    <3>2. CASE LinkUp(n, s)
      BY <3>1, <3>2, LinksAssumption DEF LinkUp, counts
    <3>3. CASE ~LinkUp(n, s)
      BY <3>1, <3>3, <1>7
         DEF Environment, Discard, Unroutable, LoseHello, LoseUpdate,
             Overtake, LinkDown, counts
    <3>. QED
      BY <3>2, <3>3
  <2>3. \/ updates' = updates
        \/ Pending(s, n) /\ updates' = [updates EXCEPT ![<<s, n>>] = Tail(@)]
        \/ /\ Pending(s, n)
           /\ updates' = [updates EXCEPT ![<<s, n>>] = Append(Tail(@), Head(@))]
    BY <1>7 DEF Environment, Discard, Unroutable, LoseHello, LoseUpdate,
                Overtake, LinkDown, LinkUp
  <2>4. updates' \in [Links -> Seq(Vector)] /\ ChannelsOK(updates')
    <3>1. CASE updates' = updates
      BY <3>1, <1>0
    <3>2. CASE Pending(s, n) /\ updates' = [updates EXCEPT ![<<s, n>>] = Tail(@)]
      BY <3>2, <1>0, TailOfChannel DEF Pending
    <3>3. CASE /\ Pending(s, n)
               /\ updates' = [updates EXCEPT ![<<s, n>>] = Append(Tail(@), Head(@))]
      <4> DEFINE c == <<s, n>>
                 moved == Append(Tail(updates[c]), Head(updates[c]))
      <4>1. c \in Links /\ updates[c] \in Seq(Vector) /\ updates[c] # <<>>
        BY <3>3, <1>0 DEF Pending
      <4> HIDE DEF c
      <4>2. moved \in Seq(Vector) /\ ToSet(moved) \subseteq ToSet(updates[c])
        BY <4>1 DEF ToSet
      <4>3. updates' = [updates EXCEPT ![c] = moved]
        BY <3>3 DEF c
      <4> HIDE DEF moved
      <4>. QED
        BY <4>1, <4>2, <4>3, <1>0 DEF ChannelsOK
    <3>. QED
      BY <2>3, <3>1, <3>2, <3>3
  <2>5. TypeOK'
    BY <2>1, <2>2, <2>4, <1>0 DEF TypeOK
  <2>6. TablesOK' /\ CheckinsDirect'
    BY <2>1, <1>0 DEF TablesOK, CheckinsDirect
  <2>. QED
    BY <2>4, <2>5, <2>6 DEF IInv
<1>8. CASE UNCHANGED vars
  BY <1>8, <1>0 DEF vars, IInv, TypeOK, TablesOK, CheckinsDirect, ChannelsOK
<1>. QED
  BY <1>1, <1>2, <1>3, <1>4, <1>5, <1>6, <1>7, <1>8 DEF Next, Receive

LEMMA IInvImplies ==
    IInv => /\ TypeOK /\ NoRouteToSelf /\ UsableHopIsNeighbour
            /\ NeighbourIsDirect /\ CheckedInIsNeighbour
<1> SUFFICES ASSUME IInv
             PROVE  /\ TypeOK /\ NoRouteToSelf /\ UsableHopIsNeighbour
                    /\ NeighbourIsDirect /\ CheckedInIsNeighbour
  OBVIOUS
<1>1. TypeOK /\ TablesOK /\ CheckinsDirect
  BY DEF IInv
<1>2. NoRouteToSelf
  BY <1>1 DEF TablesOK, TableOK, NoRouteToSelf
<1>3. UsableHopIsNeighbour
  <2> SUFFICES ASSUME NEW n \in Addr, NEW d \in Addr, NEW i \in DOMAIN table[n][d],
                      table[n][d][i].cost < MaxCost
               PROVE  table[n][d][i].next_hop \in GetAllNeighbours(table[n])
    BY DEF UsableHopIsNeighbour
  <2>1. table[n][d] \in Seq(Route) /\ TableOK(table[n], n)
    BY <1>1 DEF TypeOK, TablesOK
  <2>2. table[n][d][i] \in ToSet(table[n][d]) /\ table[n][d][i].next_hop \in Addr
    BY <2>1, RoutesAreRoutes DEF ToSet
  <2>3. HasDirect(table[n], table[n][d][i].next_hop)
    BY <2>1, <2>2 DEF TableOK
  <2>. QED
    BY <2>1, <2>2, <2>3, NeighboursAreDirect
<1>4. NeighbourIsDirect
  <2> SUFFICES ASSUME NEW n \in Addr, NEW d \in Addr,
                      d \in GetAllNeighbours(table[n])
               PROVE  FindFastestRoute(table[n][d]).next_hop = d
    BY DEF NeighbourIsDirect
  <2>1. FindFastestRoute(table[n][d]) = DirectRoute(d)
    BY <1>1, NeighboursAreDirect DEF TablesOK
  <2>. QED
    BY <2>1 DEF DirectRoute
<1>5. CheckedInIsNeighbour
  BY <1>1, NeighboursAreDirect DEF CheckinsDirect, CheckedInIsNeighbour, TablesOK, TypeOK
<1>. QED
  BY <1>1, <1>2, <1>3, <1>4, <1>5

\* A usable route leads through a neighbour, and one is found if there is one.
LEMMA IInvAnswer == ASSUME NoHop \notin Addr PROVE IInv => AnswerIsUsable
<1> SUFFICES ASSUME IInv, NEW n \in Addr, NEW d \in Addr
             PROVE  LET answer == AnswerRequest(table[n], d)
                    IN  \/ /\ answer = Unreachable
                           /\ \A i \in DOMAIN table[n][d] : table[n][d][i].cost = MaxCost
                        \/ /\ answer # Unreachable
                           /\ answer \in GetAllNeighbours(table[n])
  BY DEF AnswerIsUsable
<1> DEFINE fastest == FindFastestRoute(table[n][d])
<1>1. TypeOK /\ TableOK(table[n], n) /\ table[n][d] \in Seq(Route)
  BY DEF IInv, TypeOK, TablesOK
<1>2. CASE \E k \in DOMAIN table[n][d] : table[n][d][k].cost < MaxCost
  <2>1. fastest \in ToSet(table[n][d]) /\ fastest.cost < MaxCost
    BY <1>1, <1>2, FastestExists
  <2>2. fastest.next_hop \in Addr
    BY <1>1, <2>1, RoutesAreRoutes
  <2>3. fastest.next_hop \in GetAllNeighbours(table[n])
    BY <1>1, <2>1, <2>2, NeighboursAreDirect DEF TableOK
  <2>. QED
    BY <2>2, <2>3, AddrAssumption DEF AnswerRequest
<1>3. CASE \A k \in DOMAIN table[n][d] : ~(table[n][d][k].cost < MaxCost)
  <2>1. \A k \in DOMAIN table[n][d] : table[n][d][k].cost = MaxCost
    <3> TAKE k \in DOMAIN table[n][d]
    <3>1. table[n][d][k].cost \in 0..MaxCost
      BY <1>1, RoutesAreRoutes DEF ToSet
    <3>. QED
      BY <1>3, <3>1, MaxCostAssumption
  <2>2. fastest = NoRoute
    BY <1>3 DEF FindFastestRoute, IsFastest
  <2>. QED
    BY <2>1, <2>2 DEF AnswerRequest, NoRoute
<1>. QED
  BY <1>2, <1>3

LEMMA Invariance == Spec => []IInv
BY InitIInv, StepIInv, PTL DEF Spec
---------------------------------------------------------------------------
(* No cost is understated.                                                 *)

AboveBound(t, n, bound, d) == \A r \in ToSet(t[d]) : r.cost >= bound[n]

\* A vector is never cheaper than its sender could be.
ChannelsAbove(channels, bound, d) ==
    \A c \in Links : \A v \in ToSet(channels[c]) : v[d] >= bound[c[1]]

ShortInv ==
    \A bound \in LowerBounds : \A d \in Addr : bound[d] = 0 =>
        /\ \A n \in Addr : AboveBound(table[n], n, bound, d)
        /\ ChannelsAbove(updates, bound, d)

LEMMA OneCable ==
    ASSUME NEW bound \in LowerBounds, NEW n \in Addr, NEW s \in Addr,
           <<s, n>> \in Links
    PROVE  /\ bound[n] \in 0..MaxCost /\ bound[s] \in 0..MaxCost
           /\ bound[n] <= bound[s] + 1
<1>1. <<n, s>> \in Links /\ <<n, s>>[1] = n /\ <<n, s>>[2] = s
  BY LinksAssumption
<1>. QED
  BY <1>1 DEF LowerBounds, Cost

LEMMA VectorAbove ==
    ASSUME NEW n \in Addr, NEW t, TableOK(t, n), NEW bound \in LowerBounds,
           NEW d \in Addr, AboveBound(t, n, bound, d), NEW m
    PROVE  GetAllFastestRoutesForNeighbour(t, m)[d] >= bound[n]
<1> DEFINE r == FindFastestRoute(t[d])
<1>1. bound[n] \in 0..MaxCost
  BY DEF LowerBounds, Cost
<1>2. r.cost >= bound[n]
  <2>1. CASE r = NoRoute
    BY <2>1, <1>1, MaxCostAssumption DEF NoRoute
  <2>2. CASE r \in ToSet(t[d])
    BY <2>2 DEF AboveBound
  <2>. QED
    BY <2>1, <2>2, FindFastestFacts DEF TableOK
<1>. QED
  BY <1>1, <1>2, MaxCostAssumption DEF GetAllFastestRoutesForNeighbour

LEMMA WithUpdatesAbove ==
    ASSUME TypeOK, NEW n \in Addr, NEW t, TableOK(t, n),
           NEW bound \in LowerBounds, NEW d \in Addr, AboveBound(t, n, bound, d),
           NEW channels \in [Links -> Seq(Vector)],
           ChannelsAbove(channels, bound, d)
    PROVE  ChannelsAbove(WithUpdates(n, t, channels), bound, d)
<1> DEFINE after == WithUpdates(n, t, channels)
           vector(m) == GetAllFastestRoutesForNeighbour(t, m)
<1> SUFFICES ASSUME NEW c \in Links
             PROVE  \A v \in ToSet(after[c]) : v[d] >= bound[c[1]]
  BY DEF ChannelsAbove
<1>1. CASE after[c] = channels[c]
  BY <1>1 DEF ChannelsAbove
<1>2. CASE /\ after[c] = Append(channels[c], vector(c[2]))
           /\ c[2] \in GetAllNeighbours(t) /\ c[1] = n
  <2>1. vector(c[2])[d] >= bound[c[1]]
    BY <1>2, VectorAbove
  <2>2. vector(c[2]) \in Vector
    BY <1>2, VectorForNeighbour, LinkEnds DEF VectorOK, Vector
  <2> HIDE DEF vector, after
  <2>3. ToSet(after[c]) \subseteq ToSet(channels[c]) \union {vector(c[2])}
    BY <1>2, <2>2 DEF ToSet
  <2>. QED
    BY <2>1, <2>3 DEF ChannelsAbove
<1>. QED
  BY <1>1, <1>2 DEF WithUpdates

\* What a channel loses, or has in another order, adds no vector to it.
LEMMA ChannelsShrink ==
    ASSUME NEW c \in Links, NEW channels \in [Links -> Seq(Vector)],
           channels[c] # <<>>
    PROVE  /\ Head(channels[c]) \in ToSet(channels[c])
           /\ \A e \in Links :
                /\ ToSet([channels EXCEPT ![c] = Tail(@)][e])
                        \subseteq ToSet(channels[e])
                /\ ToSet([channels EXCEPT ![c] = Append(Tail(@), Head(@))][e])
                        \subseteq ToSet(channels[e])
<1>1. channels[c] \in Seq(Vector) /\ channels[c] # <<>>
  OBVIOUS
<1>2. /\ Head(channels[c]) \in ToSet(channels[c])
      /\ ToSet(Tail(channels[c])) \subseteq ToSet(channels[c])
      /\ ToSet(Append(Tail(channels[c]), Head(channels[c]))) \subseteq ToSet(channels[c])
  BY <1>1 DEF ToSet
<1>. QED
  BY <1>2

\* What the handlers of HELLO and UPDATE may put into a table.
LEMMA LearntRoutes ==
    ASSUME NEW n \in Addr, NEW t, TableOK(t, n), NEW s \in Addr
    PROVE  \A d \in Addr :
              ToSet(LearnNeighbour(t, s)[d])
                 \subseteq ToSet(t[d]) \union (IF d = s THEN {DirectRoute(s)} ELSE {})
<1>1. ToSet(LearnNeighbour(t, s)[s]) \subseteq ToSet(t[s]) \union {DirectRoute(s)}
  BY LearnDirectFacts DEF LearnNeighbour, TableOK
<1>2. \A d \in Addr : d # s => LearnNeighbour(t, s)[d] = t[d]
  BY DEF LearnNeighbour, TableOK
<1>. QED
  BY <1>1, <1>2

LEMMA AppliedRoutes ==
    ASSUME NEW n \in Addr, NEW t, TableOK(t, n), NEW s \in Addr,
           NEW v, VectorOK(v, n), NEW d \in Addr
    PROVE  ToSet(ApplyVector(t, s, v)[d])
              \subseteq ToSet(t[d])
                \union IF d = s THEN {DirectRoute(s)}
                       ELSE IF v[d] = MaxCost THEN {}
                       ELSE {[next_hop |-> s, cost |-> v[d] + 1]}
<1>1. CASE d = s
  BY <1>1, LearnDirectFacts DEF ApplyVector, TableOK
<1>2. CASE d # s
  BY <1>2, ApplyVectorEntry
<1>. QED
  BY <1>1, <1>2

LEMMA AppliedRoute ==
    ASSUME NEW n \in Addr, NEW t, TableOK(t, n), NEW s \in Addr,
           NEW v, VectorOK(v, n), NEW d \in Addr,
           NEW r \in ToSet(ApplyVector(t, s, v)[d])
    PROVE  r \in ToSet(t[d]) \/ d = s \/ r.next_hop = s
<1>1. CASE r = [next_hop |-> s, cost |-> v[d] + 1]
  BY <1>1
<1>. QED
  BY <1>1, AppliedRoutes

LEMMA InitShort == Init => ShortInv
BY DEF Init, EmptyTable, ShortInv, AboveBound, ChannelsAbove, ToSet

LEMMA StepShort == IInv /\ ShortInv /\ [Next]_vars => ShortInv'
<1> SUFFICES ASSUME IInv, ShortInv, [Next]_vars, NEW bound \in LowerBounds,
                    NEW d \in Addr, bound[d] = 0
             PROVE  /\ \A m \in Addr : AboveBound(table'[m], m, bound, d)
                    /\ ChannelsAbove(updates', bound, d)
  BY DEF ShortInv, LowerBounds
<1>0. /\ TypeOK /\ updates \in [Links -> Seq(Vector)]
      /\ \A m \in Addr : /\ TableOK(table[m], m) /\ TableOK(table'[m], m)
                         /\ AboveBound(table[m], m, bound, d)
      /\ ChannelsAbove(updates, bound, d)
      /\ \A m \in Addr : bound[m] \in 0..MaxCost
      /\ MaxCost \in Nat
  BY StepIInv, MaxCostAssumption DEF IInv, TypeOK, TablesOK, ShortInv, LowerBounds, Cost
<1> DEFINE Goal == /\ \A m \in Addr : AboveBound(table'[m], m, bound, d)
                   /\ ChannelsAbove(updates', bound, d)
<1>1. ASSUME NEW n \in Addr, Start(n) \/ SendHello(n) \/ Crash(n)
      PROVE  Goal
  <2>1. \A m \in Addr : table'[m] = table[m] \/ table'[m] = EmptyTable
    BY <1>1, <1>0 DEF Start, SendHello, Crash, TypeOK
  <2>2. updates' = updates
    BY <1>1 DEF Start, SendHello, Crash
  <2>. QED
    BY <2>1, <2>2, <1>0 DEF EmptyTable, AboveBound, ToSet
<1>2. ASSUME NEW n \in Addr, CheckTimeouts(n)
      PROVE  Goal
  <2>1. /\ table'[n] = SetHopsUnreachable(table[n], TimedOut(n))
        /\ \A m \in Addr : m # n => table'[m] = table[m]
        /\ updates' = updates \/ updates' = WithUpdates(n, table'[n], updates)
        /\ TimedOut(n) \in SUBSET Addr
    BY <1>2, <1>0 DEF CheckTimeouts, TypeOK, TimedOut, GetAllNeighbours
  <2>2. ASSUME NEW r \in ToSet(table'[n][d])
        PROVE  r.cost >= bound[n]
    <3>1. PICK q \in ToSet(table[n][d]) : /\ q.next_hop = r.next_hop
                                          /\ r.cost < MaxCost => r = q
      BY <2>1, <1>0, SetHopsUnreachableFacts
    <3>2. r.cost \in 0..MaxCost
      BY <1>0, RoutesAreRoutes DEF TableOK
    <3>3. CASE r.cost < MaxCost
      BY <3>1, <3>3, <1>0 DEF AboveBound
    <3>4. CASE r.cost = MaxCost
      BY <3>4, <1>0
    <3>. QED
      BY <3>2, <3>3, <3>4, <1>0
  <2>3. \A m \in Addr : AboveBound(table'[m], m, bound, d)
    BY <2>1, <2>2, <1>0 DEF AboveBound
  <2>. QED
    BY <2>1, <2>3, <1>0, WithUpdatesAbove
<1>3. ASSUME NEW n \in Addr, NEW s \in Addr, HandleHello(n, s)
      PROVE  Goal
  <2>1. /\ table'[n] = LearnNeighbour(table[n], s)
        /\ \A m \in Addr : m # n => table'[m] = table[m]
        /\ <<s, n>> \in Links
        /\ updates' = WithUpdates(n, table'[n], updates)
    BY <1>3, <1>0 DEF HandleHello, TypeOK
  <2>2. ASSUME NEW r \in ToSet(table'[n][d])
        PROVE  r.cost >= bound[n]
    <3>1. r \in ToSet(table[n][d]) \/ (d = s /\ r = DirectRoute(s))
      BY <2>1, <1>0, LearntRoutes
    <3>2. CASE d = s /\ r = DirectRoute(s)
      BY <3>2, <2>1, OneCable DEF DirectRoute
    <3>. QED
      BY <3>1, <3>2, <1>0 DEF AboveBound
  <2>3. \A m \in Addr : AboveBound(table'[m], m, bound, d)
    BY <2>1, <2>2, <1>0 DEF AboveBound
  <2>. QED
    BY <2>1, <2>3, <1>0, WithUpdatesAbove
<1>4. ASSUME NEW n \in Addr, NEW s \in Addr, HandleUpdate(n, s)
      PROVE  Goal
  <2> DEFINE received == Head(updates[<<s, n>>])
             rest == [updates EXCEPT ![<<s, n>>] = Tail(@)]
  <2>1. <<s, n>> \in Links /\ updates[<<s, n>>] # <<>>
    BY <1>4 DEF HandleUpdate, Pending
  <2>2. /\ VectorOK(received, n) /\ rest \in [Links -> Seq(Vector)]
        /\ received \in ToSet(updates[<<s, n>>])
        /\ \A e \in Links : ToSet(rest[e]) \subseteq ToSet(updates[e])
    BY <2>1, <1>0, TailOfChannel, ChannelsShrink DEF IInv
  <2>3. received[d] >= bound[s] /\ received[d] \in 0..MaxCost
    <3>1. received[d] >= bound[<<s, n>>[1]]
      BY <2>1, <2>2, <1>0 DEF ChannelsAbove
    <3>. QED
      BY <3>1, <2>2 DEF VectorOK, Cost
  <2>4. /\ table'[n] = ApplyVector(table[n], s, received)
        /\ \A m \in Addr : m # n => table'[m] = table[m]
        /\ updates' = rest \/ updates' = WithUpdates(n, table'[n], rest)
    BY <1>4, <1>0 DEF HandleUpdate, TypeOK
  <2>5. ChannelsAbove(rest, bound, d)
    BY <2>2, <1>0 DEF ChannelsAbove
  <2> HIDE DEF received, rest
  <2>6. ASSUME NEW r \in ToSet(table'[n][d])
        PROVE  r.cost >= bound[n]
    <3>1. \/ r \in ToSet(table[n][d])
          \/ d = s /\ r = DirectRoute(s)
          \/ r = [next_hop |-> s, cost |-> received[d] + 1]
      BY <2>2, <2>4, <1>0, AppliedRoutes
    <3>2. bound[n] <= bound[s] + 1
      BY <2>1, OneCable
    <3>3. CASE d = s /\ r = DirectRoute(s)
      BY <3>2, <3>3, <1>0 DEF DirectRoute
    <3>4. CASE r = [next_hop |-> s, cost |-> received[d] + 1]
      BY <3>2, <3>4, <2>3, <1>0
    <3>. QED
      BY <3>1, <3>3, <3>4, <1>0 DEF AboveBound
  <2>7. \A m \in Addr : AboveBound(table'[m], m, bound, d)
    BY <2>4, <2>6, <1>0 DEF AboveBound
  <2>. QED
    BY <2>2, <2>4, <2>5, <2>7, <1>0, WithUpdatesAbove
<1>5. ASSUME NEW n \in Addr, NEW s \in Addr, Environment(n, s)
      PROVE  Goal
  <2>1. table' = table
    BY <1>5 DEF Environment, Discard, Unroutable, LoseHello, LoseUpdate,
                Overtake, LinkDown, LinkUp
  <2>2. \/ updates' = updates
        \/ Pending(s, n) /\ updates' = [updates EXCEPT ![<<s, n>>] = Tail(@)]
        \/ /\ Pending(s, n)
           /\ updates' = [updates EXCEPT ![<<s, n>>] = Append(Tail(@), Head(@))]
    BY <1>5 DEF Environment, Discard, Unroutable, LoseHello, LoseUpdate,
                Overtake, LinkDown, LinkUp
  <2>3. \A e \in Links : ToSet(updates'[e]) \subseteq ToSet(updates[e])
    BY <2>2, <1>0, ChannelsShrink DEF Pending
  <2>. QED
    BY <2>1, <2>3, <1>0 DEF ChannelsAbove
<1>6. ASSUME UNCHANGED vars
      PROVE  Goal
  BY <1>6, <1>0 DEF vars
<1> HIDE DEF Goal
<1>7. Goal
  BY <1>1, <1>2, <1>3, <1>4, <1>5, <1>6 DEF Next, Receive
<1>. QED
  BY <1>7 DEF Goal

LEMMA ShortInvImplies == ShortInv => NoShortcut
<1> SUFFICES ASSUME ShortInv, NEW bound \in LowerBounds, NEW n \in Addr,
                    NEW d \in Addr, bound[d] = 0, NEW i \in DOMAIN table[n][d]
             PROVE  table[n][d][i].cost >= bound[n]
  BY DEF NoShortcut
<1>1. table[n][d][i] \in ToSet(table[n][d])
  BY DEF ToSet
<1>. QED
  BY <1>1 DEF ShortInv, AboveBound
---------------------------------------------------------------------------
(* While all is orderly.  Tables and channels are parameters of what       *)
(* follows, as a handler changes the table before it sends.                *)

CostIn(T, n, d) == IF n = d THEN 0 ELSE FindFastestRoute(T[n][d]).cost

\* The next hop of a route takes its way for cheaper.
Descending(T) ==
    \A n, d \in Addr : \A r \in ToSet(T[n][d]) : CostIn(T, r.next_hop, d) < r.cost

\* What a vector leaves its receiver with: the offer, or what it has without.
Offer(T, c, v, d) == IF v[d] < MaxCost THEN v[d] ELSE CostIn(T, c[2], d)

\* The sender does what it offers, and a vector makes nothing dearer, neither
\* than the vectors before it nor than what the table has through the sender.
InOrder(T, channels, c) ==
    \A d \in Addr \ {c[1]} : \A i \in DOMAIN channels[c] :
        LET offer == Offer(T, c, channels[c][i], d)
        IN  /\ channels[c][i][d] < MaxCost => CostIn(T, c[1], d) <= channels[c][i][d]
            /\ \A j \in DOMAIN channels[c] : j < i => offer <= channels[c][j][d]
            /\ \A r \in ToSet(T[c[2]][d]) : r.next_hop = c[1] => offer < r.cost

Sound(T) == /\ T \in [Addr -> [Addr -> Seq(Route)]]
            /\ \A n \in Addr : TableOK(T[n], n)

Calm(T, channels) ==
    Descending(T) /\ \A c \in Links : InOrder(T, channels, c)

\* Who sends is up, and who is reached directly is up and connected.
CalmInv ==
    Orderly =>
        /\ links = Links
        /\ \A n \in Addr : ~running[n] => table[n] = EmptyTable
        /\ \A c \in Links : c \in hellos \/ updates[c] # <<>> => running[c[1]]
        /\ \A n, m \in Addr :
                HasDirect(table[n], m) => <<n, m>> \in Links /\ running[m]
        /\ Calm(table, updates)

LEMMA FastestIsCheapest ==
    ASSUME NEW routes \in Seq(Route), NEW r \in ToSet(routes)
    PROVE  FindFastestRoute(routes).cost <= r.cost
<1>1. PICK k \in DOMAIN routes : routes[k] = r
  BY DEF ToSet
<1>2. \A i \in DOMAIN routes : routes[i].cost \in 0..MaxCost
  BY RoutesAreRoutes DEF ToSet
<1>3. CASE \E i \in DOMAIN routes : IsFastest(routes, i)
  <2> DEFINE f == CHOOSE i \in DOMAIN routes : IsFastest(routes, i)
  <2>1. f \in DOMAIN routes /\ IsFastest(routes, f)
    BY <1>3, Zenon
  <2>2. FindFastestRoute(routes) = routes[f]
    BY <1>3 DEF FindFastestRoute
  <2>. QED
    BY <1>1, <2>1, <2>2 DEF IsFastest
<1>4. CASE ~\E i \in DOMAIN routes : IsFastest(routes, i)
  <2>1. FindFastestRoute(routes) = NoRoute
    BY <1>4 DEF FindFastestRoute
  <2>2. ~(r.cost < MaxCost)
    <3> SUFFICES ASSUME r.cost < MaxCost PROVE FALSE
      OBVIOUS
    <3>1. FindFastestRoute(routes).cost < MaxCost
      BY <1>1, FastestExists
    <3>. QED
      BY <3>1, <2>1, MaxCostAssumption DEF NoRoute
  <2>. QED
    BY <1>1, <1>2, <2>1, <2>2, MaxCostAssumption DEF NoRoute
<1>. QED
  BY <1>3, <1>4

LEMMA CostFacts ==
    ASSUME NEW T, Sound(T), NEW n \in Addr, NEW d \in Addr
    PROVE  /\ CostIn(T, n, d) \in 0..MaxCost
           /\ n # d => CostIn(T, n, d) \in 1..MaxCost
           /\ \A r \in ToSet(T[n][d]) :
                /\ r \in Route /\ r.next_hop \in Addr /\ r.cost \in 0..MaxCost
                /\ n # d /\ CostIn(T, n, d) <= r.cost
<1>1. TableOK(T[n], n) /\ T[n][d] \in Seq(Route) /\ RoutesOK(T[n][d], d)
  BY DEF Sound, TableOK
<1>2. n = d => ToSet(T[n][d]) = {}
  BY <1>1 DEF TableOK, ToSet
<1> DEFINE f == FindFastestRoute(T[n][d])
<1>3. f.cost \in 1..MaxCost
  <2>1. CASE f = NoRoute
    BY <2>1, MaxCostAssumption DEF NoRoute
  <2>2. CASE f \in ToSet(T[n][d])
    <3>1. f.cost \in 0..MaxCost
      BY <1>1, <2>2, RoutesAreRoutes
    <3>2. f.cost >= 1
      BY <1>1, <2>2, <3>1, MaxCostAssumption DEF RoutesOK
    <3>. QED
      BY <3>1, <3>2
  <2>. QED
    BY <1>1, <2>1, <2>2, FindFastestFacts
<1>4. \A r \in ToSet(T[n][d]) : /\ r \in Route /\ r.next_hop \in Addr
                                /\ r.cost \in 0..MaxCost /\ f.cost <= r.cost
  BY <1>1, FastestIsCheapest, RoutesAreRoutes
<1> HIDE DEF f
<1>5. CostIn(T, n, d) = IF n = d THEN 0 ELSE f.cost
  BY DEF CostIn, f
<1>. QED
  BY <1>2, <1>3, <1>4, <1>5, MaxCostAssumption

\* The fastest route, where it is one.
LEMMA FastestOf ==
    ASSUME NEW T, Sound(T), NEW n \in Addr, NEW d \in Addr, n # d
    PROVE  LET f == FindFastestRoute(T[n][d])
           IN  /\ CostIn(T, n, d) = f.cost
               /\ \/ f = NoRoute /\ CostIn(T, n, d) = MaxCost
                  \/ f \in ToSet(T[n][d]) /\ f.cost < MaxCost
<1>1. T[n][d] \in Seq(Route)
  BY DEF Sound
<1>. QED
  BY <1>1, FindFastestFacts DEF CostIn, NoRoute

\* A handler of n has learnt something from s: no cost rises, and new routes
\* lead through s, which takes the way for cheaper.
Improves(T, U, n, s) ==
    /\ \A m \in Addr : m # n => U[m] = T[m]
    /\ \A d \in Addr : CostIn(U, n, d) <= CostIn(T, n, d)
    /\ \A d \in Addr : \A r \in ToSet(U[n][d]) :
            \/ r \in ToSet(T[n][d])
            \/ r.next_hop = s /\ CostIn(T, s, d) < r.cost

SameButFor(c, before, after) == \A e \in Links : e # c => after[e] = before[e]

\* Only the channel that was read needs a look.
LEMMA CalmTableStep ==
    ASSUME NEW T, NEW U, Sound(T), Sound(U), NEW n \in Addr, NEW s \in Addr,
           <<s, n>> \in Links, s # n, Improves(T, U, n, s),
           NEW before \in [Links -> Seq(Vector)], NEW after,
           Calm(T, before), SameButFor(<<s, n>>, before, after),
           InOrder(U, after, <<s, n>>)
    PROVE  Calm(U, after)
<1>0. /\ \A c \in Links : before[c] \in Seq(Vector)
      /\ \A m \in Addr : m # n => U[m] = T[m]
      /\ \A d \in Addr : CostIn(U, n, d) <= CostIn(T, n, d)
      /\ \A d \in Addr : \A r \in ToSet(U[n][d]) :
            \/ r \in ToSet(T[n][d])
            \/ r.next_hop = s /\ CostIn(T, s, d) < r.cost
      /\ \A c \in Links : c # <<s, n>> => after[c] = before[c]
  BY DEF Improves, SameButFor
<1>1. ASSUME NEW m \in Addr, NEW d \in Addr
      PROVE  CostIn(U, m, d) <= CostIn(T, m, d)
  <2>1. CASE m = n
    BY <2>1, <1>0
  <2>2. CASE m # n
    BY <2>2, <1>0, CostFacts DEF CostIn
  <2>. QED
    BY <2>1, <2>2
<1>2. \A m, d \in Addr : /\ CostIn(T, m, d) \in 0..MaxCost
                         /\ CostIn(U, m, d) \in 0..MaxCost
                         /\ m # n => CostIn(U, m, d) = CostIn(T, m, d)
  BY <1>0, CostFacts DEF CostIn
<1>3. Descending(U)
  <2> SUFFICES ASSUME NEW m \in Addr, NEW d \in Addr, NEW r \in ToSet(U[m][d])
               PROVE  CostIn(U, r.next_hop, d) < r.cost
    BY DEF Descending
  <2>1. r.next_hop \in Addr /\ r.cost \in 0..MaxCost
    BY CostFacts
  <2>2. CostIn(T, r.next_hop, d) < r.cost
    BY <1>0 DEF Calm, Descending
  <2>3. CostIn(U, r.next_hop, d) <= CostIn(T, r.next_hop, d)
    BY <2>1, <1>1
  <2>4. CostIn(U, r.next_hop, d) \in 0..MaxCost /\ CostIn(T, r.next_hop, d) \in 0..MaxCost
    BY <2>1, <1>2
  <2>. QED
    BY <2>1, <2>2, <2>3, <2>4, MaxCostAssumption
<1>4. ASSUME NEW c \in Links, c # <<s, n>>
      PROVE  InOrder(U, after, c)
  <2> SUFFICES ASSUME NEW d \in Addr \ {c[1]}, NEW i \in DOMAIN after[c]
               PROVE  LET offer == Offer(U, c, after[c][i], d)
                      IN  /\ after[c][i][d] < MaxCost
                                => CostIn(U, c[1], d) <= after[c][i][d]
                          /\ \A j \in DOMAIN after[c] : j < i => offer <= after[c][j][d]
                          /\ \A r \in ToSet(U[c[2]][d]) :
                                r.next_hop = c[1] => offer < r.cost
    BY DEF InOrder
  <2> DEFINE offer == Offer(U, c, after[c][i], d)
             was == Offer(T, c, after[c][i], d)
  <2>1. c[1] \in Addr /\ c[2] \in Addr /\ c = <<c[1], c[2]>> /\ after[c] = before[c]
    BY <1>0, <1>4, LinkEnds
  <2>2. /\ after[c][i][d] < MaxCost => CostIn(T, c[1], d) <= after[c][i][d]
        /\ \A j \in DOMAIN after[c] : j < i => was <= after[c][j][d]
        /\ \A r \in ToSet(T[c[2]][d]) : r.next_hop = c[1] => was < r.cost
    BY <2>1 DEF Calm, InOrder
  <2>3. \A j \in DOMAIN after[c] : after[c][j][d] \in 0..MaxCost
    <3>1. \A j \in DOMAIN after[c] : after[c][j] \in Vector
      BY <2>1, <1>0
    <3>. QED
      BY <3>1 DEF Vector, Cost
  <2>4. offer <= was /\ offer \in 0..MaxCost /\ was \in 0..MaxCost
    <3>1. /\ after[c][i][d] \in 0..MaxCost
          /\ CostIn(U, c[2], d) <= CostIn(T, c[2], d)
          /\ CostIn(U, c[2], d) \in 0..MaxCost /\ CostIn(T, c[2], d) \in 0..MaxCost
      BY <2>1, <2>3, <1>1, <1>2
    <3>. QED
      BY <3>1, MaxCostAssumption DEF Offer
  <2>5. \A r \in ToSet(U[c[2]][d]) : r.next_hop = c[1] => r \in ToSet(T[c[2]][d])
    BY <2>1, <1>0, <1>4
  <2> HIDE DEF offer, was
  <2>6. CostIn(U, c[1], d) <= CostIn(T, c[1], d)
    BY <2>1, <1>1
  <2>7. after[c][i][d] < MaxCost => CostIn(U, c[1], d) <= after[c][i][d]
    <3>1. /\ CostIn(U, c[1], d) \in 0..MaxCost /\ CostIn(T, c[1], d) \in 0..MaxCost
          /\ after[c][i][d] \in 0..MaxCost
      BY <2>1, <2>3, <1>2
    <3>. QED
      BY <3>1, <2>2, <2>6, MaxCostAssumption
  <2>8. \A j \in DOMAIN after[c] : j < i => offer <= after[c][j][d]
    BY <2>2, <2>3, <2>4
  <2>9. \A r \in ToSet(U[c[2]][d]) : r.next_hop = c[1] => offer < r.cost
    <3> SUFFICES ASSUME NEW r \in ToSet(U[c[2]][d]), r.next_hop = c[1]
                 PROVE  offer < r.cost
      OBVIOUS
    <3>1. r.cost \in 0..MaxCost
      BY <2>1, CostFacts
    <3>2. was < r.cost
      BY <2>2, <2>5
    <3>. QED
      BY <3>1, <3>2, <2>4, MaxCostAssumption
  <2>. QED
    BY <2>7, <2>8, <2>9 DEF offer
<1>. QED
  BY <1>3, <1>4 DEF Calm

LEMMA ChannelFacts ==
    ASSUME NEW channels \in [Links -> Seq(Vector)], NEW c \in Links, NEW d \in Addr
    PROVE  \A i \in DOMAIN channels[c] : channels[c][i][d] \in 0..MaxCost
<1>1. \A i \in DOMAIN channels[c] : channels[c][i] \in Vector
  OBVIOUS
<1>. QED
  BY <1>1 DEF Vector, Cost

\* A channel from which the first vector is gone is still in order.
LEMMA CalmTail ==
    ASSUME NEW T, NEW channels \in [Links -> Seq(Vector)], Calm(T, channels),
           NEW c \in Links, channels[c] # <<>>
    PROVE  Calm(T, [channels EXCEPT ![c] = Tail(@)])
<1> DEFINE after == [channels EXCEPT ![c] = Tail(@)]
<1>1. /\ channels[c] \in Seq(Vector) /\ after[c] = Tail(channels[c])
      /\ \A e \in Links : e # c => after[e] = channels[e]
  OBVIOUS
<1>2. /\ \A i \in DOMAIN after[c] : /\ i + 1 \in DOMAIN channels[c]
                                    /\ after[c][i] = channels[c][i + 1]
      /\ \A i, j \in DOMAIN after[c] : j < i => j + 1 < i + 1
  BY <1>1
<1> HIDE DEF after
<1>3. InOrder(T, after, c)
  BY <1>2 DEF Calm, InOrder
<1>4. \A e \in Links : e # c => InOrder(T, after, e)
  BY <1>1 DEF Calm, InOrder
<1>. QED
  BY <1>3, <1>4 DEF Calm, after

\* handle_hello_message and the first step of handle_update_message.
LEMMA LearningIsCheaper ==
    ASSUME NEW T, NEW U, Sound(T), Sound(U), NEW n \in Addr, NEW s \in Addr, s # n,
           ToSet(T[n][s]) \subseteq ToSet(U[n][s]) \/ DirectRoute(s) \in ToSet(U[n][s])
    PROVE  CostIn(U, n, s) <= CostIn(T, n, s)
<1>1. CostIn(T, n, s) \in 1..MaxCost /\ CostIn(U, n, s) \in 1..MaxCost
  BY CostFacts
<1>2. CASE DirectRoute(s) \in ToSet(U[n][s])
  <2>1. CostIn(U, n, s) <= DirectRoute(s).cost
    BY <1>2, CostFacts
  <2>. QED
    BY <2>1, <1>1, MaxCostAssumption DEF DirectRoute
<1>3. CASE ToSet(T[n][s]) \subseteq ToSet(U[n][s])
  <2> DEFINE f == FindFastestRoute(T[n][s])
  <2>1. CASE f = NoRoute /\ CostIn(T, n, s) = MaxCost
    BY <2>1, <1>1, MaxCostAssumption
  <2>2. CASE f \in ToSet(T[n][s])
    BY <2>2, <1>3, CostFacts, FastestOf
  <2>. QED
    BY <2>1, <2>2, FastestOf
<1>. QED
  BY <1>2, <1>3

LEMMA CalmHello ==
    ASSUME NEW T, NEW U, Sound(T), Sound(U), NEW n \in Addr, NEW s \in Addr,
           <<s, n>> \in Links, s # n,
           U[n] = LearnNeighbour(T[n], s), \A m \in Addr : m # n => U[m] = T[m],
           NEW channels \in [Links -> Seq(Vector)], Calm(T, channels)
    PROVE  /\ Calm(U, channels)
           /\ \A d \in Addr : CostIn(U, n, d) <= CostIn(T, n, d)
<1>1. /\ T[n] \in [Addr -> Seq(Route)] /\ TableOK(T[n], n)
      /\ U[n] = LearnNeighbour(T[n], s)
      /\ \A m \in Addr : m # n => U[m] = T[m]
  BY DEF Sound
<1>2. \A d \in Addr : d # s => U[n][d] = T[n][d]
  BY <1>1 DEF LearnNeighbour
<1>3. HasDirect(U[n], s)
  BY <1>1, LearnNeighbourFacts
<1>4. \A d \in Addr : CostIn(U, n, d) <= CostIn(T, n, d)
  <2> SUFFICES ASSUME NEW d \in Addr PROVE CostIn(U, n, d) <= CostIn(T, n, d)
    OBVIOUS
  <2>1. CASE d = s
    BY <2>1, <1>3, LearningIsCheaper DEF HasDirect
  <2>2. CASE d # s
    <3>1. CostIn(U, n, d) = CostIn(T, n, d) /\ CostIn(T, n, d) \in 0..MaxCost
      BY <2>2, <1>2, CostFacts DEF CostIn
    <3>. QED
      BY <3>1
  <2>. QED
    BY <2>1, <2>2
<1>5. ASSUME NEW d \in Addr, NEW r \in ToSet(U[n][d])
      PROVE  \/ r \in ToSet(T[n][d])
             \/ r.next_hop = s /\ CostIn(T, s, d) < r.cost
  <2>0. ToSet(U[n][d])
            \subseteq ToSet(T[n][d]) \union (IF d = s THEN {DirectRoute(s)} ELSE {})
    BY <1>1, LearntRoutes
  <2>1. r \in ToSet(T[n][d]) \/ (d = s /\ r = DirectRoute(s))
    BY <2>0
  <2>. QED
    BY <2>1 DEF DirectRoute, CostIn
<1>6. InOrder(U, channels, <<s, n>>)
  <2>1. /\ <<s, n>>[1] = s /\ <<s, n>>[2] = n
        /\ InOrder(T, channels, <<s, n>>)
    BY DEF Calm
  <2>2. \A d \in Addr \ {s} : /\ U[n][d] = T[n][d]
                              /\ CostIn(U, n, d) = CostIn(T, n, d)
                              /\ CostIn(U, s, d) = CostIn(T, s, d)
    <3>1. \A d \in Addr \ {s} : U[n][d] = T[n][d] /\ U[s][d] = T[s][d]
      BY <1>1, <1>2
    <3>. QED
      BY <3>1 DEF CostIn
  <2>3. \A d \in Addr \ {s}, i \in DOMAIN channels[<<s, n>>] :
            Offer(U, <<s, n>>, channels[<<s, n>>][i], d)
                = Offer(T, <<s, n>>, channels[<<s, n>>][i], d)
    BY <2>1, <2>2 DEF Offer
  <2> DEFINE c == <<s, n>>
  <2>4. ASSUME NEW d \in Addr \ {c[1]}, NEW i \in DOMAIN channels[c]
        PROVE  LET offer == Offer(U, c, channels[c][i], d)
               IN  /\ channels[c][i][d] < MaxCost => CostIn(U, c[1], d) <= channels[c][i][d]
                   /\ \A j \in DOMAIN channels[c] : j < i => offer <= channels[c][j][d]
                   /\ \A r \in ToSet(U[c[2]][d]) : r.next_hop = c[1] => offer < r.cost
    BY <2>1, <2>2, <2>3, <2>4 DEF InOrder
  <2>. QED
    BY <2>4 DEF InOrder
<1>7. Improves(T, U, n, s) /\ SameButFor(<<s, n>>, channels, channels)
  BY <1>1, <1>4, <1>5 DEF Improves, SameButFor
<1>. QED
  BY <1>4, <1>6, <1>7, CalmTableStep

\* A vector read in order makes nothing dearer, and what it offers its sender does.
LEMMA CalmUpdate ==
    ASSUME NEW T, NEW U, Sound(T), Sound(U), NEW n \in Addr, NEW s \in Addr,
           <<s, n>> \in Links, s # n,
           NEW channels \in [Links -> Seq(Vector)], Calm(T, channels),
           channels[<<s, n>>] # <<>>, VectorOK(Head(channels[<<s, n>>]), n),
           U[n] = ApplyVector(T[n], s, Head(channels[<<s, n>>])),
           \A m \in Addr : m # n => U[m] = T[m]
    PROVE  /\ Calm(U, [channels EXCEPT ![<<s, n>>] = Tail(@)])
           /\ \A d \in Addr : CostIn(U, n, d) <= CostIn(T, n, d)
<1> DEFINE c == <<s, n>>
           v == Head(channels[c])
           rest == [channels EXCEPT ![c] = Tail(@)]
           new(d) == [next_hop |-> s, cost |-> v[d] + 1]
<1>1. /\ T[n] \in [Addr -> Seq(Route)] /\ TableOK(T[n], n)
      /\ U[n] = ApplyVector(T[n], s, v)
      /\ \A m \in Addr : m # n => U[m] = T[m]
  BY DEF Sound
<1>2. c \in Links /\ c[1] = s /\ c[2] = n
  OBVIOUS
<1>3. /\ channels[c] \in Seq(Vector) /\ channels[c] # <<>> /\ v = channels[c][1]
      /\ 1 \in DOMAIN channels[c] /\ rest[c] = Tail(channels[c])
      /\ \A i \in DOMAIN rest[c] : /\ i + 1 \in DOMAIN channels[c] /\ 1 < i + 1
                                   /\ rest[c][i] = channels[c][i + 1]
      /\ \A i, j \in DOMAIN rest[c] : j < i => j + 1 < i + 1
  <2>1. /\ channels[c] \in Seq(Vector) /\ channels[c] # <<>>
        /\ rest[c] = Tail(channels[c]) /\ v = Head(channels[c])
    OBVIOUS
  <2> HIDE DEF c, v, rest
  <2>. QED
    BY <2>1
<1>4. \A d \in Addr : v[d] \in 0..MaxCost
  BY DEF VectorOK, Cost
<1>5. ASSUME NEW d \in Addr, d # s
      PROVE  /\ \A r \in ToSet(U[n][d]) :
                    \/ r \in ToSet(T[n][d]) /\ r.next_hop # s
                    \/ v[d] # MaxCost /\ r = new(d)
             /\ \A r \in ToSet(T[n][d]) : r.next_hop # s => r \in ToSet(U[n][d])
             /\ v[d] # MaxCost => new(d) \in ToSet(U[n][d])
  <2>1. ToSet(U[n][d]) = {r \in ToSet(T[n][d]) : r.next_hop # s}
                         \union IF v[d] = MaxCost THEN {} ELSE {new(d)}
    BY <1>1, <1>5, ApplyVectorEntry
  <2> HIDE DEF v, new
  <2>. QED
    BY <2>1
<1>6. HasDirect(U[n], s)
  BY <1>1, ApplyVectorFacts
<1>7. InOrder(T, channels, c)
  BY <1>2 DEF Calm
<1> HIDE DEF rest, v, c
<1>8. ASSUME NEW d \in Addr, d # s
      PROVE  /\ v[d] < MaxCost => CostIn(T, s, d) <= v[d]
             /\ \A r \in ToSet(T[n][d]) : r.next_hop = s => Offer(T, c, v, d) < r.cost
             /\ \A i \in DOMAIN rest[c] :
                  /\ rest[c][i][d] < MaxCost => CostIn(T, s, d) <= rest[c][i][d]
                  /\ \A j \in DOMAIN rest[c] : j < i =>
                        Offer(T, c, rest[c][i], d) <= rest[c][j][d]
                  /\ Offer(T, c, rest[c][i], d) <= v[d]
  BY <1>2, <1>3, <1>7, <1>8 DEF InOrder
<1>9. \A d \in Addr : Offer(T, c, v, d) = IF v[d] < MaxCost THEN v[d] ELSE CostIn(T, n, d)
  BY <1>2 DEF Offer
<1>10. ASSUME NEW d \in Addr
       PROVE  CostIn(U, n, d) <= CostIn(T, n, d)
  <2>1. CASE d = s
    BY <2>1, <1>6, LearningIsCheaper DEF HasDirect
  <2>2. CASE d = n
    BY <2>2 DEF CostIn
  <2>3. CASE d # s /\ d # n
    <3> DEFINE f == FindFastestRoute(T[n][d])
    <3>0. CostIn(U, n, d) \in 0..MaxCost /\ CostIn(T, n, d) \in 0..MaxCost
      BY CostFacts
    <3>1. CASE CostIn(T, n, d) = MaxCost
      BY <3>0, <3>1
    <3>2. CASE f \in ToSet(T[n][d]) /\ f.next_hop # s
      <4>1. f \in ToSet(U[n][d])
        BY <2>3, <3>2, <1>5
      <4>2. CostIn(T, n, d) = f.cost
        BY <2>3, FastestOf
      <4>3. CostIn(U, n, d) <= f.cost
        BY <4>1, CostFacts
      <4>. QED
        BY <4>2, <4>3
    <3>3. CASE f \in ToSet(T[n][d]) /\ f.next_hop = s
      <4>1. Offer(T, c, v, d) < CostIn(T, n, d)
        BY <2>3, <3>3, <1>8, FastestOf
      <4>2. v[d] < MaxCost /\ v[d] < CostIn(T, n, d)
        BY <4>1, <3>0, <1>9, MaxCostAssumption
      <4>3. new(d) \in ToSet(U[n][d])
        <5>1. v[d] # MaxCost
          BY <4>2, <1>4, MaxCostAssumption
        <5>. QED
          BY <5>1, <2>3, <1>5
      <4>4. CostIn(U, n, d) <= new(d).cost
        BY <4>3, CostFacts
      <4>. QED
        BY <4>2, <4>4, <3>0, <1>4, MaxCostAssumption
    <3>. QED
      BY <2>3, <3>1, <3>2, <3>3, FastestOf
  <2>. QED
    BY <2>1, <2>2, <2>3
<1>11. ASSUME NEW d \in Addr, NEW r \in ToSet(U[n][d])
       PROVE  \/ r \in ToSet(T[n][d])
              \/ r.next_hop = s /\ CostIn(T, s, d) < r.cost
  <2>1. CASE d = s
    <3>1. U[n][s] = LearnDirect(T[n][s], s) /\ RoutesOK(T[n][s], s)
      BY <1>1 DEF ApplyVector, TableOK
    <3>2. r \in ToSet(T[n][s]) \/ r = DirectRoute(s)
      BY <2>1, <3>1, LearnDirectFacts
    <3>. QED
      BY <2>1, <3>2 DEF DirectRoute, CostIn
  <2>2. CASE d # s
    <3>1. r \in ToSet(T[n][d]) \/ (v[d] # MaxCost /\ r = new(d))
      BY <2>2, <1>5
    <3>2. CASE v[d] # MaxCost /\ r = new(d)
      <4>1. CostIn(T, s, d) <= v[d]
        BY <2>2, <3>2, <1>4, <1>8, MaxCostAssumption
      <4>2. CostIn(T, s, d) \in 0..MaxCost
        BY CostFacts
      <4>. QED
        BY <3>2, <4>1, <4>2, <1>4, MaxCostAssumption
    <3>. QED
      BY <3>1, <3>2
  <2>. QED
    BY <2>1, <2>2
<1>12. InOrder(U, rest, c)
  <2> SUFFICES ASSUME NEW d \in Addr, d # s, NEW i \in DOMAIN rest[c]
               PROVE  LET offer == Offer(U, c, rest[c][i], d)
                      IN  /\ rest[c][i][d] < MaxCost
                                => CostIn(U, s, d) <= rest[c][i][d]
                          /\ \A j \in DOMAIN rest[c] : j < i => offer <= rest[c][j][d]
                          /\ \A r \in ToSet(U[n][d]) :
                                r.next_hop = s => offer < r.cost
    BY <1>2 DEF InOrder
  <2> DEFINE offer == Offer(U, c, rest[c][i], d)
             was == Offer(T, c, rest[c][i], d)
  <2>1. CostIn(U, s, d) = CostIn(T, s, d)
    BY <1>1 DEF CostIn
  <2>2. \A j \in DOMAIN rest[c] : rest[c][j][d] \in 0..MaxCost
    BY <1>2, <1>3, ChannelFacts
  <2>3. offer <= was /\ offer \in 0..MaxCost /\ was \in 0..MaxCost
    <3>1. /\ CostIn(U, n, d) <= CostIn(T, n, d) /\ rest[c][i][d] \in 0..MaxCost
          /\ CostIn(U, n, d) \in 0..MaxCost /\ CostIn(T, n, d) \in 0..MaxCost
      BY <2>2, <1>10, CostFacts
    <3>. QED
      BY <3>1, <1>2, MaxCostAssumption DEF Offer
  <2> HIDE DEF offer, was
  <2>4. \A j \in DOMAIN rest[c] : j < i => was <= rest[c][j][d]
    BY <1>8 DEF was
  <2>5. was <= v[d]
    BY <1>8 DEF was
  <2>6. ASSUME NEW r \in ToSet(U[n][d]), r.next_hop = s
        PROVE  offer < r.cost
    <3>1. r = new(d)
      BY <2>6, <1>5
    <3>2. r.cost = v[d] + 1
      BY <3>1
    <3>. QED
      BY <3>2, <2>3, <2>5, <1>4, MaxCostAssumption
  <2>7. \A j \in DOMAIN rest[c] : j < i => offer <= rest[c][j][d]
    BY <2>2, <2>3, <2>4, MaxCostAssumption
  <2>. QED
    BY <2>1, <2>6, <2>7, <1>8 DEF offer
<1>13. Improves(T, U, n, s)
  BY <1>1, <1>10, <1>11 DEF Improves
<1>14. SameButFor(c, channels, rest)
  BY DEF SameButFor, rest
<1>15. Calm(U, rest)
  BY <1>12, <1>13, <1>14, CalmTableStep DEF c
<1>. QED
  BY <1>10, <1>15 DEF rest, c

\* What is sent now is in order behind everything that was sent before.
LEMMA CalmSend ==
    ASSUME NEW T, Sound(T), NEW n \in Addr, TypeOK,
           NEW channels \in [Links -> Seq(Vector)], Calm(T, channels)
    PROVE  Calm(T, WithUpdates(n, T[n], channels))
<1> DEFINE after == WithUpdates(n, T[n], channels)
           vector(m) == GetAllFastestRoutesForNeighbour(T[n], m)
<1> SUFFICES ASSUME NEW c \in Links PROVE InOrder(T, after, c)
  BY DEF Calm
<1>1. InOrder(T, channels, c) /\ channels[c] \in Seq(Vector)
  BY DEF Calm
<1>2. CASE after[c] = channels[c]
  BY <1>1, <1>2 DEF InOrder
<1>3. CASE /\ after[c] = Append(channels[c], vector(c[2]))
           /\ c[2] \in GetAllNeighbours(T[n]) /\ c[1] = n
  <2> DEFINE m == c[2]
             new == vector(m)
  <2>1. m \in Addr /\ n # m /\ TableOK(T[n], n)
    BY <1>3, LinkEnds DEF Sound
  <2>2. VectorOK(new, m) /\ new \in Vector
    BY <1>3, <2>1, VectorForNeighbour DEF VectorOK, Vector
  <2>3. ASSUME NEW d \in Addr
        PROVE  new[d] = IF FindFastestRoute(T[n][d]).next_hop = m THEN MaxCost
                        ELSE FindFastestRoute(T[n][d]).cost
    BY DEF GetAllFastestRoutesForNeighbour
  <2> HIDE DEF new, after, m, vector
  <2>4. /\ after[c] = Append(channels[c], new)
        /\ \A i \in DOMAIN after[c] :
            \/ i \in DOMAIN channels[c] /\ after[c][i] = channels[c][i]
            \/ after[c][i] = new /\ i = Len(channels[c]) + 1
        /\ \A i, j \in DOMAIN after[c] : j < i =>
             j \in DOMAIN channels[c] /\ after[c][j] = channels[c][j]
    <3>1. after[c] = Append(channels[c], new)
      BY <1>3 DEF new, m
    <3>. QED
      BY <3>1, <1>1, <2>2
  <2> SUFFICES ASSUME NEW d \in Addr, d # n, NEW i \in DOMAIN after[c]
               PROVE  LET offer == Offer(T, c, after[c][i], d)
                      IN  /\ after[c][i][d] < MaxCost
                                => CostIn(T, n, d) <= after[c][i][d]
                          /\ \A j \in DOMAIN after[c] : j < i => offer <= after[c][j][d]
                          /\ \A r \in ToSet(T[m][d]) :
                                r.next_hop = n => offer < r.cost
    BY <1>3 DEF InOrder, m
  <2>5. CASE i \in DOMAIN channels[c] /\ after[c][i] = channels[c][i]
    BY <2>4, <2>5, <1>1, <1>3 DEF InOrder, m
  <2>6. CASE after[c][i] = new
    <3> DEFINE f == FindFastestRoute(T[n][d])
               own == CostIn(T, n, d)
               theirs == CostIn(T, m, d)
               offer == Offer(T, c, new, d)
    <3>0. own \in 0..MaxCost /\ theirs \in 0..MaxCost /\ f.cost = own
      BY <2>1, CostFacts, FastestOf
    <3>1. \A r \in ToSet(T[m][d]) : r.next_hop = n => own < r.cost
      BY <2>1 DEF Calm, Descending
    <3>2. \A j \in DOMAIN channels[c] :
            /\ channels[c][j][d] \in 0..MaxCost
            /\ channels[c][j][d] < MaxCost => own <= channels[c][j][d]
      BY <1>1, <1>3, ChannelFacts DEF InOrder
    <3>3. \A r \in ToSet(T[m][d]) : r.cost \in 0..MaxCost
      BY <2>1, CostFacts
    <3>4. \A j \in DOMAIN channels[c] : own <= channels[c][j][d]
      BY <3>0, <3>2, MaxCostAssumption
    <3>5. CASE f.next_hop # m /\ f \in ToSet(T[n][d]) /\ f.cost < MaxCost
      <4>1. new[d] = own /\ offer = own
        BY <3>0, <3>5, <2>3 DEF Offer
      <4> HIDE DEF own, theirs, offer
      <4>. QED
        BY <4>1, <3>0, <3>1, <3>4, <2>4, <2>6 DEF own, offer
    <3>6. CASE f.next_hop = m /\ f \in ToSet(T[n][d]) /\ f.cost < MaxCost
      <4>1. new[d] = MaxCost /\ offer = theirs
        BY <3>6, <2>3, MaxCostAssumption DEF Offer, m
      <4>2. theirs < own
        BY <3>0, <3>6 DEF Calm, Descending
      <4> HIDE DEF own, theirs, offer
      <4>3. \A r \in ToSet(T[m][d]) : r.next_hop = n => theirs < r.cost
        BY <4>2, <3>0, <3>1, <3>3, MaxCostAssumption
      <4>4. \A j \in DOMAIN channels[c] : theirs <= channels[c][j][d]
        BY <4>2, <3>0, <3>2, <3>4, MaxCostAssumption
      <4>. QED
        BY <4>1, <4>3, <4>4, <2>4, <2>6, MaxCostAssumption DEF offer
    <3>7. CASE f = NoRoute /\ own = MaxCost
      <4>1. new[d] = MaxCost /\ offer = theirs
        BY <3>7, <2>3, MaxCostAssumption DEF Offer, m, NoRoute
      <4> HIDE DEF own, theirs, offer
      <4>2. \A r \in ToSet(T[m][d]) : r.next_hop # n
        BY <3>1, <3>3, <3>7, MaxCostAssumption
      <4>3. \A j \in DOMAIN channels[c] : theirs <= channels[c][j][d]
        BY <3>0, <3>2, <3>4, <3>7, MaxCostAssumption
      <4>. QED
        BY <4>1, <4>2, <4>3, <2>4, <2>6, MaxCostAssumption DEF offer
    <3>. QED
      BY <3>5, <3>6, <3>7, FastestOf
  <2>. QED
    BY <2>4, <2>5, <2>6
<1>. QED
  BY <1>2, <1>3 DEF WithUpdates

\* A check that waits for the neighbours finds nobody silent.
LEMMA NobodySilent ==
    ASSUME IInv, CalmInv, Orderly, NEW n \in Addr, PacedCheck(n)
    PROVE  table' = table /\ updates' = updates
<1>0. table \in [Addr -> [Addr -> Seq(Route)]] /\ TableOK(table[n], n)
  BY DEF IInv, TypeOK, TablesOK
<1>1. TimedOut(n) = {}
  <2> SUFFICES ASSUME NEW m \in GetAllNeighbours(table[n]), m \notin checkins[n]
               PROVE  FALSE
    BY DEF TimedOut
  <2>1. m \in Addr /\ HasDirect(table[n], m)
    BY <1>0, NeighboursAreDirect DEF GetAllNeighbours
  <2>2. <<n, m>> \in links /\ running[m]
    BY <2>1 DEF CalmInv
  <2>. QED
    BY <2>1, <2>2 DEF PacedCheck, LiveNeighbours
<1>2. SetHopsUnreachable(table[n], {}) = table[n]
  <2>1. \A d \in Addr : [i \in DOMAIN table[n][d] |-> table[n][d][i]] = table[n][d]
    BY <1>0
  <2>2. SetHopsUnreachable(table[n], {})
          = [d \in Addr |-> [i \in DOMAIN table[n][d] |-> table[n][d][i]]]
    BY DEF SetHopsUnreachable
  <2>3. SetHopsUnreachable(table[n], {}) = [d \in Addr |-> table[n][d]]
    BY <2>1, <2>2
  <2>. QED
    BY <2>3, <1>0
<1>. QED
  BY <1>0, <1>1, <1>2 DEF PacedCheck, CheckTimeouts

LEMMA PacedIsNext == [PacedNext]_vars => [Next]_vars
<1>1. PacedNext => Next
  BY DEF PacedNext, QuietNext, PacedCheck, Next
<1>. QED
  BY <1>1

LEMMA InitPaced == PacedInit => IInv /\ ShortInv
<1> SUFFICES ASSUME PacedInit PROVE IInv /\ ShortInv
  OBVIOUS
<1>1. TypeOK
  BY DEF PacedInit, TypeOK, EmptyTable
<1>2. TablesOK
  BY EmptyTableOK DEF PacedInit, TablesOK
<1>3. CheckinsDirect /\ ChannelsOK(updates)
  BY DEF PacedInit, CheckinsDirect, ChannelsOK, ToSet
<1>4. ShortInv
  BY DEF PacedInit, EmptyTable, ShortInv, AboveBound, ChannelsAbove, ToSet
<1>. QED
  BY <1>1, <1>2, <1>3, <1>4 DEF IInv

LEMMA InitCalm == Init \/ PacedInit => CalmInv
<1> SUFFICES ASSUME Init \/ PacedInit PROVE CalmInv
  OBVIOUS
<1>1. /\ links = Links /\ table = [n \in Addr |-> EmptyTable]
      /\ updates = [c \in Links |-> <<>>]
      /\ \A c \in Links : c \in hellos => running[c[1]]
  BY LinkEnds DEF Init, PacedInit
<1>2. \A n, m \in Addr : ~HasDirect(table[n], m)
  BY <1>1 DEF HasDirect, EmptyTable, ToSet
<1>3. Calm(table, updates)
  BY <1>1, LinkEnds DEF Calm, Descending, InOrder, EmptyTable, ToSet
<1>. QED
  BY <1>1, <1>2, <1>3 DEF CalmInv

\* What has not been orderly does not become so again.
LEMMA DisorderStays ==
    [PacedNext]_vars /\ faults \in Nat /\ overtakes \in Nat /\ Orderly' => Orderly
<1> DEFINE Grow == faults' \in {faults, faults + 1} /\ overtakes' \in {overtakes, overtakes + 1}
<1> SUFFICES ASSUME [PacedNext]_vars, faults \in Nat, overtakes \in Nat, Orderly'
             PROVE  Orderly
  OBVIOUS
<1>1. ASSUME NEW n \in Addr, SendHello(n) \/ PacedCheck(n) \/ Start(n) \/ Crash(n)
      PROVE  Grow
  BY <1>1 DEF SendHello, PacedCheck, CheckTimeouts, Start, Crash, counts
<1>2. ASSUME NEW n \in Addr, NEW s \in Addr, Receive(n, s)
      PROVE  Grow
  BY <1>2 DEF Receive, HandleHello, HandleUpdate, counts
<1>3. ASSUME NEW n \in Addr, NEW s \in Addr, Environment(n, s)
      PROVE  Grow
  BY <1>3 DEF Environment, Discard, Unroutable, LoseHello, LoseUpdate, Overtake,
         LinkDown, LinkUp, counts
<1>4. Grow
  BY <1>1, <1>2, <1>3 DEF PacedNext, QuietNext, vars
<1>. QED
  BY <1>4 DEF Orderly

CostsFall == \A n, d \in Addr : CostIn(table', n, d) <= CostIn(table, n, d)

LEMMA StepCalm ==
    IInv /\ CalmInv /\ [PacedNext]_vars =>
        CalmInv' /\ (Orderly' => CostsFall)
<1> SUFFICES ASSUME IInv, CalmInv, [PacedNext]_vars, Orderly'
             PROVE  /\ links' = Links
                    /\ \A n \in Addr : ~running'[n] => table'[n] = EmptyTable
                    /\ \A c \in Links :
                            c \in hellos' \/ updates'[c] # <<>> => running'[c[1]]
                    /\ \A n, m \in Addr : HasDirect(table'[n], m)
                            => <<n, m>> \in Links /\ running'[m]
                    /\ Calm(table', updates')
                    /\ CostsFall
  BY DEF CalmInv
<1> DEFINE Wired == /\ links' = Links
                    /\ \A n \in Addr : ~running'[n] => table'[n] = EmptyTable
                    /\ \A c \in Links :
                            c \in hellos' \/ updates'[c] # <<>> => running'[c[1]]
                    /\ \A n, m \in Addr : HasDirect(table'[n], m)
                            => <<n, m>> \in Links /\ running'[m]
           Good == Calm(table', updates') /\ CostsFall
<1>0. /\ IInv' /\ Sound(table) /\ Sound(table')
      /\ TypeOK /\ updates \in [Links -> Seq(Vector)] /\ hellos \in SUBSET Links
      /\ running \in [Addr -> BOOLEAN] /\ faults \in Nat /\ overtakes \in Nat
      /\ \A n, d \in Addr : CostIn(table, n, d) <= CostIn(table, n, d)
  <2>1. IInv'
    BY PacedIsNext, StepIInv
  <2>2. Sound(table) /\ Sound(table')
    BY <2>1 DEF IInv, TypeOK, TablesOK, Sound
  <2>3. \A n, d \in Addr : CostIn(table, n, d) \in 0..MaxCost
    BY <2>2, CostFacts
  <2>. QED
    BY <2>1, <2>2, <2>3 DEF IInv, TypeOK
<1>1. Orderly
  BY <1>0, DisorderStays
<1>2. /\ links = Links
      /\ \A n \in Addr : ~running[n] => table[n] = EmptyTable
      /\ \A c \in Links : c \in hellos \/ updates[c] # <<>> => running[c[1]]
      /\ \A n, m \in Addr : HasDirect(table[n], m) => <<n, m>> \in Links /\ running[m]
      /\ Calm(table, updates)
  BY <1>1 DEF CalmInv
<1>3. ASSUME NEW n \in Addr, Start(n)
      PROVE  Wired /\ Good
  <2>1. /\ running' = [running EXCEPT ![n] = TRUE]
        /\ hellos' = hellos \union HellosFrom(n)
        /\ UNCHANGED <<updates, links>>
    BY <1>3 DEF Start
  <2>2. table' = table
    <3>1. table' = [table EXCEPT ![n] = table[n]]
      BY <1>2, <1>3 DEF Start
    <3>. QED
      BY <3>1, <1>0 DEF Sound
  <2>3. \A m \in Addr : running[m] => running'[m]
    BY <2>1, <1>0
  <2>4. \A c \in Links : c \in hellos' \/ updates'[c] # <<>> => running'[c[1]]
    BY <2>1, <2>3, <1>0, <1>2, LinkEnds DEF HellosFrom
  <2>5. \A m \in Addr : ~running'[m] => table'[m] = EmptyTable
    BY <2>2, <2>3, <1>2
  <2>. QED
    BY <2>1, <2>2, <2>3, <2>4, <2>5, <1>0, <1>2 DEF CostsFall
<1>4. ASSUME NEW n \in Addr, SendHello(n) \/ PacedCheck(n)
      PROVE  Wired /\ Good
  <2>1. table' = table /\ updates' = updates
    BY <1>1, <1>4, NobodySilent DEF SendHello
  <2>2. /\ running' = running /\ links' = links
        /\ \/ hellos' = hellos
           \/ running[n] /\ hellos' = hellos \union HellosFrom(n)
    BY <1>4 DEF SendHello, PacedCheck, CheckTimeouts
  <2>. QED
    BY <2>1, <2>2, <1>0, <1>2 DEF HellosFrom, CostsFall
<1>5. ASSUME NEW n \in Addr, NEW s \in Addr, HandleHello(n, s)
      PROVE  Wired /\ Good
  <2>1. /\ table'[n] = LearnNeighbour(table[n], s)
        /\ \A m \in Addr : m # n => table'[m] = table[m]
        /\ <<s, n>> \in hellos /\ <<s, n>> \in Links /\ s # n /\ <<n, s>> \in Links
        /\ updates' = WithUpdates(n, table'[n], updates)
        /\ hellos' \subseteq hellos
        /\ UNCHANGED <<running, links>> /\ running[n] /\ running[s]
    <3>1. <<s, n>> \in hellos /\ <<s, n>> \in Links
      BY <1>5, <1>0 DEF HandleHello
    <3>2. running[<<s, n>>[1]]
      BY <3>1, <1>2
    <3>. QED
      BY <3>1, <3>2, <1>5, <1>0, LinksAssumption DEF HandleHello, Sound
  <2>2. /\ Calm(table', updates)
        /\ \A d \in Addr : CostIn(table', n, d) <= CostIn(table, n, d)
    BY <2>1, <1>0, <1>2, CalmHello
  <2>3. Calm(table', updates')
    BY <2>1, <2>2, <1>0, CalmSend
  <2>4. \A m, d \in Addr : m # n => CostIn(table', m, d) = CostIn(table, m, d)
    BY <2>1 DEF CostIn
  <2>5. CostsFall
    BY <2>2, <2>4, <1>0 DEF CostsFall
  <2>6. ASSUME NEW m \in Addr, HasDirect(table'[n], m)
        PROVE  <<n, m>> \in Links /\ running[m]
    <3>1. ToSet(table'[n][m])
            \subseteq ToSet(table[n][m]) \union (IF m = s THEN {DirectRoute(s)} ELSE {})
      BY <2>1, <1>0, LearntRoutes DEF Sound
    <3>2. m = s \/ HasDirect(table[n], m)
      BY <3>1, <2>6 DEF HasDirect
    <3>. QED
      BY <3>2, <2>1, <1>2
  <2>7. \A c \in Links : updates'[c] # <<>> => c[1] = n \/ updates[c] # <<>>
    BY <2>1 DEF WithUpdates
  <2>. QED
    BY <2>1, <2>3, <2>5, <2>6, <2>7, <1>2
<1>6. ASSUME NEW n \in Addr, NEW s \in Addr, HandleUpdate(n, s)
      PROVE  Wired /\ Good
  <2> DEFINE received == Head(updates[<<s, n>>])
             rest == [updates EXCEPT ![<<s, n>>] = Tail(@)]
  <2>1. /\ <<s, n>> \in Links /\ updates[<<s, n>>] # <<>> /\ s # n /\ <<n, s>> \in Links
        /\ UNCHANGED <<running, hellos, links>> /\ running[n]
        /\ table'[n] = ApplyVector(table[n], s, received)
        /\ \A m \in Addr : m # n => table'[m] = table[m]
        /\ updates' = rest \/ updates' = WithUpdates(n, table'[n], rest)
    BY <1>6, <1>0, LinksAssumption DEF HandleUpdate, Pending, Sound
  <2>2. /\ VectorOK(received, n) /\ rest \in [Links -> Seq(Vector)]
        /\ running[<<s, n>>[1]]
    BY <2>1, <1>0, <1>2, TailOfChannel DEF IInv
  <2>3. /\ Calm(table', rest)
        /\ \A d \in Addr : CostIn(table', n, d) <= CostIn(table, n, d)
    BY <2>1, <2>2, <1>0, <1>2, CalmUpdate
  <2>4. \A c \in Links : rest[c] # <<>> => updates[c] # <<>>
    BY <2>1, <1>0
  <2>10. \A m \in Addr : \A r \in ToSet(table'[n][m]) :
            \/ r \in ToSet(table[n][m])
            \/ m = s
            \/ r.next_hop = s
    <3>1. TableOK(table[n], n)
      BY <1>0 DEF Sound
    <3>2. \A m \in Addr : \A r \in ToSet(ApplyVector(table[n], s, received)[m]) :
            r \in ToSet(table[n][m]) \/ m = s \/ r.next_hop = s
      BY <2>2, <3>1, AppliedRoute
    <3>. QED
      BY <2>1, <3>2
  <2> HIDE DEF rest, received
  <2>5. Calm(table', updates')
    BY <2>1, <2>2, <2>3, <1>0, CalmSend
  <2>6. \A m, d \in Addr : m # n => CostIn(table', m, d) = CostIn(table, m, d)
    BY <2>1 DEF CostIn
  <2>7. CostsFall
    BY <2>3, <2>6, <1>0 DEF CostsFall
  <2>8. ASSUME NEW m \in Addr, HasDirect(table'[n], m)
        PROVE  <<n, m>> \in Links /\ running[m]
    <3>1. m = s \/ HasDirect(table[n], m)
      BY <2>10, <2>8 DEF HasDirect, DirectRoute
    <3>. QED
      BY <3>1, <2>1, <2>2, <1>2
  <2>9. \A c \in Links : updates'[c] # <<>> => c[1] = n \/ updates[c] # <<>>
    BY <2>1, <2>4 DEF WithUpdates
  <2>. QED
    BY <2>1, <2>5, <2>7, <2>8, <2>9, <1>2
<1>7. ASSUME NEW n \in Addr, NEW s \in Addr, Environment(n, s)
      PROVE  Wired /\ Good
  <2>1. Discard(n, s) \/ Unroutable(n, s)
    BY <1>0, <1>1, <1>2, <1>7 DEF Environment, LoseHello, LoseUpdate, Overtake,
           LinkDown, LinkUp, Orderly
  <2>2. /\ UNCHANGED <<table, running, links>> /\ hellos' \subseteq hellos
        /\ \/ updates' = updates
           \/ Pending(s, n) /\ updates' = [updates EXCEPT ![<<s, n>>] = Tail(@)]
    <3>1. CASE Discard(n, s)
      BY <3>1 DEF Discard
    <3>2. CASE Unroutable(n, s)
      BY <3>2 DEF Unroutable
    <3>. QED
      BY <2>1, <3>1, <3>2
  <2>3. Calm(table', updates')
    <3>1. CASE updates' = updates
      BY <3>1, <2>2, <1>2
    <3>2. CASE /\ <<s, n>> \in Links /\ updates[<<s, n>>] # <<>>
               /\ updates' = [updates EXCEPT ![<<s, n>>] = Tail(@)]
      <4>1. Calm(table, [updates EXCEPT ![<<s, n>>] = Tail(@)])
        BY <3>2, <1>0, <1>2, CalmTail
      <4>. QED
        BY <4>1, <3>2, <2>2
    <3>. QED
      BY <2>2, <3>1, <3>2 DEF Pending
  <2>4. \A c \in Links : updates'[c] # <<>> => updates[c] # <<>>
    BY <2>2, <1>0 DEF Pending
  <2>. QED
    BY <2>2, <2>3, <2>4, <1>0, <1>2 DEF CostsFall
<1>8. ASSUME NEW n \in Addr, Crash(n)
      PROVE  FALSE
  BY <1>0, <1>1, <1>8 DEF Crash, Orderly
<1>9. ASSUME UNCHANGED vars
      PROVE  Wired /\ Good
  BY <1>9, <1>0, <1>2 DEF vars, CostsFall
<1> HIDE DEF Wired, Good
<1>10. Wired /\ Good
  BY <1>3, <1>4, <1>5, <1>6, <1>7, <1>8, <1>9 DEF PacedNext, QuietNext, Receive
<1>. QED
  BY <1>10 DEF Wired, Good

\* Among some nodes one is cheapest; its next hop is cheaper still.
LEMMA DescendingIsLoopFree ==
    ASSUME Sound(table), Descending(table)
    PROVE  LoopFree
<1> SUFFICES ASSUME NEW d \in Addr, NEW S \in SUBSET Addr, S # {}
             PROVE  \E n \in S : AnswerRequest(table[n], d) \notin S
  BY DEF LoopFree
<1> DEFINE costs == {CostIn(table, n, d) : n \in S}
<1>1. costs \in SUBSET Nat /\ costs # {}
  BY CostFacts, MaxCostAssumption
<1>2. PICK least \in costs : \A x \in costs : least <= x
  <2> HIDE DEF costs
  <2>. QED
    BY <1>1, LeastNatural
<1>3. PICK n \in S : CostIn(table, n, d) = least
  BY <1>2
<1> DEFINE r == FindFastestRoute(table[n][d])
<1>4. CASE r = NoRoute
  <2>1. AnswerRequest(table[n], d) = Unreachable
    BY <1>4 DEF NoRoute, AnswerRequest
  <2>. QED
    BY <2>1, AddrAssumption
<1>5. CASE r \in ToSet(table[n][d])
  <2>1. n # d /\ r.next_hop \in Addr /\ r.cost \in 0..MaxCost
    BY <1>5, CostFacts
  <2>2. CostIn(table, n, d) = r.cost
    BY <2>1, FastestOf
  <2>3. CostIn(table, r.next_hop, d) < CostIn(table, n, d)
    BY <2>2, <1>5 DEF Descending
  <2>4. r.next_hop \notin S
    <3> SUFFICES ASSUME r.next_hop \in S PROVE FALSE
      OBVIOUS
    <3>1. least <= CostIn(table, r.next_hop, d)
      BY <1>2
    <3>2. CostIn(table, r.next_hop, d) \in 0..MaxCost /\ least \in 0..MaxCost
      BY <2>1, <1>3, CostFacts
    <3>. QED
      BY <3>1, <3>2, <2>3, <1>3, MaxCostAssumption
  <2>5. AnswerRequest(table[n], d) \in {Unreachable, r.next_hop}
    BY DEF AnswerRequest
  <2>. QED
    BY <2>4, <2>5, AddrAssumption
<1>. QED
  BY <1>4, <1>5, FindFastestFacts DEF Sound

LEMMA CalmInvImplies == IInv /\ CalmInv => CalmLoopFree
<1> SUFFICES ASSUME IInv, CalmInv, Orderly PROVE LoopFree
  BY DEF CalmLoopFree
<1>1. Sound(table) /\ Descending(table)
  BY DEF CalmInv, Calm, IInv, TypeOK, TablesOK, Sound
<1>. QED
  BY <1>1, DescendingIsLoopFree

LEMMA CalmCosts ==
    IInv /\ CalmInv /\ [PacedNext]_vars =>
        [Orderly' => \A n, d \in Addr : CostTo(n, d)' <= CostTo(n, d)]_vars
BY StepCalm DEF CostsFall, CostIn, CostTo

LEMMA ColdInvariance == ColdSpec => [](IInv /\ CalmInv)
BY InitIInv, InitCalm, StepIInv, StepCalm, PacedIsNext, PTL DEF ColdSpec
---------------------------------------------------------------------------
(* Silence.  What a daemon has told its neighbour is what it would still    *)
(* tell it, or does not matter to it.                                      *)

Newest(q) == q[Len(q)]

\* The newest vector on the cable says what the sender has, unless the receiver
\* has it no dearer; when all have been read, the receiver has made use of them.
ToldOf(T, channels, c, d) ==
    IF channels[c] = <<>> THEN CostIn(T, c[2], d) <= CostIn(T, c[1], d) + 1
    ELSE d # c[1] => \/ Newest(channels[c])[d] <= CostIn(T, c[1], d)
                     \/ CostIn(T, c[2], d) <= CostIn(T, c[1], d)

Told(T, channels, c) ==
    HasDirect(T[c[1]], c[2]) => \A d \in Addr : ToldOf(T, channels, c, d)

Back(c) == <<c[2], c[1]>>

\* The sender of a cable knows its receiver, or is about to hear from it.
Met(T, heard, channels, c) ==
    \/ HasDirect(T[c[1]], c[2])
    \/ c \in heard \/ Back(c) \in heard \/ channels[Back(c)] # <<>>

SilentInv ==
    Orderly =>
        \A c \in Links :
            /\ updates[c] # <<>> => HasDirect(table[c[1]], c[2])
            /\ running[c[1]] /\ running[c[2]] => Met(table, hellos, updates, c)
            /\ Told(table, updates, c)

LEMMA NewestAppended ==
    ASSUME NEW S, NEW q \in Seq(S), NEW e \in S
    PROVE  Append(q, e) # <<>> /\ Newest(Append(q, e)) = e
<1> DEFINE after == Append(q, e)
<1>1. after \in Seq(S) /\ Len(after) = Len(q) + 1 /\ after[Len(q) + 1] = e
  OBVIOUS
<1> HIDE DEF after
<1>. QED
  BY <1>1 DEF Newest, after

LEMMA NewestOfTail ==
    ASSUME NEW S, NEW q \in Seq(S), q # <<>>
    PROVE  IF Tail(q) = <<>> THEN Newest(q) = Head(q) ELSE Newest(Tail(q)) = Newest(q)
<1> DEFINE rest == Tail(q)
<1>1. /\ rest \in Seq(S) /\ Len(rest) = Len(q) - 1 /\ Len(q) \in Nat \ {0}
      /\ \A i \in 1..Len(rest) : rest[i] = q[i + 1]
      /\ Head(q) = q[1]
  OBVIOUS
<1> HIDE DEF rest
<1>2. rest = <<>> => Len(q) = 1
  BY <1>1
<1>3. rest # <<>> => Len(rest) \in 1..Len(rest) /\ Len(rest) + 1 = Len(q)
  BY <1>1
<1>. QED
  BY <1>1, <1>2, <1>3 DEF Newest, rest

\* What was told stays true while the receiver's costs fall.
LEMMA ToldStays ==
    ASSUME NEW T, NEW U, Sound(T), Sound(U), NEW c \in Links, NEW d \in Addr,
           NEW channels \in [Links -> Seq(Vector)], NEW after,
           ToldOf(T, channels, c, d),
           CostIn(U, c[2], d) <= CostIn(T, c[2], d),
           CostIn(U, c[1], d) = CostIn(T, c[1], d),
           \/ after[c] = channels[c]
           \/ /\ channels[c] # <<>> /\ after[c] # <<>>
              /\ Newest(after[c]) = Newest(channels[c])
    PROVE  ToldOf(U, after, c, d)
<1>1. c[1] \in Addr /\ c[2] \in Addr
  BY LinkEnds
<1>2. /\ CostIn(T, c[1], d) \in 0..MaxCost /\ CostIn(T, c[2], d) \in 0..MaxCost
      /\ CostIn(U, c[1], d) \in 0..MaxCost /\ CostIn(U, c[2], d) \in 0..MaxCost
  BY <1>1, CostFacts
<1>3. channels[c] # <<>> => Newest(channels[c])[d] \in 0..MaxCost
  <2> SUFFICES ASSUME channels[c] # <<>> PROVE Newest(channels[c])[d] \in 0..MaxCost
    OBVIOUS
  <2>1. channels[c] \in Seq(Vector) /\ Len(channels[c]) \in DOMAIN channels[c]
    OBVIOUS
  <2>. QED
    BY <2>1, ChannelFacts DEF Newest
<1>4. CASE channels[c] = <<>>
  <2>1. after[c] = <<>> /\ CostIn(T, c[2], d) <= CostIn(T, c[1], d) + 1
    BY <1>4 DEF ToldOf
  <2>. QED
    BY <2>1, <1>2, MaxCostAssumption DEF ToldOf
<1>5. CASE channels[c] # <<>>
  <2>1. after[c] # <<>> /\ Newest(after[c]) = Newest(channels[c])
    BY <1>5
  <2>2. d # c[1] => \/ Newest(channels[c])[d] <= CostIn(U, c[1], d)
                    \/ CostIn(U, c[2], d) <= CostIn(U, c[1], d)
    BY <1>2, <1>3, <1>5, MaxCostAssumption DEF ToldOf
  <2>. QED
    BY <2>1, <2>2 DEF ToldOf
<1>. QED
  BY <1>4, <1>5

\* A vector that has just been sent says what there is, but to a receiver that
\* the sender relies on, which has it for less.
LEMMA ToldNow ==
    ASSUME NEW U, Sound(U), Descending(U), NEW n \in Addr, NEW c \in Links, c[1] = n,
           HasDirect(U[n], c[2]), NoHop \notin Addr, links = Links,
           NEW channels \in [Links -> Seq(Vector)], Len(channels[c]) < UpdateCap
    PROVE  LET after == WithUpdates(n, U[n], channels)
           IN  after[c] # <<>> /\ Told(U, after, c)
<1> DEFINE after == WithUpdates(n, U[n], channels)
           v == GetAllFastestRoutesForNeighbour(U[n], c[2])
<1>1. c[1] \in Addr /\ c[2] \in Addr /\ n # c[2] /\ TableOK(U[n], n)
  BY LinkEnds DEF Sound
<1>2. c[2] \in GetAllNeighbours(U[n])
  BY <1>1, NeighboursAreDirect
<1>3. after[c] = Append(channels[c], v)
  BY <1>2 DEF WithUpdates
<1>4. v \in Vector
  BY <1>1, <1>2, VectorForNeighbour DEF VectorOK, Vector
<1>5. after[c] # <<>> /\ Newest(after[c]) = v
  <2>1. channels[c] \in Seq(Vector)
    OBVIOUS
  <2> HIDE DEF v, after
  <2>. QED
    BY <2>1, <1>3, <1>4, NewestAppended
<1>6. ASSUME NEW d \in Addr, d # n
      PROVE  v[d] <= CostIn(U, n, d) \/ CostIn(U, c[2], d) <= CostIn(U, n, d)
  <2> DEFINE f == FindFastestRoute(U[n][d])
  <2>1. v[d] = IF f.next_hop = c[2] THEN MaxCost ELSE f.cost
    BY DEF GetAllFastestRoutesForNeighbour
  <2>2. CostIn(U, n, d) = f.cost /\ CostIn(U, n, d) \in 0..MaxCost
        /\ CostIn(U, c[2], d) \in 0..MaxCost
    BY <1>1, <1>6, FastestOf, CostFacts
  <2>3. CASE f.next_hop # c[2]
    BY <2>1, <2>2, <2>3, MaxCostAssumption
  <2>4. CASE f.next_hop = c[2]
    <3>1. f # NoRoute
      BY <2>4, <1>1 DEF NoRoute
    <3>2. f \in ToSet(U[n][d])
      BY <3>1, <1>6, FastestOf
    <3>3. CostIn(U, c[2], d) < f.cost
      BY <3>2, <2>4 DEF Descending
    <3>. QED
      BY <3>3, <2>2, MaxCostAssumption
  <2>. QED
    BY <2>3, <2>4
<1> HIDE DEF v, after
<1>7. \A d \in Addr : ToldOf(U, after, c, d)
  BY <1>5, <1>6 DEF ToldOf
<1>. QED
  BY <1>5, <1>7 DEF Told, after

\* Who has read the newest vector has made use of it.
LEMMA ToldRead ==
    ASSUME NEW T, NEW U, Sound(T), Sound(U), NEW n \in Addr, NEW s \in Addr,
           <<s, n>> \in Links, s # n,
           NEW channels \in [Links -> Seq(Vector)], channels[<<s, n>>] # <<>>,
           VectorOK(Head(channels[<<s, n>>]), n),
           U[n] = ApplyVector(T[n], s, Head(channels[<<s, n>>])),
           \A m \in Addr : m # n => U[m] = T[m],
           \A d \in Addr : CostIn(U, n, d) <= CostIn(T, n, d),
           Told(T, channels, <<s, n>>)
    PROVE  Told(U, [channels EXCEPT ![<<s, n>>] = Tail(@)], <<s, n>>)
<1> DEFINE c == <<s, n>>
           q == channels[c]
           v == Head(q)
           rest == [channels EXCEPT ![c] = Tail(@)]
           new(d) == [next_hop |-> s, cost |-> v[d] + 1]
<1>1. c \in Links /\ c[1] = s /\ c[2] = n /\ U[s] = T[s] /\ TableOK(T[n], n)
  BY DEF Sound
<1>2. q \in Seq(Vector) /\ q # <<>> /\ rest[c] = Tail(q)
  OBVIOUS
<1>3. v \in [Addr -> Cost] /\ \A d \in Addr : v[d] \in 0..MaxCost
  BY DEF VectorOK, Cost
<1>4. \A d \in Addr : /\ CostIn(U, s, d) = CostIn(T, s, d)
                      /\ CostIn(U, n, d) <= CostIn(T, n, d)
                      /\ CostIn(T, s, d) \in 0..MaxCost /\ CostIn(T, n, d) \in 0..MaxCost
                      /\ CostIn(U, n, d) \in 0..MaxCost
  BY <1>1, CostFacts DEF CostIn
<1>5. SUFFICES ASSUME HasDirect(T[s], n), NEW d \in Addr
               PROVE  ToldOf(U, rest, c, d)
  BY <1>1 DEF Told
<1>6. ToldOf(T, channels, c, d)
  BY <1>1, <1>5 DEF Told
<1>7. CASE rest[c] = <<>>
  <2>1. Newest(q) = v
    <3>1. Tail(q) = <<>>
      BY <1>2, <1>7
    <3> HIDE DEF q, rest
    <3>. QED
      BY <3>1, <1>2, NewestOfTail
  <2>2. d # s => v[d] <= CostIn(T, s, d) \/ CostIn(T, n, d) <= CostIn(T, s, d)
    BY <2>1, <1>1, <1>2, <1>6 DEF ToldOf
  <2>3. CASE d = s
    <3>1. DirectRoute(s) \in ToSet(U[n][s])
      BY <1>1, ApplyVectorFacts DEF HasDirect
    <3>2. CostIn(U, n, s) <= DirectRoute(s).cost
      BY <3>1, CostFacts
    <3>3. CostIn(U, n, s) <= CostIn(U, s, s) + 1
      BY <3>2 DEF DirectRoute, CostIn
    <3>. QED
      BY <3>3, <2>3, <1>1, <1>7 DEF ToldOf
  <2>4. CASE d # s /\ CostIn(T, n, d) <= CostIn(T, s, d)
    <3>1. CostIn(U, n, d) <= CostIn(U, s, d) + 1
      BY <2>4, <1>4, MaxCostAssumption
    <3>. QED
      BY <3>1, <1>1, <1>7 DEF ToldOf
  <2>5. CASE d # s /\ v[d] <= CostIn(T, s, d) /\ v[d] # MaxCost
    <3>1. ToSet(U[n][d]) = {r \in ToSet(T[n][d]) : r.next_hop # s}
                           \union IF v[d] = MaxCost THEN {} ELSE {new(d)}
      BY <2>5, <1>1, ApplyVectorEntry
    <3>2. new(d) \in ToSet(U[n][d])
      <4> HIDE DEF v, new
      <4>. QED
        BY <3>1, <2>5
    <3>3. CostIn(U, n, d) <= new(d).cost
      BY <3>2, CostFacts
    <3>4. CostIn(U, n, d) <= v[d] + 1
      BY <3>3
    <3>5. CostIn(U, n, d) <= CostIn(U, s, d) + 1
      <4>1. /\ CostIn(U, s, d) = CostIn(T, s, d) /\ v[d] <= CostIn(T, s, d)
            /\ CostIn(T, s, d) \in 0..MaxCost /\ CostIn(U, n, d) \in 0..MaxCost
            /\ v[d] \in 0..MaxCost
        BY <2>5, <1>3, <1>4
      <4> HIDE DEF v, new
      <4>. QED
        BY <4>1, <3>4, MaxCostAssumption
    <3>. QED
      BY <3>5, <1>1, <1>7 DEF ToldOf
  <2>6. CASE d # s /\ v[d] <= CostIn(T, s, d) /\ v[d] = MaxCost
    <3>1. CostIn(U, n, d) <= CostIn(U, s, d) + 1
      BY <2>6, <1>4, MaxCostAssumption
    <3>. QED
      BY <3>1, <1>1, <1>7 DEF ToldOf
  <2>. QED
    BY <2>2, <2>3, <2>4, <2>5, <2>6
<1>8. CASE rest[c] # <<>>
  <2>1. q # <<>> /\ Newest(rest[c]) = Newest(q)
    <3>1. Tail(q) # <<>>
      BY <1>2, <1>8
    <3> HIDE DEF q, rest
    <3>. QED
      BY <3>1, <1>2, NewestOfTail
  <2>2. CostIn(U, c[2], d) <= CostIn(T, c[2], d) /\ CostIn(U, c[1], d) = CostIn(T, c[1], d)
    BY <1>1, <1>4
  <2> HIDE DEF c, v, rest, new
  <2>. QED
    BY <2>1, <2>2, <1>1, <1>6, <1>8, ToldStays
<1>. QED
  BY <1>7, <1>8

\* A neighbour stays one while costs fall.
LEMMA DirectIsKept ==
    ASSUME NEW T, NEW U, Sound(T), Sound(U), NEW n \in Addr, NEW m \in Addr,
           CostIn(U, n, m) <= CostIn(T, n, m), HasDirect(T[n], m)
    PROVE  HasDirect(U[n], m)
<1>1. TableOK(T[n], n) /\ TableOK(U[n], n)
  BY DEF Sound
<1>2. n # m
  BY <1>1 DEF TableOK, HasDirect, ToSet
<1>3. CostIn(T, n, m) = 1
  <2>1. FindFastestRoute(T[n][m]) = DirectRoute(m)
    BY <1>1, NeighboursAreDirect
  <2>. QED
    BY <2>1, <1>2 DEF CostIn, DirectRoute
<1>4. CostIn(U, n, m) = 1
  BY <1>2, <1>3, CostFacts, MaxCostAssumption
<1>5. m \in GetAllNeighbours(U[n])
  BY <1>2, <1>4 DEF GetAllNeighbours, CostIn
<1>. QED
  BY <1>1, <1>5, NeighboursAreDirect

\* A handler of n changes nothing that others have told.
LEMMA ToldAway ==
    ASSUME NEW T, NEW U, Sound(T), Sound(U), NEW n \in Addr,
           \A m \in Addr : m # n => U[m] = T[m],
           \A d \in Addr : CostIn(U, n, d) <= CostIn(T, n, d),
           NEW channels \in [Links -> Seq(Vector)], NEW after,
           NEW c \in Links, c[1] # n, after[c] = channels[c], Told(T, channels, c)
    PROVE  Told(U, after, c)
<1>1. c[1] \in Addr /\ c[2] \in Addr /\ U[c[1]] = T[c[1]]
  BY LinkEnds
<1>2. SUFFICES ASSUME HasDirect(T[c[1]], c[2]), NEW d \in Addr
               PROVE  ToldOf(U, after, c, d)
  BY <1>1 DEF Told
<1>3. ToldOf(T, channels, c, d)
  BY <1>2 DEF Told
<1>4. CostIn(U, c[1], d) = CostIn(T, c[1], d)
  BY <1>1 DEF CostIn
<1>5. CostIn(U, c[2], d) <= CostIn(T, c[2], d)
  <2>1. CASE c[2] = n
    BY <2>1
  <2>2. CASE c[2] # n
    <3>1. CostIn(U, c[2], d) = CostIn(T, c[2], d)
      BY <1>1, <2>2 DEF CostIn
    <3>2. CostIn(T, c[2], d) \in 0..MaxCost
      BY <1>1, CostFacts
    <3>. QED
      BY <3>1, <3>2, MaxCostAssumption
  <2>. QED
    BY <2>1, <2>2
<1>. QED
  BY <1>3, <1>4, <1>5, ToldStays

\* When no fastest cost has changed, nothing need be told.
LEMMA ToldUnsent ==
    ASSUME NEW T, NEW U, Sound(T), Sound(U), NEW n \in Addr,
           \A m \in Addr : m # n => U[m] = T[m],
           GetAllFastestRoutes(U[n]) = GetAllFastestRoutes(T[n]),
           NEW channels \in [Links -> Seq(Vector)], NEW after,
           NEW c \in Links, c[1] = n, after[c] = channels[c], Told(T, channels, c)
    PROVE  Told(U, after, c)
<1>1. c[1] \in Addr /\ c[2] \in Addr /\ c[1] # c[2]
  BY LinkEnds
<1>2. ASSUME NEW d \in Addr
      PROVE  FindFastestRoute(U[n][d]).cost = FindFastestRoute(T[n][d]).cost
  <2>1. GetAllFastestRoutes(U[n])[d] = GetAllFastestRoutes(T[n])[d]
    OBVIOUS
  <2>. QED
    BY <2>1 DEF GetAllFastestRoutes
<1>3. \A m, d \in Addr : CostIn(U, m, d) = CostIn(T, m, d) /\ CostIn(T, m, d) \in 0..MaxCost
  BY <1>2, CostFacts DEF CostIn
<1>4. SUFFICES ASSUME HasDirect(U[n], c[2]), NEW d \in Addr
               PROVE  ToldOf(U, after, c, d)
  BY DEF Told
<1>5. CostIn(T, n, c[2]) <= CostIn(U, n, c[2])
  BY <1>1, <1>3
<1>6. HasDirect(T[n], c[2])
  BY <1>1, <1>4, <1>5, DirectIsKept
<1>7. ToldOf(T, channels, c, d)
  BY <1>6 DEF Told
<1>8. /\ CostIn(U, c[2], d) <= CostIn(T, c[2], d)
      /\ CostIn(U, c[1], d) = CostIn(T, c[1], d)
  BY <1>1, <1>3, MaxCostAssumption
<1>. QED
  BY <1>7, <1>8, ToldStays

\* What WithUpdates adds is added to the cables of n, for neighbours.
LEMMA SentToNeighbours ==
    ASSUME NEW n \in Addr, NEW t, TableOK(t, n), NEW channels, NEW c \in Links
    PROVE  LET after == WithUpdates(n, t, channels)
           IN  \/ after[c] = channels[c]
               \/ c[1] = n /\ HasDirect(t, c[2])
<1>1. c[2] \in Addr
  BY LinkEnds
<1>. QED
  BY <1>1, NeighboursAreDirect DEF WithUpdates

LEMMA StepSilent ==
    ASSUME NoHop \notin Addr
    PROVE  IInv /\ CalmInv /\ SilentInv /\ Roomy /\ [PacedNext]_vars => SilentInv'
<1> SUFFICES ASSUME IInv, CalmInv, SilentInv, Roomy, [PacedNext]_vars, Orderly'
             PROVE  \A c \in Links :
                        /\ updates'[c] # <<>> => HasDirect(table'[c[1]], c[2])
                        /\ running'[c[1]] /\ running'[c[2]]
                                => Met(table', hellos', updates', c)
                        /\ Told(table', updates', c)
  BY DEF SilentInv
<1> DEFINE Good(c) == /\ updates'[c] # <<>> => HasDirect(table'[c[1]], c[2])
                      /\ running'[c[1]] /\ running'[c[2]]
                              => Met(table', hellos', updates', c)
                      /\ Told(table', updates', c)
<1>0. /\ Sound(table) /\ Sound(table')
      /\ TypeOK /\ updates \in [Links -> Seq(Vector)] /\ hellos \in SUBSET Links
      /\ running \in [Addr -> BOOLEAN] /\ faults \in Nat /\ overtakes \in Nat
  <2>1. IInv'
    BY PacedIsNext, StepIInv
  <2>. QED
    BY <2>1 DEF IInv, TypeOK, TablesOK, Sound
<1>1. Orderly
  BY <1>0, DisorderStays
<1>2. /\ links = Links
      /\ \A n \in Addr : ~running[n] => table[n] = EmptyTable
      /\ \A c \in Links : c \in hellos \/ updates[c] # <<>> => running[c[1]]
      /\ \A n, m \in Addr : HasDirect(table[n], m) => <<n, m>> \in Links /\ running[m]
      /\ Calm(table, updates)
  BY <1>1 DEF CalmInv
<1>3. ASSUME NEW c \in Links
      PROVE  /\ updates[c] # <<>> => HasDirect(table[c[1]], c[2])
             /\ running[c[1]] /\ running[c[2]] => Met(table, hellos, updates, c)
             /\ Told(table, updates, c)
             /\ Len(updates[c]) < UpdateCap
             /\ c[1] \in Addr /\ c[2] \in Addr /\ c[1] # c[2] /\ c = <<c[1], c[2]>>
             /\ Back(c) \in Links
  BY <1>1, LinkEnds, LinksAssumption DEF SilentInv, Roomy, Back
<1>4. /\ \A n, m \in Addr : HasDirect(table[n], m) => HasDirect(table'[n], m)
      /\ Descending(table')
      /\ \A n, d \in Addr : CostIn(table', n, d) <= CostIn(table, n, d)
  <2>1. CostsFall /\ CalmInv'
    BY StepCalm
  <2>2. Descending(table')
    BY <2>1 DEF CalmInv, Calm
  <2>. QED
    BY <2>1, <2>2, <1>0, DirectIsKept DEF CostsFall
<1>5. ASSUME NEW n \in Addr, Start(n), NEW c \in Links
      PROVE  Good(c)
  <2>1. /\ running' = [running EXCEPT ![n] = TRUE]
        /\ hellos' = hellos \union HellosFrom(n)
        /\ UNCHANGED <<updates, links>>
    BY <1>5 DEF Start
  <2>2. table' = table
    <3>1. table' = [table EXCEPT ![n] = table[n]]
      BY <1>2, <1>5 DEF Start
    <3>. QED
      BY <3>1, <1>0 DEF Sound
  <2>3. ASSUME running'[c[1]], running'[c[2]] PROVE Met(table', hellos', updates', c)
    <3>1. CASE c[1] = n
      BY <3>1, <2>1, <1>2 DEF HellosFrom, Met
    <3>2. CASE c[2] = n
      BY <3>2, <2>1, <1>2, <1>3 DEF HellosFrom, Met, Back
    <3>3. CASE c[1] # n /\ c[2] # n
      BY <3>3, <2>1, <2>2, <2>3, <1>0, <1>3 DEF Met
    <3>. QED
      BY <3>1, <3>2, <3>3
  <2>. QED
    BY <2>1, <2>2, <2>3, <1>3
<1>6. ASSUME NEW n \in Addr, SendHello(n) \/ PacedCheck(n), NEW c \in Links
      PROVE  Good(c)
  <2>1. table' = table /\ updates' = updates
    BY <1>1, <1>6, NobodySilent DEF SendHello
  <2>2. running' = running /\ hellos \subseteq hellos'
    BY <1>6 DEF SendHello, PacedCheck, CheckTimeouts
  <2>. QED
    BY <2>1, <2>2, <1>3 DEF Met
<1>7. ASSUME NEW n \in Addr, NEW s \in Addr, HandleHello(n, s), NEW c \in Links
      PROVE  Good(c)
  <2>1. /\ table'[n] = LearnNeighbour(table[n], s)
        /\ \A m \in Addr : m # n => table'[m] = table[m]
        /\ <<s, n>> \in Links /\ s # n /\ <<n, s>> \in Links
        /\ updates' = WithUpdates(n, table'[n], updates)
        /\ hellos' = hellos \ {<<s, n>>} /\ running' = running
    <3>1. <<s, n>> \in hellos /\ <<s, n>> \in Links
      BY <1>7, <1>0 DEF HandleHello
    <3>. QED
      BY <3>1, <1>7, <1>0, LinksAssumption DEF HandleHello, Sound
  <2>2. HasDirect(table'[n], s)
    BY <2>1, <1>0, LearnNeighbourFacts DEF Sound
  <2>3. TableOK(table'[n], n)
    BY <1>0 DEF Sound
  <2>4. ASSUME NEW e \in Links, e[1] = n, HasDirect(table'[n], e[2])
        PROVE  updates'[e] # <<>> /\ Told(table', updates', e)
    <3>1. Len(updates[e]) < UpdateCap
      BY <1>3
    <3>. QED
      BY <3>1, <2>1, <2>4, <1>0, <1>2, <1>4, ToldNow
  <2>5. \A e \in Links : \/ updates'[e] = updates[e]
                         \/ e[1] = n /\ HasDirect(table'[n], e[2])
    BY <2>1, <2>3, SentToNeighbours
  <2>6. updates'[c] # <<>> => HasDirect(table'[c[1]], c[2])
    BY <2>5, <1>3, <1>4
  <2>7. ASSUME running'[c[1]], running'[c[2]] PROVE Met(table', hellos', updates', c)
    <3>1. CASE c = <<n, s>>
      BY <3>1, <2>2 DEF Met
    <3>2. CASE c = <<s, n>>
      <4>1. updates'[<<n, s>>] # <<>>
        BY <2>1, <2>2, <2>4
      <4>. QED
        BY <4>1, <3>2 DEF Met, Back
    <3>3. CASE c # <<n, s>> /\ c # <<s, n>>
      <4>1. Met(table, hellos, updates, c)
        BY <2>1, <2>7, <1>3
      <4>2. Back(c) # <<s, n>>
        BY <3>3, <1>3 DEF Back
      <4>3. updates[Back(c)] # <<>> => updates'[Back(c)] # <<>>
        BY <2>4, <2>5, <1>3
      <4>. QED
        BY <4>1, <4>2, <4>3, <3>3, <2>1, <1>3, <1>4 DEF Met
    <3>. QED
      BY <3>1, <3>2, <3>3
  <2>8. Told(table', updates', c)
    <3>1. CASE c[1] = n
      BY <3>1, <2>4 DEF Told
    <3>2. CASE c[1] # n
      <4>1. updates'[c] = updates[c]
        BY <3>2, <2>5
      <4>2. \A d \in Addr : CostIn(table', n, d) <= CostIn(table, n, d)
        BY <1>4
      <4>3. Told(table, updates, c)
        BY <1>3
      <4>4. \A m \in Addr : m # n => table'[m] = table[m]
        BY <2>1
      <4>. QED
        BY <4>1, <4>2, <4>3, <4>4, <3>2, <1>0, ToldAway
    <3>. QED
      BY <3>1, <3>2
  <2>. QED
    BY <2>6, <2>7, <2>8
<1>8. ASSUME NEW n \in Addr, NEW s \in Addr, HandleUpdate(n, s), NEW c \in Links
      PROVE  Good(c)
  <2> DEFINE received == Head(updates[<<s, n>>])
             rest == [updates EXCEPT ![<<s, n>>] = Tail(@)]
  <2>1. /\ <<s, n>> \in Links /\ updates[<<s, n>>] # <<>> /\ s # n /\ <<n, s>> \in Links
        /\ UNCHANGED <<running, hellos>>
        /\ table'[n] = ApplyVector(table[n], s, received)
        /\ \A m \in Addr : m # n => table'[m] = table[m]
        /\ \/ updates' = WithUpdates(n, table'[n], rest)
           \/ /\ updates' = rest
              /\ GetAllFastestRoutes(table'[n]) = GetAllFastestRoutes(table[n])
    BY <1>8, <1>0, LinksAssumption DEF HandleUpdate, Pending, Sound, FastestRouteChanged
  <2>2. VectorOK(received, n) /\ rest \in [Links -> Seq(Vector)]
    BY <2>1, <1>0, TailOfChannel DEF IInv
  <2>3. HasDirect(table'[n], s)
    BY <2>1, <2>2, <1>0, ApplyVectorFacts DEF Sound
  <2>4. /\ \A e \in Links : e # <<s, n>> => rest[e] = updates[e]
        /\ Told(table', rest, <<s, n>>)
    <3>1. Told(table, updates, <<s, n>>)
      BY <2>1, <1>3
    <3>2. Told(table', rest, <<s, n>>)
      BY <3>1, <2>1, <2>2, <1>0, <1>4, ToldRead
    <3>. QED
      BY <3>2
  <2>5. \A e \in Links : Len(rest[e]) < UpdateCap
    <3>1. updates[<<s, n>>] \in Seq(Vector) /\ updates[<<s, n>>] # <<>>
      BY <2>1, <1>0
    <3>2. rest[<<s, n>>] = Tail(updates[<<s, n>>])
      BY <2>1, <1>0
    <3>3. Len(rest[<<s, n>>]) < Len(updates[<<s, n>>]) /\ Len(rest[<<s, n>>]) \in Nat
          /\ Len(updates[<<s, n>>]) \in Nat
      <4> HIDE DEF rest
      <4>. QED
        BY <3>1, <3>2
    <3>4. Len(rest[<<s, n>>]) < UpdateCap
      <4>1. Len(updates[<<s, n>>]) < UpdateCap
        BY <2>1, <1>3
      <4> HIDE DEF rest
      <4>. QED
        BY <4>1, <3>3, BoundsAssumption
    <3>. QED
      BY <3>4, <2>4, <1>3
  <2>6. TableOK(table'[n], n)
    BY <1>0 DEF Sound
  <2> HIDE DEF rest, received
  <2>7. \A e \in Links : \/ updates'[e] = rest[e]
                         \/ e[1] = n /\ HasDirect(table'[n], e[2])
    BY <2>1, <2>6, SentToNeighbours
  <2>8. updates'[c] # <<>> => HasDirect(table'[c[1]], c[2])
    <3>1. CASE c[1] = n /\ HasDirect(table'[n], c[2])
      BY <3>1
    <3>2. CASE updates'[c] = rest[c] /\ c = <<s, n>>
      <4>1. HasDirect(table[s], n)
        BY <2>1, <1>3
      <4>. QED
        BY <4>1, <3>2, <1>4
    <3>3. CASE updates'[c] = rest[c] /\ c # <<s, n>>
      BY <3>3, <2>4, <1>3, <1>4
    <3>. QED
      BY <3>1, <3>2, <3>3, <2>7
  <2>9. ASSUME running'[c[1]], running'[c[2]] PROVE Met(table', hellos', updates', c)
    <3>1. CASE c = <<n, s>>
      BY <3>1, <2>3 DEF Met
    <3>2. CASE c # <<n, s>>
      <4>1. Met(table, hellos, updates, c)
        BY <2>1, <2>9, <1>3
      <4>2. Back(c) # <<s, n>>
        BY <3>2, <1>3 DEF Back
      <4>3. updates[Back(c)] # <<>> => updates'[Back(c)] # <<>>
        <5>1. rest[Back(c)] = updates[Back(c)]
          BY <4>2, <2>4, <1>3
        <5>2. CASE updates' = rest
          BY <5>1, <5>2
        <5>3. CASE updates' = WithUpdates(n, table'[n], rest)
          <6>1. updates'[Back(c)] = rest[Back(c)]
                \/ updates'[Back(c)] = Append(rest[Back(c)],
                     GetAllFastestRoutesForNeighbour(table'[n], Back(c)[2]))
            BY <5>3, <1>3 DEF WithUpdates
          <6>2. rest[Back(c)] \in Seq(Vector)
            BY <1>3, <2>2
          <6>. QED
            BY <6>1, <6>2, <5>1
        <5>. QED
          BY <5>2, <5>3, <2>1
      <4>. QED
        BY <4>1, <4>3, <2>1, <1>3, <1>4 DEF Met
    <3>. QED
      BY <3>1, <3>2
  <2>10. Told(table', updates', c)
    <3>1. CASE c = <<s, n>>
      <4>1. updates'[c] = rest[c]
        BY <3>1, <2>1, <2>7
      <4>. QED
        BY <4>1, <3>1, <2>4 DEF Told, ToldOf
    <3>2. CASE c # <<s, n>> /\ c[1] # n
      <4>1. updates'[c] = updates[c]
        BY <3>2, <2>4, <2>7
      <4>2. \A d \in Addr : CostIn(table', n, d) <= CostIn(table, n, d)
        BY <1>4
      <4>3. Told(table, updates, c)
        BY <1>3
      <4>4. \A m \in Addr : m # n => table'[m] = table[m]
        BY <2>1
      <4>. QED
        BY <4>1, <4>2, <4>3, <4>4, <3>2, <1>0, ToldAway
    <3>3. CASE c[1] = n /\ updates' = WithUpdates(n, table'[n], rest)
      <4>1. SUFFICES ASSUME HasDirect(table'[n], c[2]) PROVE Told(table', updates', c)
        BY <3>3 DEF Told
      <4>2. Len(rest[c]) < UpdateCap
        BY <2>5
      <4>. QED
        BY <4>1, <4>2, <3>3, <2>2, <1>0, <1>2, <1>4, ToldNow
    <3>4. CASE /\ c[1] = n /\ updates' = rest
               /\ GetAllFastestRoutes(table'[n]) = GetAllFastestRoutes(table[n])
      <4>1. updates'[c] = updates[c]
        BY <3>4, <2>1, <2>4
      <4>. QED
        BY <4>1, <3>4, <2>1, <1>0, <1>3, ToldUnsent
    <3>. QED
      BY <3>1, <3>2, <3>3, <3>4, <2>1
  <2>. QED
    BY <2>8, <2>9, <2>10
<1>9. ASSUME NEW n \in Addr, NEW s \in Addr, Environment(n, s), NEW c \in Links
      PROVE  Good(c)
  <2>1. Discard(n, s) \/ Unroutable(n, s)
    BY <1>0, <1>1, <1>2, <1>9 DEF Environment, LoseHello, LoseUpdate, Overtake,
           LinkDown, LinkUp, Orderly
  <2>2. ~Unroutable(n, s)
    <3> SUFFICES ASSUME Unroutable(n, s) PROVE FALSE
      OBVIOUS
    <3>1. <<s, n>> \in Links /\ updates[<<s, n>>] # <<>>
      BY DEF Unroutable, Pending
    <3>2. HasDirect(table[<<s, n>>[1]], <<s, n>>[2]) /\ running[<<s, n>>[1]]
      BY <3>1, <1>2, <1>3
    <3>3. HasDirect(table[s], n) /\ running[s] /\ TableOK(table[s], s)
      BY <3>2, <1>0 DEF Sound
    <3>4. FindFastestRoute(table[s][n]) = DirectRoute(n)
      BY <3>3, NeighboursAreDirect
    <3>5. AnswerRequest(table[s], n) = n
      BY <3>4 DEF AnswerRequest, DirectRoute
    <3>. QED
      BY <3>3, <3>5 DEF Unroutable
  <2>3. /\ ~running[n] /\ UNCHANGED <<table, running>> /\ hellos \ {<<s, n>>} \subseteq hellos'
        /\ \/ updates' = updates
           \/ Pending(s, n)
    BY <2>1, <2>2 DEF Discard
  <2>4. updates' = updates
    <3> SUFFICES ASSUME <<s, n>> \in Links, updates[<<s, n>>] # <<>> PROVE FALSE
      BY <2>3 DEF Pending
    <3>1. HasDirect(table[<<s, n>>[1]], <<s, n>>[2])
      BY <1>3
    <3>. QED
      BY <3>1, <2>3, <1>2
  <2>5. ASSUME running[c[1]], running[c[2]] PROVE c # <<s, n>> /\ Back(c) # <<s, n>>
    BY <2>3, <2>5 DEF Back
  <2>. QED
    BY <2>3, <2>4, <2>5, <1>3 DEF Met
<1>10. ASSUME NEW n \in Addr, Crash(n)
       PROVE  FALSE
  BY <1>0, <1>1, <1>10 DEF Crash, Orderly
<1>11. ASSUME UNCHANGED vars, NEW c \in Links
       PROVE  Good(c)
  BY <1>11, <1>3 DEF vars
<1> HIDE DEF Good
<1>12. \A c \in Links : Good(c)
  BY <1>5, <1>6, <1>7, <1>8, <1>9, <1>10, <1>11 DEF PacedNext, QuietNext, Receive
<1>. QED
  BY <1>12 DEF Good

\* When nothing is under way, all neighbours have met and all is told, so that
\* costs differ by one at most; and each is some way through the network.
LEMMA SilentIsExact == IInv /\ CalmInv /\ SilentInv => SilenceIsExact
<1> SUFFICES ASSUME IInv, CalmInv, SilentInv, Orderly, Silent, NEW d \in Addr
             PROVE  AreDistances(d, [n \in Addr |-> CostTo(n, d)])
  BY DEF SilenceIsExact
<1> DEFINE cost == [n \in Addr |-> CostTo(n, d)]
<1>0. /\ Sound(table) /\ Descending(table) /\ links = Links
      /\ running \in [Addr -> BOOLEAN]
      /\ \A n \in Addr : ~running[n] => table[n] = EmptyTable
      /\ \A n, m \in Addr : HasDirect(table[n], m) => <<n, m>> \in Links /\ running[m]
  BY DEF CalmInv, Calm, IInv, TypeOK, TablesOK, Sound
<1>1. \A n \in Addr : cost[n] = CostIn(table, n, d) /\ cost[n] \in 0..MaxCost
  BY <1>0, CostFacts DEF CostTo, CostIn
<1>2. ASSUME NEW n \in Addr, running[n], NEW m \in LiveNeighbours(n)
      PROVE  cost[n] <= cost[m] + 1
  <2>1. m \in Addr /\ <<m, n>> \in Links /\ <<n, m>> \in Links /\ running[m]
    BY <1>0, LinksAssumption DEF LiveNeighbours
  <2> DEFINE c == <<m, n>>
  <2>2. /\ c \in Links /\ c[1] = m /\ c[2] = n
        /\ Met(table, hellos, updates, c) /\ Told(table, updates, c)
    BY <2>1, <1>2 DEF SilentInv
  <2>3. hellos = {} /\ updates[c] = <<>> /\ updates[Back(c)] = <<>>
    BY <2>1 DEF Silent, Back
  <2>4. HasDirect(table[m], n)
    BY <2>2, <2>3 DEF Met
  <2>5. ToldOf(table, updates, c, d)
    BY <2>2, <2>4 DEF Told
  <2>6. CostIn(table, n, d) <= CostIn(table, m, d) + 1
    BY <2>2, <2>3, <2>5 DEF ToldOf
  <2>. QED
    BY <2>1, <2>6, <1>1
<1>3. cost \in LiveBounds(d)
  <2>1. cost \in [Addr -> Cost] /\ cost[d] = 0
    BY <1>1 DEF Cost, CostIn
  <2>. QED
    BY <2>1, <1>2 DEF LiveBounds
<1>4. ASSUME NEW bound \in LiveBounds(d), NEW n \in Addr
      PROVE  bound[n] <= cost[n]
  <2>0. /\ bound[d] = 0 /\ \A m \in Addr : bound[m] \in 0..MaxCost
        /\ \A m \in Addr : running[m] =>
            \A h \in LiveNeighbours(m) : bound[m] <= bound[h] + 1
    BY DEF LiveBounds, Cost
  <2> HIDE DEF cost
  <2> DEFINE Wrong == {m \in Addr : cost[m] < bound[m]}
             costs == {cost[m] : m \in Wrong}
  <2>1. SUFFICES ASSUME Wrong # {} PROVE FALSE
    <3>1. n \notin Wrong
      BY <2>1
    <3>. QED
      BY <3>1, <2>0, <1>1, MaxCostAssumption
  <2>2. costs \in SUBSET Nat /\ costs # {}
    BY <2>1, <1>1, MaxCostAssumption
  <2>3. PICK least \in costs : \A x \in costs : least <= x
    <3> HIDE DEF costs
    <3>. QED
      BY <2>2, LeastNatural
  <2>4. PICK m \in Wrong : cost[m] = least
    BY <2>3
  <2> DEFINE f == FindFastestRoute(table[m][d])
             h == f.next_hop
  <2>5. m \in Addr /\ m # d /\ cost[m] < bound[m] /\ cost[m] < MaxCost
    BY <2>0, <2>4, <1>1, MaxCostAssumption
  <2>6. cost[m] = f.cost /\ f \in ToSet(table[m][d]) /\ f.cost < MaxCost
    BY <2>5, <1>0, <1>1, FastestOf, MaxCostAssumption
  <2>7. /\ h \in Addr /\ cost[h] < cost[m]
        /\ HasDirect(table[m], h)
    <3>1. f.next_hop \in Addr
      BY <2>5, <2>6, <1>0, CostFacts
    <3>2. CostIn(table, f.next_hop, d) < f.cost
      BY <2>5, <2>6, <1>0 DEF Descending
    <3>3. HasDirect(table[m], f.next_hop)
      BY <2>5, <2>6, <1>0 DEF Sound, TableOK
    <3>. QED
      BY <3>1, <3>2, <3>3, <2>6, <1>1
  <2> HIDE DEF f, h
  <2>8. h \in LiveNeighbours(m)
    BY <2>5, <2>7, <1>0 DEF LiveNeighbours
  <2>9. running[m]
    <3> SUFFICES ASSUME table[m] = EmptyTable PROVE FALSE
      BY <2>5, <1>0
    <3>1. table[m][h] = <<>>
      BY <2>7 DEF EmptyTable
    <3>. QED
      BY <3>1, <2>7 DEF HasDirect, ToSet
  <2>10. bound[m] <= bound[h] + 1
    BY <2>0, <2>5, <2>8, <2>9
  <2>11. h \in Wrong
    BY <2>0, <2>5, <2>7, <2>10, <1>1, MaxCostAssumption
  <2>12. least <= cost[h]
    BY <2>3, <2>11
  <2>. QED
    BY <2>4, <2>5, <2>7, <2>12, <1>1, MaxCostAssumption
<1>. QED
  BY <1>3, <1>4 DEF AreDistances

LEMMA InitSilent == Init => SilentInv
<1> SUFFICES ASSUME Init, NEW c \in Links
             PROVE  /\ updates[c] = <<>> /\ ~running[c[1]]
                    /\ ~HasDirect(table[c[1]], c[2])
  BY DEF SilentInv, Told
<1>1. c[1] \in Addr /\ c[2] \in Addr
  BY LinkEnds
<1>. QED
  BY <1>1 DEF Init, HasDirect, EmptyTable, ToSet
---------------------------------------------------------------------------
\* Every variable keeps its type, whatever the daemons and the network do.
THEOREM TypeCorrect == Spec => []TypeOK
BY Invariance, IInvImplies, PTL

\* No daemon ever holds a route to its own address.
THEOREM NeverRouteToSelf == Spec => []NoRouteToSelf
BY Invariance, IInvImplies, PTL

\* Every usable route goes through a present neighbour.
THEOREM UsableHopsAreNeighbours == Spec => []UsableHopIsNeighbour
BY Invariance, IInvImplies, PTL

\* Every neighbour is reached directly.
THEOREM NeighboursReachedDirectly == Spec => []NeighbourIsDirect
BY Invariance, IInvImplies, PTL

\* Where no node has the address zero, every answer to mipd names a present
\* neighbour, or says truly that no usable route is known.
THEOREM AnswersAreUsable ==
    ASSUME NoHop \notin Addr
    PROVE  Spec => []AnswerIsUsable
BY Invariance, IInvAnswer, PTL

\* Every check-in is that of a neighbour.
THEOREM CheckinsAreOfNeighbours == Spec => []CheckedInIsNeighbour
BY Invariance, IInvImplies, PTL

\* In every network no node believes in a path that is shorter than any there
\* is, nor in a way to a node to which no cables lead.
THEOREM NeverAShortcut == Spec => []NoShortcut
<1>1. Spec => [](IInv /\ ShortInv)
  BY InitIInv, StepIInv, InitShort, StepShort, PTL DEF Spec
<1>. QED
  BY <1>1, ShortInvImplies, PTL

\* As long as nothing is lost, cut, crashed or overtaken no packet is sent in a
\* circle, in any network.
THEOREM CalmNetworkLoopFree == ColdSpec => []CalmLoopFree
BY ColdInvariance, CalmInvImplies, PTL

\* As long as that is so no cost ever rises, in any network.
THEOREM CalmNetworkImproves == ColdSpec => CalmCostsFall
<1>1. IInv /\ CalmInv /\ [PacedNext]_vars =>
        [Orderly' => \A n, d \in Addr : CostTo(n, d)' <= CostTo(n, d)]_vars
  BY CalmCosts
<1>. QED
  BY <1>1, ColdInvariance, PTL DEF ColdSpec, CalmCostsFall

\* When any network in which nothing has been lost, cut, crashed or overtaken
\* falls silent, every daemon that is up knows the exact cost of each node, in
\* whatever order and at whatever time each was started.  Both conditions are
\* needed.  An UPDATE that a newer one overtakes while the ARP cache is cold
\* undoes it, and silence tells nobody: the next HELLO does.  And a node with
\* the address zero is taken for no node by its neighbours and never sent a
\* vector.  Roomy is a condition on the model alone: UpdateCap is any number,
\* and each finite run of the daemons is one of the model with a greater one.
THEOREM SilentNetworkIsExact ==
    ASSUME NoHop \notin Addr
    PROVE  ColdSpec /\ []Roomy => []SilenceIsExact
<1>1. Init => SilentInv
  BY InitSilent
<1>2. IInv /\ CalmInv /\ SilentInv /\ Roomy /\ [PacedNext]_vars => SilentInv'
  BY StepSilent
<1>3. IInv /\ CalmInv /\ SilentInv => SilenceIsExact
  BY SilentIsExact
<1>. QED
  BY <1>1, <1>2, <1>3, ColdInvariance, PTL DEF ColdSpec

\* The paced daemons are daemons: all that is said above holds of them.
THEOREM PacedIsSafe ==
    PacedSpec => [](/\ TypeOK /\ NoRouteToSelf /\ UsableHopIsNeighbour
                    /\ NeighbourIsDirect /\ CheckedInIsNeighbour
                    /\ NoShortcut /\ CalmLoopFree)
<1>1. PacedSpec => [](IInv /\ ShortInv /\ CalmInv)
  BY InitPaced, InitCalm, StepIInv, StepShort, StepCalm, PacedIsNext, PTL DEF PacedSpec
<1>. QED
  BY <1>1, IInvImplies, ShortInvImplies, CalmInvImplies, PTL
===========================================================================

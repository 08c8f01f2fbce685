--------------------------- MODULE MipdRelayProofs ---------------------------
(***************************************************************************)
(* The MIP daemons implement the network of Relay.tla: whatever the routes *)
(* are, and whichever frames are lost and routing daemons exit, a packet   *)
(* to one node is at one place at most, and has cables left to cross.      *)
(*                                                                         *)
(* The queues and cables of the network are seen as one function from      *)
(* places to sequences of packets.  A handler takes one packet from one    *)
(* place, and may put it at the end of another.                            *)
(***************************************************************************)
EXTENDS MipdProofs, FiniteSetTheorems, SequenceTheorems

\* What a place holds; an ARP frame carries no packet.
NoPacket == CHOOSE p : p \notin Packet
NoPdu == [id |-> NoPacket, ttl |-> 0]
Item == [id : Packet \union {NoPacket}, ttl : 0..MaxTtl]

Carried(f) == IF f.kind = "data" THEN f.pdu ELSE NoPdu
PdusOf(q) == [i \in 1..Len(q) |-> q[i].pdu]
CarriedBy(q) == [i \in 1..Len(q) |-> Carried(q[i])]

Place == ({"route", "arp"} \X Addr) \union ({"cable"} \X Links)
Route(n) == <<"route", n>>
Arp(n) == <<"arp", n>>
Cable(c) == <<"cable", c>>
NodeOf(x) == IF x[1] = "cable" THEN x[2][1] ELSE x[2]

ContentsOf(rq, aq, fr) ==
    [x \in Place |-> IF x[1] = "route" THEN rq[x[2]]
                     ELSE IF x[1] = "arp" THEN PdusOf(aq[x[2]])
                     ELSE CarriedBy(fr[x[2]])]
Contents == ContentsOf(route_queue, arp_queue, frames)

Has(q, p) == \E i \in 1..Len(q) : q[i].id = p
PlacesOf(V, p) == {x \in Place : Has(V[x], p)}

\* A packet with the time to live zero is not dropped: the next decrement
\* gives it the maximum.
CablesLeft(ttl) == IF ttl = 0 THEN MaxTtl + 1 ELSE ttl

\* There is one copy of p at most, which crosses at most b cables more.
Once(V, p) ==
    \A x, y \in Place : \A i \in 1..Len(V[x]), j \in 1..Len(V[y]) :
        V[x][i].id = p /\ V[y][j].id = p => x = y /\ i = j
Within(V, p, b) ==
    \A x \in Place : \A i \in 1..Len(V[x]) :
        V[x][i].id = p => CablesLeft(V[x][i].ttl) <= b

\* What happens to a queue or a cable, and to a place.
With(f, x, q) == [f EXCEPT ![x] = q]
Taken(V, x, k) == [V EXCEPT ![x] = RemoveAt(@, k)]
Put(V, x, e) == [V EXCEPT ![x] = Append(@, e)]

\* The packet of e is in x only, as e.
IsIn(V, x, e) ==
    /\ PlacesOf(V, e.id) = {x}
    /\ Once(V, e.id)
    /\ \A b \in Int : CablesLeft(e.ttl) <= b => Within(V, e.id, b)

\* Nothing happens to p.
Kept(V, W, p) ==
    /\ PlacesOf(W, p) = PlacesOf(V, p)
    /\ Once(V, p) => Once(W, p)
    /\ \A b \in Int : Within(V, p, b) => Within(W, p, b)
---------------------------------------------------------------------------
(* Sequences and places.                                                   *)

LEMMA RemoveAtFacts ==
    ASSUME NEW S, NEW q \in Seq(S), NEW k \in 1..Len(q)
    PROVE  /\ RemoveAt(q, k) \in Seq(S)
           /\ Len(q) \in Nat /\ Len(RemoveAt(q, k)) = Len(q) - 1
           /\ \A i \in 1..(Len(q) - 1) :
                  RemoveAt(q, k)[i] = IF i < k THEN q[i] ELSE q[i + 1]
<1> DEFINE a == SubSeq(q, 1, k - 1)
           b == SubSeq(q, k + 1, Len(q))
<1>1. Len(q) \in Nat /\ k \in Int /\ 1 <= k /\ k <= Len(q)
  OBVIOUS
<1>2. /\ a \in Seq(S) /\ Len(a) = k - 1
      /\ \A i \in 1..(k - 1) : a[i] = q[i]
  BY <1>1
<1>3. /\ b \in Seq(S) /\ Len(b) = Len(q) - k
      /\ \A i \in 1..(Len(q) - k) : b[i] = q[k + i]
  BY <1>1
<1>4. RemoveAt(q, k) = a \o b
  BY DEF RemoveAt
<1> HIDE DEF a, b
<1>5. /\ a \o b \in Seq(S) /\ Len(a \o b) = Len(a) + Len(b)
      /\ \A i \in 1..(Len(a) + Len(b)) :
             (a \o b)[i] = IF i <= Len(a) THEN a[i] ELSE b[i - Len(a)]
  BY <1>2, <1>3, ConcatProperties
<1>6. ASSUME NEW i \in 1..(Len(q) - 1)
      PROVE  (a \o b)[i] = IF i < k THEN q[i] ELSE q[i + 1]
  <2>1. i \in 1..(Len(a) + Len(b))
    BY <1>1, <1>2, <1>3
  <2>2. CASE i < k
    <3>1. i <= Len(a) /\ i \in 1..(k - 1)
      BY <1>1, <1>2, <2>2
    <3>. QED
      BY <1>2, <1>5, <2>1, <2>2, <3>1
  <2>3. CASE ~(i < k)
    <3>1. ~(i <= Len(a)) /\ i - Len(a) \in 1..(Len(q) - k) /\ k + (i - Len(a)) = i + 1
      BY <1>1, <1>2, <2>3
    <3>. QED
      BY <1>3, <1>5, <2>1, <2>3, <3>1
  <2>. QED
    BY <2>2, <2>3
<1>. QED
  BY <1>1, <1>2, <1>3, <1>4, <1>5, <1>6

LEMMA TailIsRemoveAt ==
    ASSUME NEW S, NEW q \in Seq(S), q # <<>>
    PROVE  Tail(q) = RemoveAt(q, 1)
<1>1. Len(q) \in Nat /\ Len(q) >= 1 /\ 1 \in 1..Len(q)
  OBVIOUS
<1>2. /\ RemoveAt(q, 1) \in Seq(S) /\ Len(RemoveAt(q, 1)) = Len(q) - 1
      /\ \A i \in 1..(Len(q) - 1) : RemoveAt(q, 1)[i] = q[i + 1]
  BY <1>1, RemoveAtFacts
<1>3. /\ Tail(q) \in Seq(S) /\ Len(Tail(q)) = Len(q) - 1
      /\ \A i \in 1..(Len(q) - 1) : Tail(q)[i] = q[i + 1]
  BY HeadTail
<1>4. ASSUME NEW x \in Seq(S), NEW y \in Seq(S), Len(x) = Len(y),
             \A i \in 1..Len(x) : x[i] = y[i]
      PROVE  x = y
  BY <1>4
<1>. QED
  BY <1>2, <1>3, <1>4

\* A place from which nothing about p is taken, and to which nothing is added.
LEMMA RemoveAtKeeps ==
    ASSUME NEW q \in Seq(Item), NEW k \in 1..Len(q), NEW p, p # q[k].id
    PROVE  /\ Has(RemoveAt(q, k), p) <=> Has(q, p)
           /\ \A i \in 1..Len(RemoveAt(q, k)) :
                  /\ (IF i < k THEN i ELSE i + 1) \in 1..Len(q)
                  /\ RemoveAt(q, k)[i] = q[IF i < k THEN i ELSE i + 1]
<1> DEFINE r == RemoveAt(q, k)
<1>1. /\ Len(q) \in Nat /\ Len(r) = Len(q) - 1
      /\ \A i \in 1..(Len(q) - 1) : r[i] = IF i < k THEN q[i] ELSE q[i + 1]
  BY RemoveAtFacts
<1> HIDE DEF r
<1>2. ASSUME NEW i \in 1..Len(r)
      PROVE  /\ (IF i < k THEN i ELSE i + 1) \in 1..Len(q)
             /\ r[i] = q[IF i < k THEN i ELSE i + 1]
  BY <1>1
<1>3. Has(r, p) => Has(q, p)
  BY <1>2 DEF Has
<1>4. ASSUME NEW i \in 1..Len(q), q[i].id = p PROVE Has(r, p)
  <2>1. i # k
    BY <1>4
  <2>2. CASE i < k
    <3>1. i \in 1..Len(r) /\ r[i] = q[i]
      BY <1>1, <2>2
    <3>. QED
      BY <1>4, <3>1 DEF Has
  <2>3. CASE i > k
    <3>1. i - 1 \in 1..Len(r) /\ ~(i - 1 < k) /\ (i - 1) + 1 = i
      BY <1>1, <2>3
    <3>2. r[i - 1] = q[i]
      BY <1>1, <3>1
    <3>. QED
      BY <1>4, <3>1, <3>2 DEF Has
  <2>. QED
    BY <2>1, <2>2, <2>3, <1>1
<1>5. Has(q, p) => Has(r, p)
  BY <1>4 DEF Has
<1>. QED
  BY <1>2, <1>3, <1>5 DEF r
---------------------------------------------------------------------------
(* What taking and putting a packet does to the packets.                   *)

Whole == [Place -> Seq(Item)]

LEMMA TakenType ==
    ASSUME NEW V \in Whole, NEW x \in Place, NEW k \in 1..Len(V[x])
    PROVE  /\ Taken(V, x, k) \in Whole
           /\ Taken(V, x, k)[x] = RemoveAt(V[x], k)
           /\ \A y \in Place : y # x => Taken(V, x, k)[y] = V[y]
           /\ V[x] \in Seq(Item) /\ V[x][k] \in Item
<1>1. V[x] \in Seq(Item)
  BY DEF Whole
<1>2. RemoveAt(V[x], k) \in Seq(Item) /\ V[x][k] \in Item
  BY <1>1, RemoveAtFacts
<1>. QED
  BY <1>1, <1>2 DEF Whole, Taken

LEMMA PutType ==
    ASSUME NEW V \in Whole, NEW x \in Place, NEW e \in Item
    PROVE  /\ Put(V, x, e) \in Whole
           /\ Put(V, x, e)[x] = Append(V[x], e)
           /\ \A y \in Place : y # x => Put(V, x, e)[y] = V[y]
           /\ V[x] \in Seq(Item)
<1>1. V[x] \in Seq(Item)
  BY DEF Whole
<1>2. Append(V[x], e) \in Seq(Item)
  BY <1>1
<1>. QED
  BY <1>1, <1>2 DEF Whole, Put

\* Each copy of p in W is one in V, and each place has p in both or in neither.
Traces(f, V, W, p) ==
    /\ \A x \in Place : Has(W[x], p) <=> Has(V[x], p)
    /\ \A x \in Place : \A i \in 1..Len(W[x]) :
           W[x][i].id = p => /\ f[x][i] \in 1..Len(V[x])
                             /\ W[x][i] = V[x][f[x][i]]
    /\ \A x \in Place : \A i, j \in 1..Len(W[x]) : f[x][i] = f[x][j] => i = j

LEMMA TracedIsKept ==
    ASSUME NEW V, NEW W, NEW p, NEW f, Traces(f, V, W, p) PROVE Kept(V, W, p)
<1>1. PlacesOf(W, p) = PlacesOf(V, p)
  BY DEF PlacesOf, Traces
<1>2. ASSUME Once(V, p), NEW x \in Place, NEW y \in Place,
             NEW i \in 1..Len(W[x]), NEW j \in 1..Len(W[y]),
             W[x][i].id = p, W[y][j].id = p
      PROVE  x = y /\ i = j
  <2>1. /\ f[x][i] \in 1..Len(V[x]) /\ V[x][f[x][i]].id = p
        /\ f[y][j] \in 1..Len(V[y]) /\ V[y][f[y][j]].id = p
    BY <1>2 DEF Traces
  <2>2. x = y /\ f[x][i] = f[y][j]
    BY <1>2, <2>1 DEF Once
  <2>. QED
    BY <2>2 DEF Traces
<1>3. ASSUME NEW b \in Int, Within(V, p, b), NEW x \in Place,
             NEW i \in 1..Len(W[x]), W[x][i].id = p
      PROVE  CablesLeft(W[x][i].ttl) <= b
  <2>1. f[x][i] \in 1..Len(V[x]) /\ W[x][i] = V[x][f[x][i]]
    BY <1>3 DEF Traces
  <2>2. CablesLeft(V[x][f[x][i]].ttl) <= b
    BY <1>3, <2>1 DEF Within
  <2>. QED
    BY <2>1, <2>2
<1>4. Once(V, p) => Once(W, p)
  BY <1>2 DEF Once
<1>5. \A b \in Int : Within(V, p, b) => Within(W, p, b)
  <2> SUFFICES ASSUME NEW b \in Int, Within(V, p, b) PROVE Within(W, p, b)
    OBVIOUS
  <2>1. \A x \in Place : \A i \in 1..Len(W[x]) :
            W[x][i].id = p => CablesLeft(W[x][i].ttl) <= b
    BY <1>3
  <2>. QED
    BY <2>1 DEF Within
<1>. QED
  BY <1>1, <1>4, <1>5 DEF Kept

LEMMA TakenKeeps ==
    ASSUME NEW V \in Whole, NEW x \in Place, NEW k \in 1..Len(V[x]),
           NEW p, p # V[x][k].id
    PROVE  Kept(V, Taken(V, x, k), p)
<1> DEFINE W == Taken(V, x, k)
           f == [y \in Place |-> [i \in Nat |-> IF y # x \/ i < k THEN i ELSE i + 1]]
<1>1. /\ W[x] = RemoveAt(V[x], k) /\ V[x] \in Seq(Item)
      /\ \A y \in Place : y # x => W[y] = V[y]
      /\ \A y \in Place : V[y] \in Seq(Item) /\ W[y] \in Seq(Item)
  BY TakenType DEF Whole
<1>2. \A y \in Place : Len(W[y]) \in Nat /\ Len(V[y]) \in Nat
  BY <1>1
<1> HIDE DEF W
<1>3. /\ Has(W[x], p) <=> Has(V[x], p)
      /\ \A i \in 1..Len(W[x]) : /\ (IF i < k THEN i ELSE i + 1) \in 1..Len(V[x])
                                 /\ W[x][i] = V[x][IF i < k THEN i ELSE i + 1]
  BY <1>1, RemoveAtKeeps
<1>4. \A y \in Place, i \in Nat : f[y][i] = IF y # x \/ i < k THEN i ELSE i + 1
  OBVIOUS
<1> HIDE DEF f
<1>5. \A y \in Place : Has(W[y], p) <=> Has(V[y], p)
  BY <1>1, <1>3
<1>6. ASSUME NEW y \in Place, NEW i \in 1..Len(W[y])
      PROVE  f[y][i] \in 1..Len(V[y]) /\ W[y][i] = V[y][f[y][i]]
  <2>1. i \in Nat
    BY <1>2
  <2>2. CASE y = x
    <3>1. f[y][i] = IF i < k THEN i ELSE i + 1
      BY <1>4, <2>1, <2>2
    <3>. QED
      BY <1>3, <2>2, <3>1
  <2>3. CASE y # x
    <3>1. f[y][i] = i
      BY <1>4, <2>1, <2>3
    <3>. QED
      BY <1>1, <2>3, <3>1
  <2>. QED
    BY <2>2, <2>3
<1>7. ASSUME NEW y \in Place, NEW i \in 1..Len(W[y]), NEW j \in 1..Len(W[y]),
             f[y][i] = f[y][j]
      PROVE  i = j
  <2>1. i \in Nat /\ j \in Nat /\ k \in Nat
    BY <1>1, <1>2
  <2>2. f[y][i] = (IF y # x \/ i < k THEN i ELSE i + 1)
        /\ f[y][j] = (IF y # x \/ j < k THEN j ELSE j + 1)
    BY <1>4, <2>1
  <2>3. CASE y # x
    BY <1>7, <2>2, <2>3
  <2>4. CASE y = x
    <3>1. /\ f[y][i] = i \/ f[y][i] = i + 1
          /\ f[y][i] = i <=> i < k
          /\ f[y][j] = j \/ f[y][j] = j + 1
          /\ f[y][j] = j <=> j < k
      BY <2>1, <2>2, <2>4
    <3>. QED
      BY <1>7, <2>1, <3>1
  <2>. QED
    BY <2>3, <2>4
<1>8. Traces(f, V, W, p)
  BY <1>5, <1>6, <1>7 DEF Traces
<1>9. Kept(V, W, p)
  BY <1>8, TracedIsKept
<1>. QED
  BY <1>9 DEF W

LEMMA TakenIsGone ==
    ASSUME NEW V \in Whole, NEW x \in Place, NEW k \in 1..Len(V[x]),
           Once(V, V[x][k].id)
    PROVE  /\ PlacesOf(V, V[x][k].id) = {x}
           /\ PlacesOf(Taken(V, x, k), V[x][k].id) = {}
<1> DEFINE W == Taken(V, x, k)
           p == V[x][k].id
<1>1. /\ W[x] = RemoveAt(V[x], k) /\ V[x] \in Seq(Item)
      /\ \A y \in Place : y # x => W[y] = V[y]
  BY TakenType
<1> HIDE DEF W
<1>2. /\ Len(V[x]) \in Nat /\ Len(W[x]) = Len(V[x]) - 1
      /\ \A i \in 1..(Len(V[x]) - 1) : W[x][i] = IF i < k THEN V[x][i] ELSE V[x][i + 1]
  <2>1. /\ Len(V[x]) \in Nat /\ Len(RemoveAt(V[x], k)) = Len(V[x]) - 1
        /\ \A i \in 1..(Len(V[x]) - 1) :
               RemoveAt(V[x], k)[i] = IF i < k THEN V[x][i] ELSE V[x][i + 1]
    BY <1>1, RemoveAtFacts
  <2>. QED
    BY <1>1, <2>1
<1>3. \A y \in Place : \A i \in 1..Len(V[y]) : V[y][i].id = p => y = x /\ i = k
  BY DEF Once
<1>4. V[x][k].id = p
  OBVIOUS
<1> HIDE DEF p
<1>5. PlacesOf(V, p) = {x}
  BY <1>3, <1>4 DEF PlacesOf, Has
<1>6. ASSUME NEW y \in Place, NEW i \in 1..Len(W[y]), W[y][i].id = p PROVE FALSE
  <2>1. CASE y # x
    BY <1>1, <1>3, <1>6, <2>1
  <2>2. CASE y = x /\ i < k
    <3>1. i \in 1..(Len(V[x]) - 1) /\ i \in 1..Len(V[x]) /\ i # k
      BY <1>2, <2>2
    <3>. QED
      BY <1>2, <1>3, <1>6, <2>2, <3>1
  <2>3. CASE y = x /\ ~(i < k)
    <3>1. i \in 1..(Len(V[x]) - 1) /\ i + 1 \in 1..Len(V[x]) /\ i + 1 # k
      BY <1>2, <2>3
    <3>. QED
      BY <1>2, <1>3, <1>6, <2>3, <3>1
  <2>. QED
    BY <2>1, <2>2, <2>3
<1>7. PlacesOf(W, p) = {}
  BY <1>6 DEF PlacesOf, Has
<1>. QED
  BY <1>5, <1>7 DEF W, p

\* What is put at the end of a place is about another packet, if about any.
Noise(V, W, p) ==
    \A x \in Place : \/ W[x] = V[x]
                     \/ \E e \in Item : e.id # p /\ W[x] = Append(V[x], e)

LEMMA NoiseKeeps ==
    ASSUME NEW V \in Whole, NEW W, NEW p, Noise(V, W, p)
    PROVE  Kept(V, W, p)
<1> DEFINE f == [y \in Place |-> [i \in Nat |-> i]]
<1>1. ASSUME NEW x \in Place
      PROVE  /\ Has(W[x], p) <=> Has(V[x], p)
             /\ \A i \in 1..Len(W[x]) :
                    /\ i \in Nat
                    /\ W[x][i].id = p => i \in 1..Len(V[x]) /\ W[x][i] = V[x][i]
  <2>1. V[x] \in Seq(Item) /\ Len(V[x]) \in Nat
    BY DEF Whole
  <2>2. CASE W[x] = V[x]
    BY <2>1, <2>2
  <2>3. CASE \E e \in Item : e.id # p /\ W[x] = Append(V[x], e)
    <3>1. PICK e \in Item : e.id # p /\ W[x] = Append(V[x], e)
      BY <2>3
    <3>2. /\ Len(W[x]) = Len(V[x]) + 1 /\ W[x][Len(V[x]) + 1] = e
          /\ \A i \in 1..Len(V[x]) : W[x][i] = V[x][i]
      BY <2>1, <3>1, AppendFacts
    <3>3. \A i \in 1..Len(W[x]) :
              i \in Nat /\ (W[x][i].id = p => i \in 1..Len(V[x]) /\ W[x][i] = V[x][i])
      BY <2>1, <3>1, <3>2
    <3>4. 1..Len(V[x]) \subseteq 1..Len(W[x])
      BY <2>1, <3>2
    <3>. QED
      BY <3>2, <3>3, <3>4 DEF Has
  <2>. QED
    BY <2>2, <2>3, <1>1 DEF Noise
<1>2. \A x \in Place, i \in Nat : f[x][i] = i
  OBVIOUS
<1> HIDE DEF f
<1>3. Traces(f, V, W, p)
  BY <1>1, <1>2 DEF Traces
<1>. QED
  BY <1>3, TracedIsKept

LEMMA PutKeeps ==
    ASSUME NEW V \in Whole, NEW x \in Place, NEW e \in Item, NEW p, p # e.id
    PROVE  Kept(V, Put(V, x, e), p)
<1>1. /\ Put(V, x, e)[x] = Append(V[x], e)
      /\ \A y \in Place : y # x => Put(V, x, e)[y] = V[y]
  BY PutType
<1>2. Noise(V, Put(V, x, e), p)
  BY <1>1 DEF Noise
<1>. QED
  BY <1>2, NoiseKeeps

LEMMA PutIsThere ==
    ASSUME NEW V \in Whole, NEW x \in Place, NEW e \in Item, PlacesOf(V, e.id) = {}
    PROVE  IsIn(Put(V, x, e), x, e)
<1> DEFINE W == Put(V, x, e)
           p == e.id
<1>1. /\ W[x] = Append(V[x], e) /\ V[x] \in Seq(Item)
      /\ \A y \in Place : y # x => W[y] = V[y]
  BY PutType
<1>2. /\ Len(V[x]) \in Nat /\ Len(W[x]) = Len(V[x]) + 1 /\ W[x][Len(V[x]) + 1] = e
      /\ \A i \in 1..Len(V[x]) : W[x][i] = V[x][i]
  BY <1>1, AppendFacts
<1>3. \A y \in Place : \A i \in 1..Len(V[y]) : V[y][i].id # p
  BY DEF PlacesOf, Has
<1>4. e.id = p
  OBVIOUS
<1> HIDE DEF W, p
<1>5. ASSUME NEW y \in Place, NEW i \in 1..Len(W[y]), W[y][i].id = p
      PROVE  y = x /\ i = Len(V[x]) + 1 /\ W[y][i] = e
  <2>1. y = x
    BY <1>1, <1>3, <1>5
  <2>2. ~(i \in 1..Len(V[x]))
    BY <1>2, <1>3, <1>5, <2>1
  <2>3. i = Len(V[x]) + 1
    BY <1>2, <2>1, <2>2
  <2>. QED
    BY <1>2, <2>1, <2>3
<1>6. Len(V[x]) + 1 \in 1..Len(W[x])
  BY <1>2
<1>7. PlacesOf(W, p) = {x}
  BY <1>2, <1>4, <1>5, <1>6 DEF PlacesOf, Has
<1>8. Once(W, p)
  BY <1>5 DEF Once
<1>9. \A b \in Int : CablesLeft(e.ttl) <= b => Within(W, p, b)
  BY <1>5 DEF Within
<1>. QED
  BY <1>7, <1>8, <1>9 DEF W, p, IsIn

LEMMA KeptTwice ==
    ASSUME NEW U, NEW V, NEW W, NEW p, Kept(U, V, p), Kept(V, W, p)
    PROVE  Kept(U, W, p)
<1>. QED
  BY DEF Kept

LEMMA NowhereIsGood ==
    ASSUME NEW V, NEW p, PlacesOf(V, p) = {}
    PROVE  Once(V, p) /\ \A b \in Int : Within(V, p, b)
<1>1. \A x \in Place : \A i \in 1..Len(V[x]) : V[x][i].id # p
  BY DEF PlacesOf, Has
<1>. QED
  BY <1>1 DEF Once, Within

\* A packet changes places.
LEMMA Moves ==
    ASSUME NEW V \in Whole, NEW x \in Place, NEW k \in 1..Len(V[x]),
           NEW y \in Place, NEW e \in Item, e.id = V[x][k].id
    PROVE  /\ Taken(V, x, k) \in Whole /\ Put(Taken(V, x, k), y, e) \in Whole
           /\ \A p : p # e.id => Kept(V, Put(Taken(V, x, k), y, e), p)
           /\ Once(V, e.id)
                => PlacesOf(V, e.id) = {x} /\ IsIn(Put(Taken(V, x, k), y, e), y, e)
<1> DEFINE W == Taken(V, x, k)
<1>1. W \in Whole
  BY TakenType
<1>2. Put(W, y, e) \in Whole
  BY <1>1, PutType
<1>3. ASSUME NEW p, p # e.id PROVE Kept(V, Put(W, y, e), p)
  <2>1. Kept(V, W, p)
    BY <1>3, TakenKeeps
  <2> HIDE DEF W
  <2>2. Kept(W, Put(W, y, e), p)
    BY <1>1, <1>3, PutKeeps
  <2>. QED
    BY <2>1, <2>2, KeptTwice
<1>4. ASSUME Once(V, e.id) PROVE PlacesOf(V, e.id) = {x} /\ PlacesOf(W, e.id) = {}
  <2>1. Once(V, V[x][k].id)
    BY <1>4
  <2>2. PlacesOf(V, V[x][k].id) = {x} /\ PlacesOf(W, V[x][k].id) = {}
    BY <2>1, TakenIsGone
  <2>. QED
    BY <2>2
<1> HIDE DEF W
<1>5. Once(V, e.id) => IsIn(Put(W, y, e), y, e)
  BY <1>1, <1>4, PutIsThere
<1>. QED
  BY <1>1, <1>2, <1>3, <1>4, <1>5 DEF W
---------------------------------------------------------------------------
(* The queues and cables as places.                                        *)

LEMMA ItemFacts ==
    /\ Pdu \subseteq Item /\ QueuedPdu \subseteq Item /\ NoPdu \in Item
    /\ NoPacket \notin Packet
    /\ \A p \in ToOneNode : p # NoPacket /\ p # NoPdu.id
    /\ \A f \in Frame : Carried(f) \in Item
    /\ \A pdu \in Pdu : Carried(Data(pdu)) = pdu
    /\ \A n \in Addr : Carried(ArpRequest(n)) = NoPdu /\ Carried(ArpResponse(n)) = NoPdu
<1>1. NoPacket \notin Packet
  BY NoSetContainsEverything DEF NoPacket
<1>2. 0 \in 0..MaxTtl
  BY PacketAssumption
<1>3. Pdu \subseteq Item /\ NoPdu \in Item
  BY <1>2 DEF Pdu, Item, NoPdu
<1>4. QueuedPdu \subseteq Item
  BY <1>3, PduFacts
<1>5. \A p \in ToOneNode : p # NoPacket /\ p # NoPdu.id
  BY <1>1 DEF ToOneNode, NoPdu
<1>6. \A f \in Frame : Carried(f) \in Item
  <2> SUFFICES ASSUME NEW f \in Frame PROVE Carried(f) \in Item
    OBVIOUS
  <2>1. CASE f.kind = "data"
    BY <1>3, <2>1, FrameFacts DEF Carried
  <2>2. CASE f.kind # "data"
    BY <1>3, <2>2 DEF Carried
  <2>. QED
    BY <2>1, <2>2
<1>7. /\ \A pdu \in Pdu : Carried(Data(pdu)) = pdu
      /\ \A n \in Addr : Carried(ArpRequest(n)) = NoPdu /\ Carried(ArpResponse(n)) = NoPdu
  BY DEF Carried, Data, ArpRequest, ArpResponse
<1>. QED
  BY <1>1, <1>3, <1>4, <1>5, <1>6, <1>7

LEMMA PdusOfType ==
    ASSUME NEW q \in Seq(QueuedWaiting)
    PROVE  /\ PdusOf(q) \in Seq(Item) /\ Len(PdusOf(q)) = Len(q) /\ Len(q) \in Nat
           /\ \A i \in 1..Len(q) : PdusOf(q)[i] = q[i].pdu /\ q[i].pdu \in QueuedPdu
<1>1. \A i \in 1..Len(q) : q[i] \in QueuedWaiting
  OBVIOUS
<1>2. \A i \in 1..Len(q) : q[i].pdu \in QueuedPdu /\ q[i].pdu \in Item
  BY <1>1, PduFacts, ItemFacts
<1>3. Len(q) \in Nat
  OBVIOUS
<1>. QED
  BY <1>2, <1>3 DEF PdusOf

LEMMA CarriedByType ==
    ASSUME NEW q \in Seq(Frame)
    PROVE  /\ CarriedBy(q) \in Seq(Item) /\ Len(CarriedBy(q)) = Len(q) /\ Len(q) \in Nat
           /\ \A i \in 1..Len(q) : CarriedBy(q)[i] = Carried(q[i])
<1>1. \A i \in 1..Len(q) : Carried(q[i]) \in Item
  BY ItemFacts
<1>2. Len(q) \in Nat
  OBVIOUS
<1>. QED
  BY <1>1, <1>2 DEF CarriedBy

LEMMA PdusOfAppend ==
    ASSUME NEW q \in Seq(QueuedWaiting), NEW w \in QueuedWaiting
    PROVE  PdusOf(Append(q, w)) = Append(PdusOf(q), w.pdu)
<1> DEFINE x == PdusOf(Append(q, w))
           y == Append(PdusOf(q), w.pdu)
           a == Append(q, w)
           s == PdusOf(q)
<1>1. /\ a \in Seq(QueuedWaiting) /\ Len(a) = Len(q) + 1 /\ a[Len(q) + 1] = w
      /\ \A i \in 1..Len(q) : a[i] = q[i]
  BY AppendFacts
<1>2. /\ s \in Seq(Item) /\ Len(s) = Len(q) /\ Len(q) \in Nat
      /\ \A i \in 1..Len(q) : s[i] = q[i].pdu
  BY PdusOfType
<1>3. w.pdu \in Item
  BY PduFacts, ItemFacts
<1> HIDE DEF a, s
<1>4. /\ x \in Seq(Item) /\ Len(x) = Len(q) + 1
      /\ \A i \in 1..(Len(q) + 1) : x[i] = a[i].pdu
  <2>1. /\ PdusOf(a) \in Seq(Item) /\ Len(PdusOf(a)) = Len(a)
        /\ \A i \in 1..Len(a) : PdusOf(a)[i] = a[i].pdu
    BY <1>1, PdusOfType
  <2>2. x = PdusOf(a)
    BY DEF a
  <2>. QED
    BY <2>1, <2>2, <1>1
<1>5. /\ y \in Seq(Item) /\ Len(y) = Len(q) + 1 /\ y[Len(q) + 1] = w.pdu
      /\ \A i \in 1..Len(q) : y[i] = s[i]
  <2>1. /\ Append(s, w.pdu) \in Seq(Item) /\ Len(Append(s, w.pdu)) = Len(s) + 1
        /\ Append(s, w.pdu)[Len(s) + 1] = w.pdu
        /\ \A i \in 1..Len(s) : Append(s, w.pdu)[i] = s[i]
    BY <1>2, <1>3, AppendFacts
  <2>2. y = Append(s, w.pdu)
    BY DEF s
  <2>. QED
    BY <2>1, <2>2, <1>2
<1> HIDE DEF x, y
<1>6. ASSUME NEW i \in 1..(Len(q) + 1) PROVE x[i] = y[i]
  <2>1. CASE i \in 1..Len(q)
    BY <2>1, <1>1, <1>2, <1>4, <1>5
  <2>2. CASE i = Len(q) + 1
    BY <2>2, <1>1, <1>4, <1>5
  <2>. QED
    BY <2>1, <2>2, <1>2
<1>7. x = y
  BY <1>4, <1>5, <1>6, SeqEqual
<1>. QED
  BY <1>7 DEF x, y

LEMMA PdusOfRemoveAt ==
    ASSUME NEW q \in Seq(QueuedWaiting), NEW k \in 1..Len(q)
    PROVE  PdusOf(RemoveAt(q, k)) = RemoveAt(PdusOf(q), k)
<1> DEFINE r == RemoveAt(q, k)
           s == PdusOf(q)
           x == PdusOf(r)
           y == RemoveAt(s, k)
<1>1. /\ r \in Seq(QueuedWaiting) /\ Len(r) = Len(q) - 1 /\ Len(q) \in Nat
      /\ \A i \in 1..(Len(q) - 1) : r[i] = IF i < k THEN q[i] ELSE q[i + 1]
  BY RemoveAtFacts
<1>2. /\ s \in Seq(Item) /\ Len(s) = Len(q)
      /\ \A i \in 1..Len(q) : s[i] = q[i].pdu
  BY PdusOfType
<1> HIDE DEF r, s
<1>3. /\ x \in Seq(Item) /\ Len(x) = Len(q) - 1
      /\ \A i \in 1..(Len(q) - 1) : x[i] = r[i].pdu
  BY <1>1, PdusOfType
<1>4. /\ y \in Seq(Item) /\ Len(y) = Len(q) - 1
      /\ \A i \in 1..(Len(q) - 1) : y[i] = IF i < k THEN s[i] ELSE s[i + 1]
  BY <1>2, RemoveAtFacts
<1> HIDE DEF x, y
<1>5. ASSUME NEW i \in 1..(Len(q) - 1) PROVE x[i] = y[i]
  <2>1. i \in 1..Len(q) /\ i + 1 \in 1..Len(q)
    BY <1>1
  <2>2. s[i] = q[i].pdu /\ s[i + 1] = q[i + 1].pdu
    BY <1>2, <2>1
  <2>. QED
    BY <1>1, <1>3, <1>4, <2>2
<1>6. x = y
  BY <1>3, <1>4, <1>5, SeqEqual
<1>. QED
  BY <1>6 DEF x, y, r, s

LEMMA CarriedByAppend ==
    ASSUME NEW q \in Seq(Frame), NEW f \in Frame
    PROVE  CarriedBy(Append(q, f)) = Append(CarriedBy(q), Carried(f))
<1> DEFINE a == Append(q, f)
           s == CarriedBy(q)
           x == CarriedBy(a)
           y == Append(s, Carried(f))
<1>1. /\ a \in Seq(Frame) /\ Len(a) = Len(q) + 1 /\ a[Len(q) + 1] = f
      /\ \A i \in 1..Len(q) : a[i] = q[i]
  BY AppendFacts
<1>2. /\ s \in Seq(Item) /\ Len(s) = Len(q) /\ Len(q) \in Nat
      /\ \A i \in 1..Len(q) : s[i] = Carried(q[i])
  BY CarriedByType
<1>3. Carried(f) \in Item
  BY ItemFacts
<1> HIDE DEF a, s
<1>4. /\ x \in Seq(Item) /\ Len(x) = Len(q) + 1
      /\ \A i \in 1..(Len(q) + 1) : x[i] = Carried(a[i])
  BY <1>1, CarriedByType
<1>5. /\ y \in Seq(Item) /\ Len(y) = Len(q) + 1 /\ y[Len(q) + 1] = Carried(f)
      /\ \A i \in 1..Len(q) : y[i] = s[i]
  BY <1>2, <1>3, AppendFacts
<1> HIDE DEF x, y
<1>6. ASSUME NEW i \in 1..(Len(q) + 1) PROVE x[i] = y[i]
  <2>1. CASE i \in 1..Len(q)
    BY <2>1, <1>1, <1>2, <1>4, <1>5
  <2>2. CASE i = Len(q) + 1
    BY <2>2, <1>1, <1>4, <1>5
  <2>. QED
    BY <2>1, <2>2, <1>2
<1>7. x = y
  BY <1>4, <1>5, <1>6, SeqEqual
<1>. QED
  BY <1>7 DEF x, y, a, s

LEMMA CarriedByTail ==
    ASSUME NEW q \in Seq(Frame), q # <<>>
    PROVE  CarriedBy(Tail(q)) = RemoveAt(CarriedBy(q), 1) /\ 1 \in 1..Len(q)
<1> DEFINE t == Tail(q)
           s == CarriedBy(q)
           x == CarriedBy(t)
           y == RemoveAt(s, 1)
<1>1. /\ t \in Seq(Frame) /\ Len(t) = Len(q) - 1 /\ Len(q) \in Nat /\ Len(q) >= 1
      /\ \A i \in 1..(Len(q) - 1) : t[i] = q[i + 1]
  BY HeadTail
<1>2. /\ s \in Seq(Item) /\ Len(s) = Len(q)
      /\ \A i \in 1..Len(q) : s[i] = Carried(q[i])
  BY CarriedByType
<1> HIDE DEF t, s
<1>3. 1 \in 1..Len(q)
  BY <1>1
<1>4. /\ x \in Seq(Item) /\ Len(x) = Len(q) - 1
      /\ \A i \in 1..(Len(q) - 1) : x[i] = Carried(t[i])
  BY <1>1, CarriedByType
<1>5. /\ y \in Seq(Item) /\ Len(y) = Len(q) - 1
      /\ \A i \in 1..(Len(q) - 1) : y[i] = s[i + 1]
  BY <1>2, <1>3, RemoveAtFacts
<1> HIDE DEF x, y
<1>6. ASSUME NEW i \in 1..(Len(q) - 1) PROVE x[i] = y[i]
  <2>1. i + 1 \in 1..Len(q)
    BY <1>1
  <2>. QED
    BY <2>1, <1>1, <1>2, <1>4, <1>5
<1>7. x = y
  BY <1>4, <1>5, <1>6, SeqEqual
<1>. QED
  BY <1>3, <1>7 DEF x, y, t, s

LEMMA PlaceFacts ==
    /\ \A n \in Addr : Route(n) \in Place /\ Arp(n) \in Place
    /\ \A c \in Links : Cable(c) \in Place
    /\ \A x \in Place : \/ \E n \in Addr : x = Route(n)
                        \/ \E n \in Addr : x = Arp(n)
                        \/ \E c \in Links : x = Cable(c)
    /\ \A m, n, c : Route(m) # Arp(n) /\ Route(m) # Cable(c) /\ Arp(m) # Cable(c)
    /\ \A m, n : Route(m) = Route(n) \/ Arp(m) = Arp(n) \/ Cable(m) = Cable(n) => m = n
    /\ \A n : NodeOf(Route(n)) = n /\ NodeOf(Arp(n)) = n
    /\ \A c : NodeOf(Cable(c)) = c[1]
<1>1. ASSUME NEW x \in Place
      PROVE  \/ \E n \in Addr : x = Route(n)
             \/ \E n \in Addr : x = Arp(n)
             \/ \E c \in Links : x = Cable(c)
  <2>1. CASE x \in {"route", "arp"} \X Addr
    <3>1. x = <<x[1], x[2]>> /\ x[1] \in {"route", "arp"} /\ x[2] \in Addr
      BY <2>1
    <3>. QED
      BY <3>1 DEF Route, Arp
  <2>2. CASE x \in {"cable"} \X Links
    <3>1. x = <<x[1], x[2]>> /\ x[1] = "cable" /\ x[2] \in Links
      BY <2>2
    <3>. QED
      BY <3>1 DEF Cable
  <2>. QED
    BY <2>1, <2>2 DEF Place
<1>2. /\ \A n \in Addr : Route(n) \in Place /\ Arp(n) \in Place
      /\ \A c \in Links : Cable(c) \in Place
  BY DEF Place, Route, Arp, Cable
<1>3. /\ \A m, n, c : Route(m) # Arp(n) /\ Route(m) # Cable(c) /\ Arp(m) # Cable(c)
      /\ \A m, n : Route(m) = Route(n) \/ Arp(m) = Arp(n) \/ Cable(m) = Cable(n) => m = n
  BY DEF Route, Arp, Cable
<1>4. /\ \A n : NodeOf(Route(n)) = n /\ NodeOf(Arp(n)) = n
      /\ \A c : NodeOf(Cable(c)) = c[1]
  BY DEF NodeOf, Route, Arp, Cable
<1>. QED
  BY <1>1, <1>2, <1>3, <1>4

LEMMA ContentsFacts ==
    ASSUME NEW rq \in [Addr -> Seq(QueuedPdu)], NEW aq \in [Addr -> Seq(QueuedWaiting)],
           NEW fr \in [Links -> Seq(Frame)]
    PROVE  /\ ContentsOf(rq, aq, fr) \in Whole
           /\ \A n \in Addr : /\ ContentsOf(rq, aq, fr)[Route(n)] = rq[n]
                              /\ ContentsOf(rq, aq, fr)[Arp(n)] = PdusOf(aq[n])
           /\ \A c \in Links : ContentsOf(rq, aq, fr)[Cable(c)] = CarriedBy(fr[c])
<1> DEFINE V == ContentsOf(rq, aq, fr)
<1>1. /\ \A n \in Addr : V[Route(n)] = rq[n] /\ V[Arp(n)] = PdusOf(aq[n])
      /\ \A c \in Links : V[Cable(c)] = CarriedBy(fr[c])
  BY PlaceFacts DEF ContentsOf, Route, Arp, Cable
<1>2. V = [x \in Place |-> V[x]]
  BY DEF ContentsOf
<1> HIDE DEF V
<1>3. ASSUME NEW x \in Place PROVE V[x] \in Seq(Item)
  <2>1. CASE \E n \in Addr : x = Route(n)
    <3>1. PICK n \in Addr : x = Route(n)
      BY <2>1
    <3>2. rq[n] \in Seq(QueuedPdu)
      OBVIOUS
    <3>3. rq[n] \in Seq(Item)
      BY <3>2, ItemFacts, SeqOfSubset
    <3>. QED
      BY <1>1, <3>1, <3>3
  <2>2. CASE \E n \in Addr : x = Arp(n)
    BY <1>1, <2>2, PdusOfType
  <2>3. CASE \E c \in Links : x = Cable(c)
    BY <1>1, <2>3, CarriedByType
  <2>. QED
    BY <2>1, <2>2, <2>3, PlaceFacts
<1>4. V \in Whole
  BY <1>2, <1>3 DEF Whole
<1>. QED
  BY <1>1, <1>4 DEF V

LEMMA WholeEqual ==
    ASSUME NEW V \in Whole, NEW W \in Whole,
           \A n \in Addr : V[Route(n)] = W[Route(n)] /\ V[Arp(n)] = W[Arp(n)],
           \A c \in Links : V[Cable(c)] = W[Cable(c)]
    PROVE  V = W
<1>1. \A x \in Place : V[x] = W[x]
  BY PlaceFacts
<1>. QED
  BY <1>1 DEF Whole

\* An operation on one queue or cable is one on the place for it.
LEMMA RouteOperations ==
    ASSUME NEW rq \in [Addr -> Seq(QueuedPdu)], NEW aq \in [Addr -> Seq(QueuedWaiting)],
           NEW fr \in [Links -> Seq(Frame)], NEW n \in Addr
    PROVE  /\ \A pdu \in QueuedPdu :
                  ContentsOf(With(rq, n, Append(rq[n], pdu)), aq, fr)
                      = Put(ContentsOf(rq, aq, fr), Route(n), pdu)
           /\ rq[n] # <<>> =>
                  /\ ContentsOf(With(rq, n, Tail(rq[n])), aq, fr)
                         = Taken(ContentsOf(rq, aq, fr), Route(n), 1)
                  /\ 1 \in 1..Len(ContentsOf(rq, aq, fr)[Route(n)])
                  /\ ContentsOf(rq, aq, fr)[Route(n)][1] = Head(rq[n])
<1> DEFINE V == ContentsOf(rq, aq, fr)
<1>1. /\ V \in Whole
      /\ \A m \in Addr : V[Route(m)] = rq[m] /\ V[Arp(m)] = PdusOf(aq[m])
      /\ \A c \in Links : V[Cable(c)] = CarriedBy(fr[c])
  BY ContentsFacts
<1> HIDE DEF V
<1>2. Route(n) \in Place
  BY PlaceFacts
<1>3. ASSUME NEW q \in Seq(QueuedPdu), NEW W \in Whole, W[Route(n)] = q,
             \A x \in Place : x # Route(n) => W[x] = V[x]
      PROVE  ContentsOf(With(rq, n, q), aq, fr) = W
  <2> DEFINE rq1 == With(rq, n, q)
             U == ContentsOf(rq1, aq, fr)
  <2>1. rq1 \in [Addr -> Seq(QueuedPdu)] /\ rq1[n] = q
        /\ \A m \in Addr : m # n => rq1[m] = rq[m]
    BY DEF With
  <2> HIDE DEF rq1
  <2>2. /\ U \in Whole
        /\ \A m \in Addr : U[Route(m)] = rq1[m] /\ U[Arp(m)] = PdusOf(aq[m])
        /\ \A c \in Links : U[Cable(c)] = CarriedBy(fr[c])
    BY <2>1, ContentsFacts
  <2> HIDE DEF U
  <2>3. ASSUME NEW m \in Addr PROVE U[Route(m)] = W[Route(m)] /\ U[Arp(m)] = W[Arp(m)]
    <3>1. /\ Route(m) \in Place /\ Arp(m) \in Place
          /\ Arp(m) # Route(n) /\ (m # n => Route(m) # Route(n))
      BY PlaceFacts
    <3>. QED
      BY <1>1, <1>3, <2>1, <2>2, <3>1
  <2>4. ASSUME NEW c \in Links PROVE U[Cable(c)] = W[Cable(c)]
    <3>1. Cable(c) \in Place /\ Cable(c) # Route(n)
      BY PlaceFacts
    <3>. QED
      BY <1>1, <1>3, <2>2, <3>1
  <2>5. U = W
    BY <1>3, <2>2, <2>3, <2>4, WholeEqual
  <2>. QED
    BY <2>5 DEF U, rq1
<1>4. ASSUME NEW pdu \in QueuedPdu
      PROVE  ContentsOf(With(rq, n, Append(rq[n], pdu)), aq, fr) = Put(V, Route(n), pdu)
  <2>1. /\ pdu \in Item /\ Append(rq[n], pdu) \in Seq(QueuedPdu)
        /\ V[Route(n)] = rq[n]
    BY <1>1, ItemFacts
  <2>2. /\ Put(V, Route(n), pdu) \in Whole
        /\ Put(V, Route(n), pdu)[Route(n)] = Append(rq[n], pdu)
        /\ \A x \in Place : x # Route(n) => Put(V, Route(n), pdu)[x] = V[x]
    <3>1. V \in Whole
      BY <1>1
    <3>2. /\ Put(V, Route(n), pdu) \in Whole
          /\ Put(V, Route(n), pdu)[Route(n)] = Append(V[Route(n)], pdu)
          /\ \A x \in Place : x # Route(n) => Put(V, Route(n), pdu)[x] = V[x]
      BY <1>2, <2>1, <3>1, PutType
    <3>. QED
      BY <2>1, <3>2
  <2>. QED
    BY <1>3, <2>1, <2>2
<1>5. ASSUME rq[n] # <<>>
      PROVE  /\ ContentsOf(With(rq, n, Tail(rq[n])), aq, fr) = Taken(V, Route(n), 1)
             /\ 1 \in 1..Len(V[Route(n)]) /\ V[Route(n)][1] = Head(rq[n])
  <2>1. /\ Tail(rq[n]) \in Seq(QueuedPdu) /\ Tail(rq[n]) = RemoveAt(rq[n], 1)
        /\ Head(rq[n]) = rq[n][1] /\ 1 \in 1..Len(rq[n])
    BY <1>5, HeadTail, TailIsRemoveAt
  <2>2. /\ Taken(V, Route(n), 1) \in Whole
        /\ Taken(V, Route(n), 1)[Route(n)] = Tail(rq[n])
        /\ \A x \in Place : x # Route(n) => Taken(V, Route(n), 1)[x] = V[x]
    <3>1. V \in Whole /\ V[Route(n)] = rq[n]
      BY <1>1
    <3>2. 1 \in 1..Len(V[Route(n)])
      BY <2>1, <3>1
    <3>3. /\ Taken(V, Route(n), 1) \in Whole
          /\ Taken(V, Route(n), 1)[Route(n)] = RemoveAt(V[Route(n)], 1)
          /\ \A x \in Place : x # Route(n) => Taken(V, Route(n), 1)[x] = V[x]
      BY <1>2, <3>1, <3>2, TakenType
    <3>. QED
      BY <2>1, <3>1, <3>3
  <2>3. ContentsOf(With(rq, n, Tail(rq[n])), aq, fr) = Taken(V, Route(n), 1)
    BY <1>3, <2>1, <2>2
  <2>. QED
    BY <1>1, <2>1, <2>3
<1>. QED
  BY <1>4, <1>5 DEF V

LEMMA ArpOperations ==
    ASSUME NEW rq \in [Addr -> Seq(QueuedPdu)], NEW aq \in [Addr -> Seq(QueuedWaiting)],
           NEW fr \in [Links -> Seq(Frame)], NEW n \in Addr
    PROVE  /\ \A w \in QueuedWaiting :
                  ContentsOf(rq, With(aq, n, Append(aq[n], w)), fr)
                      = Put(ContentsOf(rq, aq, fr), Arp(n), w.pdu)
           /\ \A k \in 1..Len(aq[n]) :
                  /\ ContentsOf(rq, With(aq, n, RemoveAt(aq[n], k)), fr)
                         = Taken(ContentsOf(rq, aq, fr), Arp(n), k)
                  /\ k \in 1..Len(ContentsOf(rq, aq, fr)[Arp(n)])
                  /\ ContentsOf(rq, aq, fr)[Arp(n)][k] = aq[n][k].pdu
<1> DEFINE V == ContentsOf(rq, aq, fr)
<1>1. /\ V \in Whole
      /\ \A m \in Addr : V[Route(m)] = rq[m] /\ V[Arp(m)] = PdusOf(aq[m])
      /\ \A c \in Links : V[Cable(c)] = CarriedBy(fr[c])
  BY ContentsFacts
<1> HIDE DEF V
<1>2. Arp(n) \in Place
  BY PlaceFacts
<1>3. ASSUME NEW q \in Seq(QueuedWaiting), NEW W \in Whole, W[Arp(n)] = PdusOf(q),
             \A x \in Place : x # Arp(n) => W[x] = V[x]
      PROVE  ContentsOf(rq, With(aq, n, q), fr) = W
  <2> DEFINE aq1 == With(aq, n, q)
             U == ContentsOf(rq, aq1, fr)
  <2>1. aq1 \in [Addr -> Seq(QueuedWaiting)] /\ aq1[n] = q
        /\ \A m \in Addr : m # n => aq1[m] = aq[m]
    BY DEF With
  <2> HIDE DEF aq1
  <2>2. /\ U \in Whole
        /\ \A m \in Addr : U[Route(m)] = rq[m] /\ U[Arp(m)] = PdusOf(aq1[m])
        /\ \A c \in Links : U[Cable(c)] = CarriedBy(fr[c])
    BY <2>1, ContentsFacts
  <2> HIDE DEF U
  <2>3. ASSUME NEW m \in Addr PROVE U[Route(m)] = W[Route(m)] /\ U[Arp(m)] = W[Arp(m)]
    <3>1. /\ Route(m) \in Place /\ Arp(m) \in Place
          /\ Route(m) # Arp(n) /\ (m # n => Arp(m) # Arp(n))
      BY PlaceFacts
    <3>2. U[Route(m)] = W[Route(m)]
      <4>1. U[Route(m)] = rq[m] /\ V[Route(m)] = rq[m]
        BY <1>1, <2>2
      <4>2. W[Route(m)] = V[Route(m)]
        BY <1>3, <3>1
      <4>. QED
        BY <4>1, <4>2
    <3>3. CASE m = n
      <4>1. U[Arp(n)] = PdusOf(q) /\ W[Arp(n)] = PdusOf(q)
        BY <1>3, <2>1, <2>2
      <4>. QED
        BY <3>2, <3>3, <4>1
    <3>4. CASE m # n
      <4>1. U[Arp(m)] = PdusOf(aq[m]) /\ V[Arp(m)] = PdusOf(aq[m])
        BY <1>1, <2>1, <2>2, <3>4
      <4>2. W[Arp(m)] = V[Arp(m)]
        BY <1>3, <3>1, <3>4
      <4>. QED
        BY <3>2, <4>1, <4>2
    <3>. QED
      BY <3>3, <3>4
  <2>4. ASSUME NEW c \in Links PROVE U[Cable(c)] = W[Cable(c)]
    <3>1. Cable(c) \in Place /\ Cable(c) # Arp(n)
      BY PlaceFacts
    <3>. QED
      BY <1>1, <1>3, <2>2, <3>1
  <2>5. U = W
    BY <1>3, <2>2, <2>3, <2>4, WholeEqual
  <2>. QED
    BY <2>5 DEF U, aq1
<1>4. ASSUME NEW w \in QueuedWaiting
      PROVE  ContentsOf(rq, With(aq, n, Append(aq[n], w)), fr) = Put(V, Arp(n), w.pdu)
  <2>1. w.pdu \in Item /\ Append(aq[n], w) \in Seq(QueuedWaiting)
    BY ItemFacts, PduFacts
  <2>2. PdusOf(Append(aq[n], w)) = Append(V[Arp(n)], w.pdu)
    BY <1>1, PdusOfAppend
  <2>3. /\ Put(V, Arp(n), w.pdu) \in Whole
        /\ Put(V, Arp(n), w.pdu)[Arp(n)] = PdusOf(Append(aq[n], w))
        /\ \A x \in Place : x # Arp(n) => Put(V, Arp(n), w.pdu)[x] = V[x]
    BY <1>1, <1>2, <2>1, <2>2, PutType
  <2>. QED
    BY <1>3, <2>1, <2>3
<1>5. ASSUME NEW k \in 1..Len(aq[n])
      PROVE  /\ ContentsOf(rq, With(aq, n, RemoveAt(aq[n], k)), fr) = Taken(V, Arp(n), k)
             /\ k \in 1..Len(V[Arp(n)]) /\ V[Arp(n)][k] = aq[n][k].pdu
  <2>1. RemoveAt(aq[n], k) \in Seq(QueuedWaiting)
    BY RemoveAtFacts
  <2>2. k \in 1..Len(V[Arp(n)]) /\ V[Arp(n)][k] = aq[n][k].pdu
    BY <1>1, PdusOfType
  <2>3. PdusOf(RemoveAt(aq[n], k)) = RemoveAt(V[Arp(n)], k)
    BY <1>1, PdusOfRemoveAt
  <2>4. /\ Taken(V, Arp(n), k) \in Whole
        /\ Taken(V, Arp(n), k)[Arp(n)] = PdusOf(RemoveAt(aq[n], k))
        /\ \A x \in Place : x # Arp(n) => Taken(V, Arp(n), k)[x] = V[x]
    BY <1>1, <1>2, <2>2, <2>3, TakenType
  <2>. QED
    BY <1>3, <2>1, <2>2, <2>4
<1>. QED
  BY <1>4, <1>5 DEF V

LEMMA CableOperations ==
    ASSUME NEW rq \in [Addr -> Seq(QueuedPdu)], NEW aq \in [Addr -> Seq(QueuedWaiting)],
           NEW fr \in [Links -> Seq(Frame)], NEW c \in Links
    PROVE  /\ \A f \in Frame :
                  ContentsOf(rq, aq, With(fr, c, Append(fr[c], f)))
                      = Put(ContentsOf(rq, aq, fr), Cable(c), Carried(f))
           /\ fr[c] # <<>> =>
                  /\ ContentsOf(rq, aq, With(fr, c, Tail(fr[c])))
                         = Taken(ContentsOf(rq, aq, fr), Cable(c), 1)
                  /\ 1 \in 1..Len(ContentsOf(rq, aq, fr)[Cable(c)])
                  /\ ContentsOf(rq, aq, fr)[Cable(c)][1] = Carried(Head(fr[c]))
<1> DEFINE V == ContentsOf(rq, aq, fr)
<1>1. /\ V \in Whole
      /\ \A m \in Addr : V[Route(m)] = rq[m] /\ V[Arp(m)] = PdusOf(aq[m])
      /\ \A d \in Links : V[Cable(d)] = CarriedBy(fr[d])
  BY ContentsFacts
<1> HIDE DEF V
<1>2. Cable(c) \in Place
  BY PlaceFacts
<1>3. ASSUME NEW q \in Seq(Frame), NEW W \in Whole, W[Cable(c)] = CarriedBy(q),
             \A x \in Place : x # Cable(c) => W[x] = V[x]
      PROVE  ContentsOf(rq, aq, With(fr, c, q)) = W
  <2> DEFINE fr1 == With(fr, c, q)
             U == ContentsOf(rq, aq, fr1)
  <2>1. fr1 \in [Links -> Seq(Frame)] /\ fr1[c] = q
        /\ \A d \in Links : d # c => fr1[d] = fr[d]
    BY DEF With
  <2> HIDE DEF fr1
  <2>2. /\ U \in Whole
        /\ \A m \in Addr : U[Route(m)] = rq[m] /\ U[Arp(m)] = PdusOf(aq[m])
        /\ \A d \in Links : U[Cable(d)] = CarriedBy(fr1[d])
    BY <2>1, ContentsFacts
  <2> HIDE DEF U
  <2>3. ASSUME NEW m \in Addr PROVE U[Route(m)] = W[Route(m)] /\ U[Arp(m)] = W[Arp(m)]
    <3>1. /\ Route(m) \in Place /\ Arp(m) \in Place
          /\ Route(m) # Cable(c) /\ Arp(m) # Cable(c)
      BY PlaceFacts
    <3>. QED
      BY <1>1, <1>3, <2>2, <3>1
  <2>4. ASSUME NEW d \in Links PROVE U[Cable(d)] = W[Cable(d)]
    <3>1. Cable(d) \in Place /\ (d # c => Cable(d) # Cable(c))
      BY PlaceFacts
    <3>. QED
      BY <1>1, <1>3, <2>1, <2>2, <3>1
  <2>5. U = W
    BY <1>3, <2>2, <2>3, <2>4, WholeEqual
  <2>. QED
    BY <2>5 DEF U, fr1
<1>4. ASSUME NEW f \in Frame
      PROVE  ContentsOf(rq, aq, With(fr, c, Append(fr[c], f)))
                 = Put(V, Cable(c), Carried(f))
  <2>1. Carried(f) \in Item /\ Append(fr[c], f) \in Seq(Frame)
    BY ItemFacts
  <2>2. CarriedBy(Append(fr[c], f)) = Append(V[Cable(c)], Carried(f))
    BY <1>1, CarriedByAppend
  <2>3. /\ Put(V, Cable(c), Carried(f)) \in Whole
        /\ Put(V, Cable(c), Carried(f))[Cable(c)] = CarriedBy(Append(fr[c], f))
        /\ \A x \in Place : x # Cable(c) => Put(V, Cable(c), Carried(f))[x] = V[x]
    BY <1>1, <1>2, <2>1, <2>2, PutType
  <2>. QED
    BY <1>3, <2>1, <2>3
<1>5. ASSUME fr[c] # <<>>
      PROVE  /\ ContentsOf(rq, aq, With(fr, c, Tail(fr[c]))) = Taken(V, Cable(c), 1)
             /\ 1 \in 1..Len(V[Cable(c)]) /\ V[Cable(c)][1] = Carried(Head(fr[c]))
  <2>1. Tail(fr[c]) \in Seq(Frame) /\ Head(fr[c]) = fr[c][1]
    BY <1>5, HeadTail
  <2>2. /\ CarriedBy(Tail(fr[c])) = RemoveAt(V[Cable(c)], 1) /\ 1 \in 1..Len(fr[c])
    BY <1>1, <1>5, CarriedByTail
  <2>3. 1 \in 1..Len(V[Cable(c)]) /\ V[Cable(c)][1] = Carried(fr[c][1])
    BY <1>1, <2>2, CarriedByType
  <2>4. /\ Taken(V, Cable(c), 1) \in Whole
        /\ Taken(V, Cable(c), 1)[Cable(c)] = CarriedBy(Tail(fr[c]))
        /\ \A x \in Place : x # Cable(c) => Taken(V, Cable(c), 1)[x] = V[x]
    BY <1>1, <1>2, <2>2, <2>3, TakenType
  <2>. QED
    BY <1>3, <2>1, <2>3, <2>4
<1>. QED
  BY <1>4, <1>5 DEF V

\* What is broadcast is noise for every packet that it is not.
LEMMA BroadcastIsNoise ==
    ASSUME NEW rq \in [Addr -> Seq(QueuedPdu)], NEW aq \in [Addr -> Seq(QueuedWaiting)],
           NEW fr \in [Links -> Seq(Frame)], NEW n, NEW f \in Frame,
           NEW p, Carried(f).id # p
    PROVE  Kept(ContentsOf(rq, aq, fr), ContentsOf(rq, aq, WithBroadcast(fr, n, f)), p)
<1> DEFINE fr1 == WithBroadcast(fr, n, f)
           V == ContentsOf(rq, aq, fr)
           W == ContentsOf(rq, aq, fr1)
<1>1. /\ fr1 \in [Links -> Seq(Frame)]
      /\ \A c \in Links : fr1[c] = Append(fr[c], f) \/ fr1[c] = fr[c]
  <2>1. \A c \in Links : Append(fr[c], f) \in Seq(Frame)
    OBVIOUS
  <2>. QED
    BY <2>1, WithFrameType DEF WithBroadcast
<1> HIDE DEF fr1
<1>2. /\ V \in Whole
      /\ \A m \in Addr : V[Route(m)] = rq[m] /\ V[Arp(m)] = PdusOf(aq[m])
      /\ \A c \in Links : V[Cable(c)] = CarriedBy(fr[c])
  BY ContentsFacts
<1>3. /\ W \in Whole
      /\ \A m \in Addr : W[Route(m)] = rq[m] /\ W[Arp(m)] = PdusOf(aq[m])
      /\ \A c \in Links : W[Cable(c)] = CarriedBy(fr1[c])
  BY <1>1, ContentsFacts
<1> HIDE DEF V, W
<1>4. Carried(f) \in Item
  BY ItemFacts
<1>5. ASSUME NEW c \in Links
      PROVE  W[Cable(c)] = V[Cable(c)] \/ W[Cable(c)] = Append(V[Cable(c)], Carried(f))
  <2>1. fr[c] \in Seq(Frame) /\ W[Cable(c)] = CarriedBy(fr1[c])
        /\ V[Cable(c)] = CarriedBy(fr[c])
    BY <1>2, <1>3
  <2>2. CASE fr1[c] = fr[c]
    BY <2>1, <2>2
  <2>3. CASE fr1[c] = Append(fr[c], f)
    <3>1. CarriedBy(Append(fr[c], f)) = Append(CarriedBy(fr[c]), Carried(f))
      BY <2>1, CarriedByAppend
    <3>. QED
      BY <2>1, <2>3, <3>1
  <2>. QED
    BY <1>1, <2>2, <2>3
<1>6. ASSUME NEW x \in Place
      PROVE  W[x] = V[x] \/ W[x] = Append(V[x], Carried(f))
  <2>1. CASE \E m \in Addr : x = Route(m)
    BY <1>2, <1>3, <2>1
  <2>2. CASE \E m \in Addr : x = Arp(m)
    BY <1>2, <1>3, <2>2
  <2>3. CASE \E c \in Links : x = Cable(c)
    BY <1>5, <2>3
  <2>. QED
    BY <2>1, <2>2, <2>3, PlaceFacts
<1>7. Noise(V, W, p)
  BY <1>4, <1>6 DEF Noise
<1>8. Kept(V, W, p)
  BY <1>2, <1>7, NoiseKeeps
<1>. QED
  BY <1>8 DEF V, W, fr1
---------------------------------------------------------------------------
(* What a step of the network does to a packet.                            *)

PacketInv(p) ==
    /\ Once(Contents, p)
    /\ Within(Contents, p, Budget[p] - hops[p])
    /\ hops[p] \in 0..Budget[p]
    /\ PlacesOf(Contents, p) # {} => p \in sent /\ delivered[p] = <<>>
    /\ p \notin sent => hops[p] = 0 /\ delivered[p] = <<>>
    /\ delivered[p] \in {<<>>, <<Dst[p]>>}
CopyInv == \A p \in ToOneNode : PacketInv(p)

Rests(p) ==
    /\ hops'[p] = hops[p] /\ delivered'[p] = delivered[p]
    /\ p \in sent' <=> p \in sent
Stays(p) == Kept(Contents, Contents', p) /\ Rests(p)

Enters(p) ==
    /\ p \notin sent /\ p \in sent'
    /\ hops'[p] = hops[p] /\ delivered'[p] = delivered[p]
    /\ \/ PlacesOf(Contents', p) = {}
       \/ /\ PlacesOf(Contents', p) = {Route(Src[p])}
          /\ Once(Contents', p) /\ Within(Contents', p, Budget[p])
Vanishes(p) ==
    /\ PlacesOf(Contents, p) # {} /\ PlacesOf(Contents', p) = {}
    /\ Rests(p)
Shifts(p) ==
    /\ \E x, y \in Place : /\ NodeOf(x) = NodeOf(y)
                           /\ PlacesOf(Contents, p) = {x}
                           /\ PlacesOf(Contents', p) = {y}
    /\ Once(Contents', p)
    /\ \A b \in Int : Within(Contents, p, b) => Within(Contents', p, b)
    /\ Rests(p)
CrossesTo(p, s, n) ==
    /\ <<s, n>> \in Links
    /\ PlacesOf(Contents, p) = {Cable(<<s, n>>)}
    /\ hops'[p] = hops[p] + 1 /\ (p \in sent' <=> p \in sent)
    /\ \/ /\ n = Dst[p] /\ delivered'[p] = Append(delivered[p], n)
          /\ PlacesOf(Contents', p) = {}
       \/ /\ n # Dst[p] /\ delivered'[p] = delivered[p]
          /\ PlacesOf(Contents', p) = {}
       \/ /\ n # Dst[p] /\ delivered'[p] = delivered[p]
          /\ PlacesOf(Contents', p) = {Route(n)} /\ Once(Contents', p)
          /\ \A b \in Int : Within(Contents, p, b) => Within(Contents', p, b - 1)

Changes(p) ==
    \/ Enters(p) \/ Vanishes(p) \/ Shifts(p)
    \/ \E s, n \in Addr : CrossesTo(p, s, n)

\* A step changes one packet at most.
Outcome == \E p0 : \A p \in ToOneNode : Stays(p) \/ (p = p0 /\ Changes(p))

LEMMA BudgetFacts ==
    ASSUME NEW p \in ToOneNode
    PROVE  Budget[p] \in Nat /\ CablesLeft(AskedTtl(p)) <= Budget[p]
<1>1. Asked[p] \in Nat /\ MaxTtl \in Nat \ {0} /\ MaxTtl + 1 \in Nat \ {0}
  BY PacketAssumption, PduFacts
<1>2. Budget[p] = IF Asked[p] = 0 THEN MaxTtl ELSE Asked[p]
  BY DEF Budget
<1>3. CASE Asked[p] = 0
  BY <1>1, <1>2, <1>3 DEF AskedTtl, CablesLeft
<1>4. CASE Asked[p] # 0
  <2> DEFINE r == Asked[p] % (MaxTtl + 1)
  <2>1. ASSUME NEW a \in Nat, NEW b \in Nat \ {0} PROVE a % b <= a /\ a % b \in Nat
    OBVIOUS
  <2>2. ASSUME NEW a \in Nat \ {0}, NEW b \in Nat \ {0}, a % b = 0 PROVE b <= a
    BY <2>2
  <2>3. r <= Asked[p] /\ r \in Nat
    BY <1>1, <2>1
  <2>4. r = 0 => MaxTtl + 1 <= Asked[p]
    BY <1>1, <1>4, <2>2
  <2>5. AskedTtl(p) = r
    BY <1>4 DEF AskedTtl
  <2> HIDE DEF r
  <2>. QED
    BY <1>1, <1>2, <1>4, <2>3, <2>4, <2>5 DEF CablesLeft
<1>. QED
  BY <1>3, <1>4

LEMMA DecrementFacts ==
    ASSUME NEW ttl \in 0..MaxTtl
    PROVE  /\ CablesLeft(ttl) \in Nat /\ CablesLeft(ttl) >= 1
           /\ DecrementTtl(ttl) # 0
                => CablesLeft(DecrementTtl(ttl)) = CablesLeft(ttl) - 1
<1>1. ttl \in Nat /\ MaxTtl \in Nat /\ MaxTtl + 1 \in Nat \ {0}
  BY PacketAssumption
<1>2. CablesLeft(ttl) \in Nat /\ CablesLeft(ttl) >= 1
  BY <1>1 DEF CablesLeft
<1>3. ASSUME NEW b \in Nat \ {0} PROVE (-1) % b = b - 1
  OBVIOUS
<1>4. ASSUME NEW b \in Nat \ {0}, NEW a \in 0..(b - 1) PROVE a % b = a
  OBVIOUS
<1>5. CASE ttl = 0
  <2>1. DecrementTtl(ttl) = MaxTtl
    BY <1>1, <1>3, <1>5 DEF DecrementTtl
  <2>. QED
    BY <1>1, <1>2, <1>5, <2>1 DEF CablesLeft
<1>6. CASE ttl # 0
  <2>1. ttl - 1 \in 0..((MaxTtl + 1) - 1)
    BY <1>1, <1>6
  <2>2. DecrementTtl(ttl) = ttl - 1
    BY <1>1, <1>4, <2>1 DEF DecrementTtl
  <2>. QED
    BY <1>1, <1>2, <1>6, <2>2 DEF CablesLeft
<1>. QED
  BY <1>5, <1>6

\* A copy has a cable left to cross.
LEMMA SomeCableLeft ==
    ASSUME NEW V \in Whole, NEW p, NEW b \in Int, PlacesOf(V, p) # {}, Within(V, p, b)
    PROVE  b >= 1
<1>1. PICK x \in Place : Has(V[x], p)
  BY DEF PlacesOf
<1>2. PICK i \in 1..Len(V[x]) : V[x][i].id = p
  BY <1>1 DEF Has
<1>3. V[x][i] \in Item
  BY DEF Whole
<1>4. V[x][i].ttl \in 0..MaxTtl
  BY <1>3 DEF Item
<1>5. CablesLeft(V[x][i].ttl) <= b
  BY <1>2 DEF Within
<1>. QED
  BY <1>4, <1>5, DecrementFacts

LEMMA OutcomeKeepsInv ==
    ASSUME TypeInv, TypeInv', CopyInv, Outcome
    PROVE  CopyInv'
<1>1. /\ Contents \in Whole /\ Contents' \in Whole
  BY ContentsFacts DEF Contents, TypeInv, QueueTypes, FrameTypes
<1>2. SUFFICES ASSUME NEW p \in ToOneNode PROVE PacketInv(p)'
  BY DEF CopyInv
<1>3. PacketInv(p)
  BY DEF CopyInv
<1>4. Budget[p] \in Nat /\ hops[p] \in Nat /\ Budget[p] - hops[p] \in Int
  BY <1>3, BudgetFacts DEF PacketInv
<1>5. CASE Stays(p)
  BY <1>3, <1>4, <1>5 DEF Stays, Kept, Rests, PacketInv
<1>6. CASE Enters(p)
  <2>1. hops'[p] = 0 /\ delivered'[p] = <<>> /\ p \in sent' /\ Budget[p] - 0 = Budget[p]
    BY <1>3, <1>4, <1>6 DEF Enters, PacketInv
  <2>2. Once(Contents', p) /\ Within(Contents', p, Budget[p])
    <3>1. CASE PlacesOf(Contents', p) = {}
      <4>1. Budget[p] \in Int
        BY <1>4
      <4>. QED
        BY <3>1, <4>1, NowhereIsGood
    <3>2. CASE PlacesOf(Contents', p) # {}
      BY <1>6, <3>2 DEF Enters
    <3>. QED
      BY <3>1, <3>2
  <2>. QED
    BY <1>4, <2>1, <2>2 DEF PacketInv
<1>7. CASE Vanishes(p)
  <2>1. Once(Contents', p) /\ Within(Contents', p, Budget[p] - hops[p])
    BY <1>4, <1>7, NowhereIsGood DEF Vanishes
  <2>. QED
    BY <1>3, <1>7, <2>1 DEF Vanishes, Rests, PacketInv
<1>8. CASE Shifts(p)
  <2>1. PlacesOf(Contents, p) # {}
    BY <1>8 DEF Shifts
  <2>. QED
    BY <1>3, <1>4, <1>8, <2>1 DEF Shifts, Rests, PacketInv
<1>9. ASSUME NEW s \in Addr, NEW n \in Addr, CrossesTo(p, s, n) PROVE PacketInv(p)'
  <2>1. PlacesOf(Contents, p) # {} /\ hops'[p] = hops[p] + 1
        /\ (p \in sent' <=> p \in sent)
    BY <1>9 DEF CrossesTo
  <2>2. p \in sent /\ p \in sent' /\ delivered[p] = <<>>
    BY <1>3, <2>1 DEF PacketInv
  <2>3. Budget[p] - hops[p] >= 1
    BY <1>1, <1>3, <1>4, <2>1, SomeCableLeft DEF PacketInv
  <2>4. hops'[p] \in 0..Budget[p] /\ Budget[p] - hops'[p] = (Budget[p] - hops[p]) - 1
        /\ Budget[p] - hops'[p] \in Int
    BY <1>4, <2>1, <2>3
  <2>5. CASE PlacesOf(Contents', p) = {}
    <3>1. Once(Contents', p) /\ Within(Contents', p, Budget[p] - hops'[p])
      BY <2>4, <2>5, NowhereIsGood
    <3>2. delivered'[p] = <<>> \/ (n = Dst[p] /\ delivered'[p] = Append(<<>>, n))
      BY <1>9, <2>2 DEF CrossesTo
    <3>3. Append(<<>>, n) = <<n>>
      OBVIOUS
    <3>. QED
      BY <2>2, <2>4, <2>5, <3>1, <3>2, <3>3 DEF PacketInv
  <2>6. CASE PlacesOf(Contents', p) # {}
    <3>1. /\ delivered'[p] = delivered[p] /\ Once(Contents', p)
          /\ \A b \in Int : Within(Contents, p, b) => Within(Contents', p, b - 1)
      BY <1>9, <2>6 DEF CrossesTo
    <3>2. Within(Contents', p, Budget[p] - hops'[p])
      BY <1>3, <1>4, <2>4, <3>1 DEF PacketInv
    <3>. QED
      BY <2>2, <2>4, <3>1, <3>2 DEF PacketInv
  <2>. QED
    BY <2>5, <2>6
<1>. QED
  BY <1>5, <1>6, <1>7, <1>8, <1>9 DEF Outcome, Changes
---------------------------------------------------------------------------
(* Each action has an outcome for one packet at most.                      *)

LEMMA ContentsTypes ==
    ASSUME TypeInv
    PROVE  /\ route_queue \in [Addr -> Seq(QueuedPdu)]
           /\ arp_queue \in [Addr -> Seq(QueuedWaiting)]
           /\ frames \in [Links -> Seq(Frame)]
           /\ Contents \in Whole
           /\ \A n \in Addr : Contents[Route(n)] = route_queue[n]
<1>. QED
  BY ContentsFacts DEF Contents, TypeInv, QueueTypes, FrameTypes

LEMMA KeptSame == \A V, p : Kept(V, V, p)
<1>. QED
  BY DEF Kept

LEMMA UnchangedOutcome ==
    ASSUME UNCHANGED <<route_queue, arp_queue, frames, record>> PROVE Outcome
<1>1. Contents' = Contents /\ UNCHANGED <<sent, hops, delivered>>
  BY DEF Contents, record
<1>2. \A p \in ToOneNode : Stays(p)
  BY <1>1, KeptSame DEF Stays, Rests
<1>. QED
  BY <1>2 DEF Outcome

\* What is put on a cable or taken from it is no packet to one node.
LEMMA NothingMovesOutcome ==
    ASSUME UNCHANGED record, \A p \in ToOneNode : Kept(Contents, Contents', p)
    PROVE  Outcome
<1>1. \A p \in ToOneNode : Stays(p)
  BY DEF Stays, Rests, record
<1>. QED
  BY <1>1 DEF Outcome

LEMMA HandleUsdEventOutcome ==
    ASSUME TypeInv, CopyInv, NEW n \in Addr, NEW p0 \in Packet, HandleUsdEvent(n, p0)
    PROVE  Outcome
<1> DEFINE pdu == [id |-> p0, ttl |-> AskedTtl(p0)]
<1>1. /\ Src[p0] = n /\ p0 \notin sent /\ sent' = sent \union {p0}
      /\ UNCHANGED <<arp_queue, hops, delivered>>
  BY DEF HandleUsdEvent
<1>2. pdu \in Pdu /\ pdu.id = p0 /\ pdu.ttl = AskedTtl(p0)
  BY AskedRange DEF Pdu
<1>3. SUFFICES ASSUME NEW p \in ToOneNode PROVE Stays(p) \/ (p = p0 /\ Changes(p))
  BY DEF Outcome
<1>4. p # p0 => Rests(p)
  BY <1>1 DEF Rests
<1>5. CASE Dst[p0] = Broadcast
  <2>1. frames' = WithBroadcast(frames, n, Data(pdu)) /\ UNCHANGED route_queue
    BY <1>5 DEF HandleUsdEvent
  <2> HIDE DEF pdu
  <2>2. p # p0 /\ Carried(Data(pdu)).id # p /\ Data(pdu) \in Frame
    BY <1>2, <1>5, ItemFacts, FrameFacts DEF ToOneNode
  <2>3. Contents' = ContentsOf(route_queue, arp_queue, WithBroadcast(frames, n, Data(pdu)))
    BY <1>1, <2>1 DEF Contents
  <2>4. Kept(Contents, Contents', p)
    BY <2>2, <2>3, ContentsTypes, BroadcastIsNoise DEF Contents
  <2>. QED
    BY <1>4, <2>2, <2>4 DEF Stays
<1>6. CASE Dst[p0] # Broadcast
  <2>1. SendMipPacket(n, pdu) /\ UNCHANGED frames
    BY <1>6 DEF HandleUsdEvent
  <2>2. pdu \in QueuedPdu /\ pdu \in Item /\ p0 \in ToOneNode
    BY <1>6, AskedRange, ItemFacts DEF QueuedPdu, ToOneNode
  <2> HIDE DEF pdu
  <2>3. p = p0 => PlacesOf(Contents, p) = {}
    BY <1>1 DEF CopyInv, PacketInv
  <2>4. CASE routing_usd[n] # "closed"
    <3>1. route_queue' = With(route_queue, n, Append(route_queue[n], pdu))
      BY <2>1, <2>4 DEF SendMipPacket, RouteEnqueue, With
    <3>2. Contents' = Put(Contents, Route(n), pdu)
      <4>1. Contents' = ContentsOf(With(route_queue, n, Append(route_queue[n], pdu)),
                                   arp_queue, frames)
        BY <1>1, <2>1, <3>1 DEF Contents
      <4>2. ContentsOf(With(route_queue, n, Append(route_queue[n], pdu)),
                       arp_queue, frames)
                = Put(ContentsOf(route_queue, arp_queue, frames), Route(n), pdu)
        BY <2>2, ContentsTypes, RouteOperations
      <4>. QED
        BY <4>1, <4>2 DEF Contents
    <3>3. Contents \in Whole /\ Route(n) \in Place
      BY ContentsTypes, PlaceFacts
    <3>4. CASE p # p0
      <4>1. Kept(Contents, Contents', p)
        BY <1>2, <2>2, <3>2, <3>3, <3>4, PutKeeps
      <4>. QED
        BY <1>4, <3>4, <4>1 DEF Stays
    <3>5. CASE p = p0
      <4>1. PlacesOf(Contents, pdu.id) = {}
        BY <1>2, <2>3, <3>5
      <4>2. IsIn(Contents', Route(n), pdu)
        BY <2>2, <3>2, <3>3, <4>1, PutIsThere
      <4>3. CablesLeft(pdu.ttl) <= Budget[p] /\ Budget[p] \in Int
        BY <1>2, <3>5, BudgetFacts
      <4>4. Enters(p)
        BY <1>1, <1>2, <3>5, <4>2, <4>3 DEF Enters, IsIn
      <4>. QED
        BY <3>5, <4>4 DEF Changes
    <3>. QED
      BY <3>4, <3>5
  <2>5. CASE routing_usd[n] = "closed"
    <3>1. Contents' = Contents
      BY <1>1, <2>1, <2>5 DEF SendMipPacket, Contents
    <3>2. p # p0 => Stays(p)
      BY <1>4, <3>1, KeptSame DEF Stays
    <3>3. p = p0 => Enters(p)
      BY <1>1, <2>3, <3>1 DEF Enters
    <3>. QED
      BY <3>2, <3>3 DEF Changes
  <2>. QED
    BY <2>4, <2>5
<1>. QED
  BY <1>5, <1>6

LEMMA VanishOutcome ==
    ASSUME CopyInv, UNCHANGED record,
           NEW V \in Whole, \A p \in ToOneNode : Kept(Contents, V, p),
           NEW x \in Place, NEW k \in 1..Len(V[x]),
           \A p \in ToOneNode : Kept(Taken(V, x, k), Contents', p)
    PROVE  Outcome
<1> DEFINE p0 == V[x][k].id
           W == Taken(V, x, k)
<1>1. ASSUME NEW p \in ToOneNode PROVE Rests(p)
  BY DEF Rests, record
<1>2. ASSUME NEW p \in ToOneNode, p # p0 PROVE Stays(p)
  <2>1. Kept(V, W, p)
    BY <1>2, TakenKeeps
  <2> HIDE DEF W
  <2>2. Kept(Contents, V, p) /\ Kept(W, Contents', p)
    BY DEF W
  <2>3. Kept(Contents, Contents', p)
    BY <2>1, <2>2, KeptTwice
  <2>. QED
    BY <1>1, <2>3 DEF Stays
<1>3. ASSUME p0 \in ToOneNode PROVE Vanishes(p0)
  <2>1. Kept(Contents, V, p0) /\ Kept(W, Contents', p0) /\ Once(Contents, p0)
    BY <1>3 DEF CopyInv, PacketInv
  <2>2. Once(V, p0)
    BY <2>1 DEF Kept
  <2>3. PlacesOf(V, p0) = {x} /\ PlacesOf(W, p0) = {}
    BY <2>2, TakenIsGone
  <2> HIDE DEF W, p0
  <2>4. PlacesOf(Contents, p0) = {x} /\ PlacesOf(Contents', p0) = {}
    BY <2>1, <2>3 DEF Kept
  <2>5. Rests(p0)
    BY <1>1, <1>3
  <2>. QED
    BY <2>4, <2>5 DEF Vanishes
<1> HIDE DEF p0, W
<1>4. \A p \in ToOneNode : Stays(p) \/ (p = p0 /\ Changes(p))
  BY <1>2, <1>3 DEF Changes
<1>5. \E q : \A p \in ToOneNode : Stays(p) \/ (p = q /\ Changes(p))
  <2> WITNESS p0
  <2>. QED
    BY <1>4
<1>. QED
  BY <1>5 DEF Outcome

LEMMA ShiftOutcome ==
    ASSUME CopyInv, UNCHANGED record,
           NEW V \in Whole, \A p \in ToOneNode : Kept(Contents, V, p),
           NEW x \in Place, NEW k \in 1..Len(V[x]), NEW y \in Place,
           NodeOf(x) = NodeOf(y),
           NEW e \in Item, e = V[x][k], e.id \in ToOneNode,
           \A p \in ToOneNode : Kept(Put(Taken(V, x, k), y, e), Contents', p)
    PROVE  Outcome
<1> DEFINE p0 == e.id
           W == Put(Taken(V, x, k), y, e)
<1>1. ASSUME NEW p \in ToOneNode PROVE Rests(p)
  BY DEF Rests, record
<1>2. e.id = V[x][k].id
  OBVIOUS
<1>3. /\ \A p : p # p0 => Kept(V, W, p)
      /\ Once(V, p0) => PlacesOf(V, p0) = {x} /\ IsIn(W, y, e)
  <2>1. \A p : p # e.id => Kept(V, Put(Taken(V, x, k), y, e), p)
    BY <1>2, Moves
  <2>2. Once(V, e.id)
          => PlacesOf(V, e.id) = {x} /\ IsIn(Put(Taken(V, x, k), y, e), y, e)
    BY <1>2, Moves
  <2>. QED
    BY <2>1, <2>2
<1>4. \A b \in Int : Within(V, p0, b) => CablesLeft(e.ttl) <= b
  BY DEF Within
<1>5. p0 \in ToOneNode /\ \A p \in ToOneNode : Kept(W, Contents', p)
  OBVIOUS
<1>6. p0 = e.id
  OBVIOUS
<1> HIDE DEF p0, W
<1>7. ASSUME NEW p \in ToOneNode, p # p0 PROVE Stays(p)
  <2>1. Kept(Contents, V, p) /\ Kept(V, W, p) /\ Kept(W, Contents', p)
    BY <1>3, <1>5, <1>7
  <2>2. Kept(Contents, Contents', p)
    BY <2>1, KeptTwice
  <2>. QED
    BY <1>1, <2>2 DEF Stays
<1>8. Shifts(p0)
  <2>1. Kept(Contents, V, p0) /\ Kept(W, Contents', p0) /\ Once(Contents, p0)
    BY <1>5 DEF CopyInv, PacketInv
  <2>2. Once(V, p0)
    BY <2>1 DEF Kept
  <2>3. PlacesOf(Contents, p0) = {x} /\ PlacesOf(Contents', p0) = {y} /\ Once(Contents', p0)
    BY <1>3, <1>6, <2>1, <2>2 DEF Kept, IsIn
  <2>4. ASSUME NEW b \in Int, Within(Contents, p0, b) PROVE Within(Contents', p0, b)
    <3>1. Within(V, p0, b)
      BY <2>1, <2>4 DEF Kept
    <3>2. Within(W, p0, b)
      BY <1>3, <1>4, <1>6, <2>2, <3>1 DEF IsIn
    <3>. QED
      BY <2>1, <3>2 DEF Kept
  <2>5. Rests(p0)
    BY <1>1, <1>5
  <2>. QED
    BY <2>3, <2>4, <2>5 DEF Shifts
<1>9. \A p \in ToOneNode : Stays(p) \/ (p = p0 /\ Changes(p))
  BY <1>7, <1>8 DEF Changes
<1>10. \E q : \A p \in ToOneNode : Stays(p) \/ (p = q /\ Changes(p))
  <2> WITNESS p0
  <2>. QED
    BY <1>9
<1>. QED
  BY <1>10 DEF Outcome

LEMMA UseResponseOutcome ==
    ASSUME TypeInv, CopyInv, NEW n \in Addr, NEW hop \in Addr \union {Unreachable},
           UseResponse(n, hop), UNCHANGED record
    PROVE  Outcome
<1> DEFINE pdu == Head(route_queue[n])
           rq == With(route_queue, n, Tail(route_queue[n]))
<1>1. UNCHANGED record
  OBVIOUS
<1>2. CASE route_queue[n] = <<>>
  BY <1>2, UnchangedOutcome DEF UseResponse
<1>3. CASE route_queue[n] # <<>>
  <2>1. /\ route_queue' = rq
        /\ \/ UNCHANGED <<arp_queue, frames>>
           \/ /\ hop # Unreachable
              /\ frames' = WithFrame(frames, n, hop, Data(pdu))
              /\ UNCHANGED arp_queue
           \/ /\ hop # Unreachable
              /\ frames' = WithBroadcast(frames, n, ArpRequest(hop))
              /\ ArpEnqueue(n, hop, pdu)
    BY <1>3 DEF UseResponse, RouteDequeue, With
  <2>2. /\ route_queue \in [Addr -> Seq(QueuedPdu)]
        /\ arp_queue \in [Addr -> Seq(QueuedWaiting)]
        /\ frames \in [Links -> Seq(Frame)]
        /\ Contents \in Whole /\ Route(n) \in Place
    BY ContentsTypes, PlaceFacts
  <2>3. route_queue[n] \in Seq(QueuedPdu)
    BY <2>2
  <2>4. pdu \in QueuedPdu /\ Tail(route_queue[n]) \in Seq(QueuedPdu)
    BY <1>3, <2>3, HeadTail
  <2>5. pdu \in Item /\ pdu \in Pdu /\ pdu.id \in ToOneNode
    BY <2>4, ItemFacts, PduFacts
  <2>6. rq \in [Addr -> Seq(QueuedPdu)]
    BY <2>2, <2>4 DEF With
  <2>7. /\ ContentsOf(rq, arp_queue, frames) = Taken(Contents, Route(n), 1)
        /\ 1 \in 1..Len(Contents[Route(n)]) /\ Contents[Route(n)][1] = pdu
    BY <1>3, <2>2, RouteOperations DEF Contents
  <2>8. hop \in Addr \union {Unreachable}
    OBVIOUS
  <2>9. \A p \in ToOneNode : Kept(Contents, Contents, p)
    BY KeptSame
  <2> HIDE DEF pdu, rq
  <2>10. CASE UNCHANGED <<arp_queue, frames>>
    <3>1. Contents' = Taken(Contents, Route(n), 1)
      BY <2>1, <2>7, <2>10 DEF Contents
    <3>2. \A p \in ToOneNode : Kept(Taken(Contents, Route(n), 1), Contents', p)
      BY <3>1, KeptSame
    <3>. QED
      BY <1>1, <2>2, <2>7, <2>9, <3>2, VanishOutcome
  <2>11. CASE /\ hop # Unreachable
              /\ frames' = WithFrame(frames, n, hop, Data(pdu))
              /\ UNCHANGED arp_queue
    <3>1. CASE <<n, hop>> \in Links
      <4>1. frames' = With(frames, <<n, hop>>, Append(frames[<<n, hop>>], Data(pdu)))
        BY <2>11 DEF WithFrame, With
      <4>2. Data(pdu) \in Frame /\ Carried(Data(pdu)) = pdu
        BY <2>5, FrameFacts, ItemFacts
      <4>3. Contents' = Put(ContentsOf(rq, arp_queue, frames), Cable(<<n, hop>>), pdu)
        <5>1. Contents' = ContentsOf(rq, arp_queue,
                  With(frames, <<n, hop>>, Append(frames[<<n, hop>>], Data(pdu))))
          BY <2>1, <2>11, <4>1 DEF Contents
        <5>2. ContentsOf(rq, arp_queue,
                  With(frames, <<n, hop>>, Append(frames[<<n, hop>>], Data(pdu))))
                  = Put(ContentsOf(rq, arp_queue, frames), Cable(<<n, hop>>),
                        Carried(Data(pdu)))
          BY <2>2, <2>6, <3>1, <4>2, CableOperations
        <5>. QED
          BY <4>2, <5>1, <5>2
      <4>4. Contents' = Put(Taken(Contents, Route(n), 1), Cable(<<n, hop>>), pdu)
        BY <2>7, <4>3
      <4>5. /\ Cable(<<n, hop>>) \in Place
            /\ NodeOf(Route(n)) = NodeOf(Cable(<<n, hop>>))
        BY <3>1, PlaceFacts
      <4>6. \A p \in ToOneNode :
                Kept(Put(Taken(Contents, Route(n), 1), Cable(<<n, hop>>), pdu), Contents', p)
        BY <4>4, KeptSame
      <4>. QED
        BY <1>1, <2>2, <2>5, <2>7, <2>9, <4>5, <4>6, ShiftOutcome
    <3>2. CASE <<n, hop>> \notin Links
      <4>1. frames' = frames
        BY <2>2, <2>11, <3>2 DEF WithFrame
      <4>2. Contents' = Taken(Contents, Route(n), 1)
        BY <2>1, <2>7, <2>11, <4>1 DEF Contents
      <4>3. \A p \in ToOneNode : Kept(Taken(Contents, Route(n), 1), Contents', p)
        BY <4>2, KeptSame
      <4>. QED
        BY <1>1, <2>2, <2>7, <2>9, <4>3, VanishOutcome
    <3>. QED
      BY <3>1, <3>2
  <2>12. CASE /\ hop # Unreachable
              /\ frames' = WithBroadcast(frames, n, ArpRequest(hop))
              /\ ArpEnqueue(n, hop, pdu)
    <3> DEFINE w == [next_hop |-> hop, pdu |-> pdu]
               aq == With(arp_queue, n, Append(arp_queue[n], w))
    <3>1. w \in QueuedWaiting /\ w.pdu = pdu /\ hop \in Addr
      BY <2>4, <2>8, <2>12 DEF QueuedWaiting
    <3>2. arp_queue' = aq
      BY <2>12 DEF ArpEnqueue, With
    <3> HIDE DEF w
    <3>3. aq \in [Addr -> Seq(QueuedWaiting)]
      <4>1. Append(arp_queue[n], w) \in Seq(QueuedWaiting)
        BY <2>2, <3>1
      <4>. QED
        BY <2>2, <4>1 DEF With
    <3>4. ContentsOf(rq, aq, frames) = Put(Taken(Contents, Route(n), 1), Arp(n), pdu)
      <4>1. ContentsOf(rq, aq, frames)
                = Put(ContentsOf(rq, arp_queue, frames), Arp(n), w.pdu)
        BY <2>2, <2>6, <3>1, ArpOperations
      <4>. QED
        BY <2>7, <3>1, <4>1
    <3> HIDE DEF aq
    <3>5. ArpRequest(hop) \in Frame /\ Carried(ArpRequest(hop)) = NoPdu
      BY <3>1, FrameFacts, ItemFacts
    <3>6. Contents' = ContentsOf(rq, aq, WithBroadcast(frames, n, ArpRequest(hop)))
      BY <2>1, <2>12, <3>2 DEF Contents
    <3>7. ASSUME NEW p \in ToOneNode
          PROVE  Kept(Put(Taken(Contents, Route(n), 1), Arp(n), pdu), Contents', p)
      <4>1. Carried(ArpRequest(hop)).id # p
        BY <3>5, ItemFacts
      <4>2. Kept(ContentsOf(rq, aq, frames), Contents', p)
        BY <2>2, <2>6, <3>3, <3>5, <3>6, <4>1, BroadcastIsNoise
      <4>. QED
        BY <3>4, <4>2
    <3>8. Arp(n) \in Place /\ NodeOf(Route(n)) = NodeOf(Arp(n))
      BY PlaceFacts
    <3>. QED
      BY <1>1, <2>2, <2>5, <2>7, <2>9, <3>7, <3>8, ShiftOutcome
  <2>. QED
    BY <2>1, <2>10, <2>11, <2>12
<1>. QED
  BY <1>2, <1>3

LEMMA TakeFrameContents ==
    ASSUME TypeInv, NEW n \in Addr, NEW s \in Addr,
           <<s, n>> \in Links, frames[<<s, n>>] # <<>>
    PROVE  /\ Cable(<<s, n>>) \in Place
           /\ ContentsOf(route_queue, arp_queue, TakeFrame(n, s))
                  = Taken(Contents, Cable(<<s, n>>), 1)
           /\ 1 \in 1..Len(Contents[Cable(<<s, n>>)])
           /\ Contents[Cable(<<s, n>>)][1] = Carried(Head(frames[<<s, n>>]))
           /\ ContentsOf(route_queue, arp_queue, TakeFrame(n, s)) \in Whole
           /\ \A p : p # Carried(Head(frames[<<s, n>>])).id
                  => Kept(Contents, ContentsOf(route_queue, arp_queue, TakeFrame(n, s)), p)
<1> DEFINE c == <<s, n>>
<1>1. TakeFrame(n, s) = With(frames, c, Tail(frames[c]))
  BY DEF TakeFrame, With
<1>2. /\ ContentsOf(route_queue, arp_queue, With(frames, c, Tail(frames[c])))
             = Taken(Contents, Cable(c), 1)
      /\ 1 \in 1..Len(Contents[Cable(c)])
      /\ Contents[Cable(c)][1] = Carried(Head(frames[c]))
  BY ContentsTypes, CableOperations DEF Contents
<1>3. Cable(c) \in Place /\ Contents \in Whole
  BY ContentsTypes, PlaceFacts
<1>4. /\ Taken(Contents, Cable(c), 1) \in Whole
      /\ \A p : p # Contents[Cable(c)][1].id => Kept(Contents, Taken(Contents, Cable(c), 1), p)
  BY <1>2, <1>3, TakenType, TakenKeeps
<1>. QED
  BY <1>1, <1>2, <1>3, <1>4

\* An ARP frame is taken from a cable.
LEMMA TakeArpFrame ==
    ASSUME TypeInv, NEW n \in Addr, NEW s \in Addr,
           <<s, n>> \in Links, frames[<<s, n>>] # <<>>,
           Head(frames[<<s, n>>]).kind # "data"
    PROVE  /\ ContentsOf(route_queue, arp_queue, TakeFrame(n, s)) \in Whole
           /\ TakeFrame(n, s) \in [Links -> Seq(Frame)]
           /\ \A p \in ToOneNode :
                  Kept(Contents, ContentsOf(route_queue, arp_queue, TakeFrame(n, s)), p)
<1>1. Carried(Head(frames[<<s, n>>])) = NoPdu
  BY DEF Carried
<1>2. \A p \in ToOneNode : p # NoPdu.id
  BY ItemFacts
<1>3. TakeFrame(n, s) \in [Links -> Seq(Frame)]
  BY TakeFrameType DEF TypeInv
<1>. QED
  BY <1>1, <1>2, <1>3, TakeFrameContents

LEMMA HandleArpRequestOutcome ==
    ASSUME TypeInv, NEW n \in Addr, NEW s \in Addr, HandleArpRequest(n, s)
    PROVE  Outcome
<1> DEFINE V == ContentsOf(route_queue, arp_queue, TakeFrame(n, s))
<1>1. /\ <<s, n>> \in Links /\ frames[<<s, n>>] # <<>>
      /\ Head(frames[<<s, n>>]).kind # "data"
      /\ UNCHANGED <<route_queue, arp_queue>> /\ UNCHANGED record
  BY DEF HandleArpRequest, Receives
<1>2. /\ V \in Whole /\ TakeFrame(n, s) \in [Links -> Seq(Frame)]
      /\ \A p \in ToOneNode : Kept(Contents, V, p)
  BY <1>1, TakeArpFrame
<1>3. CASE frames' = TakeFrame(n, s)
  <2>1. Contents' = V
    BY <1>1, <1>3 DEF Contents
  <2>. QED
    BY <1>1, <1>2, <2>1, NothingMovesOutcome
<1>4. CASE frames' = WithFrame(TakeFrame(n, s), n, s, ArpResponse(n))
  <2> DEFINE fr == TakeFrame(n, s)
  <2>1. <<n, s>> \in Links
    BY <1>1, NetworkAssumption
  <2>2. frames' = With(fr, <<n, s>>, Append(fr[<<n, s>>], ArpResponse(n)))
    BY <1>4 DEF WithFrame, With
  <2>3. ArpResponse(n) \in Frame /\ Carried(ArpResponse(n)) = NoPdu /\ NoPdu \in Item
    BY FrameFacts, ItemFacts
  <2>4. Contents' = ContentsOf(route_queue, arp_queue,
                               With(fr, <<n, s>>, Append(fr[<<n, s>>], ArpResponse(n))))
    BY <1>1, <2>2 DEF Contents
  <2> HIDE DEF fr
  <2>5. fr \in [Links -> Seq(Frame)] /\ V = ContentsOf(route_queue, arp_queue, fr)
    BY <1>2 DEF fr
  <2>6. ContentsOf(route_queue, arp_queue,
                   With(fr, <<n, s>>, Append(fr[<<n, s>>], ArpResponse(n))))
            = Put(ContentsOf(route_queue, arp_queue, fr), Cable(<<n, s>>),
                  Carried(ArpResponse(n)))
    BY <2>1, <2>3, <2>5, ContentsTypes, CableOperations
  <2>7. Contents' = Put(V, Cable(<<n, s>>), NoPdu)
    BY <2>3, <2>4, <2>5, <2>6
  <2> HIDE DEF V
  <2>8. ASSUME NEW p \in ToOneNode PROVE Kept(Contents, Contents', p)
    <3>1. p # NoPdu.id /\ Cable(<<n, s>>) \in Place
      BY <2>1, ItemFacts, PlaceFacts
    <3>2. Kept(V, Contents', p)
      BY <1>2, <2>3, <2>7, <3>1, PutKeeps
    <3>. QED
      BY <1>2, <3>2, KeptTwice
  <2>. QED
    BY <1>1, <2>8, NothingMovesOutcome
<1>. QED
  BY <1>3, <1>4 DEF HandleArpRequest

LEMMA HandleArpResponseOutcome ==
    ASSUME TypeInv, CopyInv, NEW n \in Addr, NEW s \in Addr, HandleArpResponse(n, s)
    PROVE  Outcome
<1> DEFINE fr == TakeFrame(n, s)
           V == ContentsOf(route_queue, arp_queue, fr)
           hop == Head(frames[<<s, n>>]).addr
           waits == WaitsFor(arp_queue[n], hop)
           first == Min(waits)
           pdu == arp_queue[n][first].pdu
<1>1. /\ <<s, n>> \in Links /\ frames[<<s, n>>] # <<>>
      /\ Head(frames[<<s, n>>]).kind # "data"
      /\ frames' = fr
      /\ CheckArpQueue(n, hop)
      /\ UNCHANGED record
  BY DEF HandleArpResponse, Receives
<1>2. /\ V \in Whole /\ fr \in [Links -> Seq(Frame)]
      /\ \A p \in ToOneNode : Kept(Contents, V, p)
  BY <1>1, TakeArpFrame
<1> HIDE DEF fr, hop
<1>3. CASE waits = {}
  <2>1. UNCHANGED <<arp_queue, route_queue>>
    BY <1>1, <1>3 DEF CheckArpQueue
  <2>2. Contents' = V
    BY <1>1, <2>1 DEF Contents
  <2>. QED
    BY <1>1, <1>2, <2>2, NothingMovesOutcome
<1>4. CASE waits # {}
  <2> DEFINE aq == With(arp_queue, n, RemoveAt(arp_queue[n], first))
  <2>1. /\ route_queue \in [Addr -> Seq(QueuedPdu)]
        /\ arp_queue \in [Addr -> Seq(QueuedWaiting)]
        /\ arp_queue[n] \in Seq(QueuedWaiting)
    BY ContentsTypes
  <2>2. first \in waits
    BY <1>4, <2>1, FirstWaiting
  <2>3. first \in DOMAIN arp_queue[n] /\ first \in 1..Len(arp_queue[n])
    BY <2>1, <2>2 DEF WaitsFor
  <2>4. arp_queue' = aq /\ SendMipPacket(n, pdu)
    BY <1>1, <1>4 DEF CheckArpQueue, ArpDequeue, With
  <2> HIDE DEF first, waits
  <2>5. RemoveAt(arp_queue[n], first) \in Seq(QueuedWaiting)
    BY <2>1, <2>3, RemoveAtFacts
  <2>6. aq \in [Addr -> Seq(QueuedWaiting)]
    BY <2>1, <2>5 DEF With
  <2>7. arp_queue[n][first] \in QueuedWaiting
    BY <2>1, <2>3
  <2>8. pdu \in QueuedPdu
    BY <2>7, PduFacts
  <2>9. pdu \in Item /\ pdu.id \in ToOneNode
    BY <2>8, PduFacts, ItemFacts
  <2>10. /\ ContentsOf(route_queue, aq, fr) = Taken(V, Arp(n), first)
         /\ first \in 1..Len(V[Arp(n)]) /\ V[Arp(n)][first] = pdu
    BY <1>2, <2>1, <2>3, ArpOperations
  <2>11. Arp(n) \in Place /\ Route(n) \in Place /\ NodeOf(Arp(n)) = NodeOf(Route(n))
    BY PlaceFacts
  <2> HIDE DEF pdu, aq
  <2>12. CASE routing_usd[n] # "closed"
    <3>1. route_queue' = With(route_queue, n, Append(route_queue[n], pdu))
      BY <2>4, <2>12 DEF SendMipPacket, RouteEnqueue, With
    <3>2. Contents' = ContentsOf(With(route_queue, n, Append(route_queue[n], pdu)), aq, fr)
      BY <1>1, <2>4, <3>1 DEF Contents
    <3>3. ContentsOf(With(route_queue, n, Append(route_queue[n], pdu)), aq, fr)
              = Put(ContentsOf(route_queue, aq, fr), Route(n), pdu)
      BY <1>2, <2>1, <2>6, <2>8, RouteOperations
    <3>4. Contents' = Put(Taken(V, Arp(n), first), Route(n), pdu)
      BY <2>10, <3>2, <3>3
    <3> HIDE DEF V
    <3>5. \A p \in ToOneNode : Kept(Put(Taken(V, Arp(n), first), Route(n), pdu), Contents', p)
      BY <3>4, KeptSame
    <3>. QED
      BY <1>1, <1>2, <2>9, <2>10, <2>11, <3>5, ShiftOutcome
  <2>13. CASE routing_usd[n] = "closed"
    <3>1. UNCHANGED route_queue
      BY <2>4, <2>13 DEF SendMipPacket
    <3>2. Contents' = Taken(V, Arp(n), first)
      BY <1>1, <2>4, <2>10, <3>1 DEF Contents
    <3> HIDE DEF V
    <3>3. \A p \in ToOneNode : Kept(Taken(V, Arp(n), first), Contents', p)
      BY <3>2, KeptSame
    <3>. QED
      BY <1>1, <1>2, <2>10, <2>11, <3>3, VanishOutcome
  <2>. QED
    BY <2>12, <2>13
<1>. QED
  BY <1>3, <1>4

LEMMA LoseFrameOutcome ==
    ASSUME TypeInv, CopyInv, NEW n \in Addr, NEW s \in Addr, LoseFrame(n, s)
    PROVE  Outcome
<1>1. /\ <<s, n>> \in Links /\ frames[<<s, n>>] # <<>>
      /\ frames' = TakeFrame(n, s)
      /\ UNCHANGED <<route_queue, arp_queue>> /\ UNCHANGED record
  BY DEF LoseFrame, queues
<1>2. Contents' = ContentsOf(route_queue, arp_queue, TakeFrame(n, s))
  BY <1>1 DEF Contents
<1>3. /\ Cable(<<s, n>>) \in Place /\ Contents \in Whole
      /\ Contents' = Taken(Contents, Cable(<<s, n>>), 1)
      /\ 1 \in 1..Len(Contents[Cable(<<s, n>>)])
  BY <1>1, <1>2, TakeFrameContents, ContentsTypes
<1>4. \A p \in ToOneNode : /\ Kept(Contents, Contents, p)
                           /\ Kept(Taken(Contents, Cable(<<s, n>>), 1), Contents', p)
  BY <1>3, KeptSame
<1>. QED
  BY <1>1, <1>3, <1>4, VanishOutcome

LEMMA ForwardMipPduOutcome ==
    ASSUME TypeInv, CopyInv, NEW n \in Addr, NEW s \in Addr, ForwardMipPdu(n, s)
    PROVE  Outcome
<1> DEFINE pdu == Head(frames[<<s, n>>]).pdu
           p0 == pdu.id
           next == [pdu EXCEPT !.ttl = DecrementTtl(@)]
           x == Cable(<<s, n>>)
           fr == TakeFrame(n, s)
           V == ContentsOf(route_queue, arp_queue, fr)
<1>1. /\ <<s, n>> \in Links /\ frames[<<s, n>>] # <<>>
      /\ Head(frames[<<s, n>>]).kind = "data"
      /\ frames' = fr /\ UNCHANGED <<sent, arp_queue>>
      /\ hops' = [hops EXCEPT ![p0] = @ + 1]
  BY DEF ForwardMipPdu, Receives
<1>2. \/ /\ Dst[p0] \in {n, Broadcast}
         /\ delivered' = [delivered EXCEPT ![p0] = Append(@, n)]
         /\ UNCHANGED <<requests, route_queue>>
      \/ /\ Dst[p0] \notin {n, Broadcast}
         /\ UNCHANGED <<requests, route_queue, delivered>>
      \/ /\ Dst[p0] \notin {n, Broadcast}
         /\ DecrementTtl(pdu.ttl) # 0
         /\ SendMipPacket(n, next)
         /\ UNCHANGED delivered
  BY DEF ForwardMipPdu
<1>3. Head(frames[<<s, n>>]) \in Frame /\ fr \in [Links -> Seq(Frame)]
  BY <1>1, TakeFrameType DEF TypeInv
<1>4. pdu \in Pdu /\ p0 \in Packet /\ pdu.ttl \in 0..MaxTtl
  BY <1>1, <1>3, FrameFacts, PduFacts
<1>5. Carried(Head(frames[<<s, n>>])) = pdu
  BY <1>1 DEF Carried
<1>6. /\ x \in Place /\ V = Taken(Contents, x, 1) /\ V \in Whole
      /\ 1 \in 1..Len(Contents[x]) /\ Contents[x][1] = pdu /\ Contents \in Whole
      /\ \A p : p # p0 => Kept(Contents, V, p)
  BY <1>1, <1>5, TakeFrameContents, ContentsTypes
<1>7. hops \in [Packet -> Nat] /\ delivered \in [Packet -> Seq(Addr)]
  BY DEF TypeInv, RecordTypes
<1>8. ToOneNode \subseteq Packet /\ (Dst[p0] # Broadcast => p0 \in ToOneNode)
  BY <1>4 DEF ToOneNode
<1>9. next = [id |-> p0, ttl |-> DecrementTtl(pdu.ttl)]
  BY <1>4 DEF Pdu
<1>10. DecrementTtl(pdu.ttl) \in 0..MaxTtl
  BY <1>4, DecrementRange
<1>11. Dst[p0] # Broadcast => next \in QueuedPdu /\ next \in Item
  <2> HIDE DEF pdu, p0, next
  <2>. QED
    BY <1>8, <1>9, <1>10, ItemFacts DEF QueuedPdu
<1>12. next.id = p0 /\ next.ttl = DecrementTtl(pdu.ttl)
  BY <1>9
<1> HIDE DEF pdu, p0, next, x, fr, V
<1>13. ASSUME NEW p \in ToOneNode, p # p0 PROVE Rests(p)
  BY <1>1, <1>2, <1>7, <1>8, <1>13 DEF Rests
<1>14. p0 \in ToOneNode => /\ hops'[p0] = hops[p0] + 1 /\ (p0 \in sent' <=> p0 \in sent)
  BY <1>1, <1>4, <1>7
<1>15. p0 \in ToOneNode => /\ Once(Contents, p0) /\ PlacesOf(Contents, p0) = {x}
                           /\ PlacesOf(V, p0) = {}
  <2> SUFFICES ASSUME p0 \in ToOneNode
               PROVE  /\ Once(Contents, p0) /\ PlacesOf(Contents, p0) = {x}
                      /\ PlacesOf(V, p0) = {}
    OBVIOUS
  <2>1. Contents[x][1].id = p0
    BY <1>6 DEF p0
  <2>2. Once(Contents, p0)
    BY DEF CopyInv, PacketInv
  <2>3. Once(Contents, Contents[x][1].id)
    BY <2>1, <2>2
  <2>4. /\ PlacesOf(Contents, Contents[x][1].id) = {x}
        /\ PlacesOf(Taken(Contents, x, 1), Contents[x][1].id) = {}
    BY <1>6, <2>3, TakenIsGone
  <2>. QED
    BY <1>6, <2>1, <2>2, <2>4
<1>16. SUFFICES \A p \in ToOneNode : Stays(p) \/ (p = p0 /\ Changes(p))
  <2>1. ASSUME NEW q, \A p \in ToOneNode : Stays(p) \/ (p = q /\ Changes(p)) PROVE Outcome
    BY <2>1 DEF Outcome
  <2>. QED
    BY <2>1
<1>17. SUFFICES ASSUME NEW p \in ToOneNode PROVE Stays(p) \/ (p = p0 /\ Changes(p))
  OBVIOUS
<1>18. CASE UNCHANGED route_queue
  <2>1. Contents' = V
    BY <1>1, <1>18 DEF Contents, V
  <2>2. CASE p # p0
    BY <1>6, <1>13, <2>1, <2>2 DEF Stays
  <2>3. CASE p = p0
    <3>1. Dst[p0] # Broadcast
      BY <2>3 DEF ToOneNode
    <3>2. \/ n = Dst[p0] /\ delivered'[p0] = Append(delivered[p0], n)
          \/ n # Dst[p0] /\ delivered'[p0] = delivered[p0]
      BY <1>2, <1>4, <1>7, <3>1
    <3>3. CrossesTo(p, s, n)
      BY <1>1, <1>14, <1>15, <2>1, <2>3, <3>2 DEF CrossesTo, x
    <3>. QED
      BY <2>3, <3>3 DEF Changes
  <2>. QED
    BY <2>2, <2>3
<1>19. CASE ~UNCHANGED route_queue
  <2>1. /\ Dst[p0] \notin {n, Broadcast} /\ DecrementTtl(pdu.ttl) # 0
        /\ SendMipPacket(n, next) /\ UNCHANGED delivered
    BY <1>2, <1>19
  <2>2. route_queue' = With(route_queue, n, Append(route_queue[n], next))
    BY <1>19, <2>1 DEF SendMipPacket, RouteEnqueue, With
  <2>3. next \in QueuedPdu /\ next \in Item /\ p0 \in ToOneNode
    BY <1>8, <1>11, <2>1
  <2>4. Contents' = ContentsOf(With(route_queue, n, Append(route_queue[n], next)),
                               arp_queue, fr)
    BY <1>1, <2>2 DEF Contents
  <2>5. ContentsOf(With(route_queue, n, Append(route_queue[n], next)), arp_queue, fr)
            = Put(ContentsOf(route_queue, arp_queue, fr), Route(n), next)
    BY <1>3, <2>3, ContentsTypes, RouteOperations
  <2>6. Contents' = Put(V, Route(n), next) /\ Route(n) \in Place
    BY <2>4, <2>5, PlaceFacts DEF V
  <2>7. CASE p # p0
    <3>1. Kept(V, Contents', p)
      BY <1>6, <1>12, <2>3, <2>6, <2>7, PutKeeps
    <3>2. Kept(Contents, Contents', p)
      BY <1>6, <2>7, <3>1, KeptTwice
    <3>. QED
      BY <1>13, <2>7, <3>2 DEF Stays
  <2>8. CASE p = p0
    <3>1. PlacesOf(V, next.id) = {}
      BY <1>12, <1>15, <2>3
    <3>2. IsIn(Contents', Route(n), next)
      BY <1>6, <2>3, <2>6, <3>1, PutIsThere
    <3>3. ASSUME NEW b \in Int, Within(Contents, p0, b) PROVE Within(Contents', p0, b - 1)
      <4>1. CablesLeft(pdu.ttl) <= b
        BY <1>6, <3>3 DEF Within, p0
      <4>2. /\ CablesLeft(pdu.ttl) \in Nat
            /\ CablesLeft(DecrementTtl(pdu.ttl)) = CablesLeft(pdu.ttl) - 1
        BY <1>4, <2>1, DecrementFacts
      <4>3. CablesLeft(next.ttl) <= b - 1 /\ b - 1 \in Int
        BY <1>12, <4>1, <4>2
      <4>. QED
        BY <1>12, <3>2, <4>3 DEF IsIn
    <3>4. /\ PlacesOf(Contents', p0) = {Route(n)} /\ Once(Contents', p0)
      BY <1>12, <3>2 DEF IsIn
    <3>5. n # Dst[p0] /\ delivered'[p0] = delivered[p0]
      BY <2>1
    <3>6. CrossesTo(p, s, n)
      BY <1>1, <1>14, <1>15, <2>3, <2>8, <3>3, <3>4, <3>5 DEF CrossesTo, x
    <3>. QED
      BY <2>8, <3>6 DEF Changes
  <2>. QED
    BY <2>7, <2>8
<1>. QED
  BY <1>18, <1>19

LEMMA NextOutcome ==
    ASSUME TypeInv, CopyInv, [Next]_vars
    PROVE  Outcome
<1>1. CASE UNCHANGED vars
  BY <1>1, UnchangedOutcome DEF vars, record
<1>2. ASSUME NEW n \in Addr, NEW p \in Packet, HandleUsdEvent(n, p) PROVE Outcome
  BY <1>2, HandleUsdEventOutcome
<1>3. ASSUME NEW n \in Addr, ReceiveRoutingResponse(n) PROVE Outcome
  BY <1>3, ReadsAnAnswer, UseResponseOutcome DEF ReceiveRoutingResponse
<1>4. ASSUME NEW n \in Addr, NEW s \in Addr, HandleRsdEvent(n, s) PROVE Outcome
  BY <1>4, HandleArpRequestOutcome, HandleArpResponseOutcome, ForwardMipPduOutcome
     DEF HandleRsdEvent
<1>5. ASSUME NEW n \in Addr,
             \/ Answer(n) \/ RoutingdExit(n) \/ RoutingdConnect(n)
             \/ DescriptorReused(n) \/ ClientLeaves(n)
      PROVE  Outcome
  BY <1>5, UnchangedOutcome
     DEF Answer, RoutingdExit, RoutingdConnect, DescriptorReused, ClientLeaves, queues
<1>6. ASSUME NEW n \in Addr, NEW s \in Addr, LoseFrame(n, s) PROVE Outcome
  BY <1>6, LoseFrameOutcome
<1>. QED
  BY <1>1, <1>2, <1>3, <1>4, <1>5, <1>6 DEF Next

LEMMA InitCopies == Init => CopyInv
<1> SUFFICES ASSUME Init, NEW p \in ToOneNode PROVE PacketInv(p)
  BY DEF CopyInv
<1>1. /\ p \notin sent /\ hops[p] = 0 /\ delivered[p] = <<>>
  BY PduFacts DEF Init
<1>2. TypeInv /\ Contents \in Whole
  BY InitTypes, ContentsTypes
<1>3. /\ \A n \in Addr : Contents[Route(n)] = <<>> /\ Contents[Arp(n)] = PdusOf(<<>>)
      /\ \A c \in Links : Contents[Cable(c)] = CarriedBy(<<>>)
  <2>1. /\ route_queue \in [Addr -> Seq(QueuedPdu)]
        /\ arp_queue \in [Addr -> Seq(QueuedWaiting)]
        /\ frames \in [Links -> Seq(Frame)]
    BY <1>2, ContentsTypes
  <2>2. /\ \A n \in Addr : /\ Contents[Route(n)] = route_queue[n]
                           /\ Contents[Arp(n)] = PdusOf(arp_queue[n])
        /\ \A c \in Links : Contents[Cable(c)] = CarriedBy(frames[c])
    BY <2>1, ContentsFacts DEF Contents
  <2>. QED
    BY <2>2 DEF Init
<1>4. Len(<<>>) = 0 /\ Len(PdusOf(<<>>)) = 0 /\ Len(CarriedBy(<<>>)) = 0
  BY DEF PdusOf, CarriedBy
<1>5. ASSUME NEW y \in Place PROVE Len(Contents[y]) = 0
  BY <1>3, <1>4, PlaceFacts
<1>6. PlacesOf(Contents, p) = {}
  BY <1>5 DEF PlacesOf, Has
<1>7. Budget[p] \in Nat /\ Budget[p] - hops[p] \in Int /\ hops[p] \in 0..Budget[p]
  BY <1>1, BudgetFacts
<1>8. Once(Contents, p) /\ Within(Contents, p, Budget[p] - hops[p])
  BY <1>6, <1>7, NowhereIsGood
<1>. QED
  BY <1>1, <1>6, <1>7, <1>8 DEF PacketInv

LEMMA AlwaysCopies == Spec => [](TypeInv /\ CopyInv)
<1>1. Init => TypeInv /\ CopyInv
  BY InitTypes, InitCopies
<1>2. TypeInv /\ CopyInv /\ [Next]_vars => (TypeInv /\ CopyInv)'
  BY Step, NextOutcome, OutcomeKeepsInv
<1>. QED
  BY <1>1, <1>2, PTL DEF Spec

\* No packet crosses more cables than its client asked for, even when routes
\* loop, frames are lost, and the time to live asked for wraps to zero and is
\* decremented to the maximum (handle_usd_event, forward_mip_pdu).
THEOREM NeverBeyondBudget == Spec => []WithinBudget
<1>1. TypeInv /\ CopyInv => WithinBudget
  <2> SUFFICES ASSUME CopyInv, NEW p \in ToOneNode PROVE hops[p] <= Budget[p]
    BY DEF WithinBudget
  <2>1. hops[p] \in 0..Budget[p] /\ Budget[p] \in Nat
    BY BudgetFacts DEF CopyInv, PacketInv
  <2>. QED
    BY <2>1
<1>. QED
  BY <1>1, AlwaysCopies, PTL
---------------------------------------------------------------------------
(* At most one copy.                                                       *)

LEMMA SmallSet ==
    ASSUME NEW S, \A u, v \in S : u = v
    PROVE  Cardinality(S) = IF S = {} THEN 0 ELSE 1
<1>1. CASE S = {}
  BY <1>1, FS_EmptySet
<1>2. CASE S # {}
  <2>1. PICK u : S = {u}
    BY <1>2
  <2>. QED
    BY <1>2, <2>1, FS_Singleton
<1>. QED
  BY <1>1, <1>2

\* However often a packet changes queues, there is no second copy of it: not
\* after an ARP response, which makes it ask for its route again, nor after an
\* answer that comes late (check_arp_queue, receive_routing_response).
THEOREM NeverTwice == Spec => []AtMostOneCopy
<1>1. TypeInv /\ CopyInv => AtMostOneCopy
  <2> SUFFICES ASSUME TypeInv, CopyInv, NEW p \in ToOneNode
               PROVE  Copies(p) + Len(delivered[p]) <= 1
    BY DEF AtMostOneCopy
  <2> DEFINE R == InRouteQueue(p)
             A == InArpQueue(p)
             C == OnCable(p)
  <2>1. /\ Once(Contents, p) /\ delivered[p] \in {<<>>, <<Dst[p]>>}
        /\ PlacesOf(Contents, p) # {} => delivered[p] = <<>>
    BY DEF CopyInv, PacketInv
  <2>2. /\ route_queue \in [Addr -> Seq(QueuedPdu)]
        /\ arp_queue \in [Addr -> Seq(QueuedWaiting)]
        /\ frames \in [Links -> Seq(Frame)]
    BY ContentsTypes
  <2>3. /\ \A n \in Addr : /\ Contents[Route(n)] = route_queue[n]
                           /\ Contents[Arp(n)] = PdusOf(arp_queue[n])
        /\ \A c \in Links : Contents[Cable(c)] = CarriedBy(frames[c])
    BY <2>2, ContentsFacts DEF Contents
  <2>4. \A u \in R : \E n \in Addr : \E i \in 1..Len(Contents[Route(n)]) :
            u = <<n, i>> /\ Contents[Route(n)][i].id = p
    <3> SUFFICES ASSUME NEW n \in Addr, NEW i \in PlacesIn(route_queue[n], p)
                 PROVE  i \in 1..Len(Contents[Route(n)]) /\ Contents[Route(n)][i].id = p
      BY DEF InRouteQueue
    <3>1. route_queue[n] \in Seq(QueuedPdu)
      BY <2>2
    <3>. QED
      BY <2>3, <3>1 DEF PlacesIn
  <2>5. \A u \in A : \E n \in Addr : \E i \in 1..Len(Contents[Arp(n)]) :
            u = <<n, i>> /\ Contents[Arp(n)][i].id = p
    <3> SUFFICES ASSUME NEW n \in Addr, NEW i \in DOMAIN arp_queue[n],
                        arp_queue[n][i].pdu.id = p
                 PROVE  i \in 1..Len(Contents[Arp(n)]) /\ Contents[Arp(n)][i].id = p
      BY DEF InArpQueue
    <3>1. arp_queue[n] \in Seq(QueuedWaiting) /\ i \in 1..Len(arp_queue[n])
      BY <2>2
    <3>. QED
      BY <2>3, <3>1, PdusOfType
  <2>6. \A u \in C : \E c \in Links : \E i \in 1..Len(Contents[Cable(c)]) :
            u = <<c, i>> /\ Contents[Cable(c)][i].id = p
    <3> SUFFICES ASSUME NEW c \in Links, NEW i \in DOMAIN frames[c],
                        frames[c][i].kind = "data", frames[c][i].pdu.id = p
                 PROVE  i \in 1..Len(Contents[Cable(c)]) /\ Contents[Cable(c)][i].id = p
      BY DEF OnCable
    <3>1. frames[c] \in Seq(Frame) /\ i \in 1..Len(frames[c])
      BY <2>2
    <3>2. CarriedBy(frames[c])[i] = frames[c][i].pdu
      BY <3>1, CarriedByType DEF Carried
    <3>. QED
      BY <2>3, <3>1, <3>2, CarriedByType
  <2> HIDE DEF R, A, C
  <2>7. /\ \A u, v \in R : u = v
        /\ \A u, v \in A : u = v
        /\ \A u, v \in C : u = v
    <3>1. \A u, v \in R : u = v
      BY <2>1, <2>4, PlaceFacts DEF Once
    <3>2. \A u, v \in A : u = v
      BY <2>1, <2>5, PlaceFacts DEF Once
    <3>3. ASSUME NEW u \in C, NEW v \in C PROVE u = v
      <4>1. PICK c \in Links : \E i \in 1..Len(Contents[Cable(c)]) :
                u = <<c, i>> /\ Contents[Cable(c)][i].id = p
        BY <2>6
      <4>2. PICK i \in 1..Len(Contents[Cable(c)]) :
                u = <<c, i>> /\ Contents[Cable(c)][i].id = p
        BY <4>1
      <4>3. PICK d \in Links : \E j \in 1..Len(Contents[Cable(d)]) :
                v = <<d, j>> /\ Contents[Cable(d)][j].id = p
        BY <2>6
      <4>4. PICK j \in 1..Len(Contents[Cable(d)]) :
                v = <<d, j>> /\ Contents[Cable(d)][j].id = p
        BY <4>3
      <4>5. Cable(c) \in Place /\ Cable(d) \in Place
        BY PlaceFacts
      <4>6. Cable(c) = Cable(d) /\ i = j
        BY <2>1, <4>2, <4>4, <4>5 DEF Once
      <4>7. c = d
        BY <4>6 DEF Cable
      <4>. QED
        BY <4>2, <4>4, <4>6, <4>7
    <3>. QED
      BY <3>1, <3>2, <3>3
  <2>8. /\ R = {} \/ A = {}
        /\ R = {} \/ C = {}
        /\ A = {} \/ C = {}
    <3>1. R = {} \/ A = {}
      BY <2>1, <2>4, <2>5, PlaceFacts DEF Once
    <3>2. R = {} \/ C = {}
      BY <2>1, <2>4, <2>6, PlaceFacts DEF Once
    <3>3. A = {} \/ C = {}
      BY <2>1, <2>5, <2>6, PlaceFacts DEF Once
    <3>. QED
      BY <3>1, <3>2, <3>3
  <2>9. R # {} \/ A # {} \/ C # {} => PlacesOf(Contents, p) # {}
    <3>1. R # {} => PlacesOf(Contents, p) # {}
      BY <2>4, PlaceFacts DEF PlacesOf, Has
    <3>2. A # {} => PlacesOf(Contents, p) # {}
      BY <2>5, PlaceFacts DEF PlacesOf, Has
    <3>3. C # {} => PlacesOf(Contents, p) # {}
      BY <2>6, PlaceFacts DEF PlacesOf, Has
    <3>. QED
      BY <3>1, <3>2, <3>3
  <2>10. /\ Cardinality(R) = IF R = {} THEN 0 ELSE 1
         /\ Cardinality(A) = IF A = {} THEN 0 ELSE 1
         /\ Cardinality(C) = IF C = {} THEN 0 ELSE 1
    BY <2>7, SmallSet
  <2>11. Copies(p) = Cardinality(R) + Cardinality(A) + Cardinality(C)
    BY DEF Copies, R, A, C
  <2>12. Len(<<>>) = 0 /\ Len(<<Dst[p]>>) = 1
    OBVIOUS
  <2>13. CASE delivered[p] = <<>>
    <3>1. Len(delivered[p]) = 0
      BY <2>12, <2>13
    <3>2. Cardinality(R) + Cardinality(A) + Cardinality(C) \in 0..1
      BY <2>8, <2>10
    <3>. QED
      BY <2>11, <3>1, <3>2
  <2>14. CASE delivered[p] # <<>>
    <3>1. Len(delivered[p]) = 1
      BY <2>1, <2>12, <2>14
    <3>2. R = {} /\ A = {} /\ C = {}
      BY <2>1, <2>9, <2>14
    <3>3. Cardinality(R) = 0 /\ Cardinality(A) = 0 /\ Cardinality(C) = 0
      BY <2>10, <3>2
    <3>. QED
      BY <2>11, <3>1, <3>3
  <2>. QED
    BY <2>13, <2>14
<1>. QED
  BY <1>1, AlwaysCopies, PTL
---------------------------------------------------------------------------
(* The daemons implement the network of Relay.tla.                         *)

LEMMA HoldersArePlaces ==
    ASSUME TypeInv, NEW p \in ToOneNode
    PROVE  Holders(p) = {NodeOf(x) : x \in PlacesOf(Contents, p)}
<1>1. /\ route_queue \in [Addr -> Seq(QueuedPdu)]
      /\ arp_queue \in [Addr -> Seq(QueuedWaiting)]
      /\ frames \in [Links -> Seq(Frame)]
  BY ContentsTypes
<1>2. /\ \A n \in Addr : /\ Contents[Route(n)] = route_queue[n]
                         /\ Contents[Arp(n)] = PdusOf(arp_queue[n])
      /\ \A c \in Links : Contents[Cable(c)] = CarriedBy(frames[c])
  BY <1>1, ContentsFacts DEF Contents
<1>3. \A c \in Links : c[1] \in Addr
  BY NetworkAssumption
<1>4. ASSUME NEW n \in Addr
      PROVE  (\E i \in DOMAIN route_queue[n] : route_queue[n][i].id = p)
                 <=> Has(Contents[Route(n)], p)
  <2>1. DOMAIN route_queue[n] = 1..Len(route_queue[n])
    BY <1>1
  <2>. QED
    BY <1>2, <2>1 DEF Has
<1>5. ASSUME NEW n \in Addr
      PROVE  (\E i \in DOMAIN arp_queue[n] : arp_queue[n][i].pdu.id = p)
                 <=> Has(Contents[Arp(n)], p)
  <2>1. arp_queue[n] \in Seq(QueuedWaiting)
    BY <1>1
  <2>2. DOMAIN arp_queue[n] = 1..Len(arp_queue[n])
    BY <2>1
  <2>3. /\ Len(PdusOf(arp_queue[n])) = Len(arp_queue[n])
        /\ \A i \in 1..Len(arp_queue[n]) : PdusOf(arp_queue[n])[i] = arp_queue[n][i].pdu
    BY <2>1, PdusOfType
  <2>. QED
    BY <1>2, <2>2, <2>3 DEF Has
<1>6. ASSUME NEW c \in Links
      PROVE  (\E i \in DOMAIN frames[c] : /\ frames[c][i].kind = "data"
                                          /\ frames[c][i].pdu.id = p)
                 <=> Has(Contents[Cable(c)], p)
  <2>1. frames[c] \in Seq(Frame)
    BY <1>1
  <2>2. DOMAIN frames[c] = 1..Len(frames[c])
    BY <2>1
  <2>3. /\ Len(CarriedBy(frames[c])) = Len(frames[c])
        /\ \A i \in 1..Len(frames[c]) : CarriedBy(frames[c])[i] = Carried(frames[c][i])
    BY <2>1, CarriedByType
  <2>4. ASSUME NEW f PROVE Carried(f).id = p <=> f.kind = "data" /\ f.pdu.id = p
    <3>1. NoPdu.id # p
      BY ItemFacts
    <3>2. CASE f.kind = "data"
      <4>1. Carried(f) = f.pdu
        BY <3>2 DEF Carried
      <4>. QED
        BY <3>2, <4>1
    <3>3. CASE f.kind # "data"
      <4>1. Carried(f) = NoPdu
        BY <3>3 DEF Carried
      <4>. QED
        BY <3>1, <3>3, <4>1
    <3>. QED
      BY <3>2, <3>3
  <2>5. /\ DOMAIN frames[c] = 1..Len(Contents[Cable(c)])
        /\ \A i \in 1..Len(Contents[Cable(c)]) :
               Contents[Cable(c)][i].id = p
                   <=> frames[c][i].kind = "data" /\ frames[c][i].pdu.id = p
    BY <1>2, <2>2, <2>3, <2>4
  <2>. QED
    BY <2>5 DEF Has
<1>7. ASSUME NEW n \in Holders(p)
      PROVE  \E x \in PlacesOf(Contents, p) : n = NodeOf(x)
  <2>1. n \in Addr
    BY DEF Holders
  <2>2. CASE Has(Contents[Route(n)], p)
    BY <2>1, <2>2, PlaceFacts DEF PlacesOf
  <2>3. CASE Has(Contents[Arp(n)], p)
    BY <2>1, <2>3, PlaceFacts DEF PlacesOf
  <2>4. CASE \E c \in Links : c[1] = n /\ Has(Contents[Cable(c)], p)
    BY <2>4, PlaceFacts DEF PlacesOf
  <2>. QED
    BY <1>4, <1>5, <1>6, <2>1, <2>2, <2>3, <2>4 DEF Holders
<1>8. ASSUME NEW x \in PlacesOf(Contents, p) PROVE NodeOf(x) \in Holders(p)
  <2>1. x \in Place /\ Has(Contents[x], p)
    BY DEF PlacesOf
  <2>2. CASE \E n \in Addr : x = Route(n)
    BY <1>4, <2>1, <2>2, PlaceFacts DEF Holders
  <2>3. CASE \E n \in Addr : x = Arp(n)
    BY <1>5, <2>1, <2>3, PlaceFacts DEF Holders
  <2>4. CASE \E c \in Links : x = Cable(c)
    BY <1>3, <1>6, <2>1, <2>4, PlaceFacts DEF Holders
  <2>. QED
    BY <2>1, <2>2, <2>3, <2>4, PlaceFacts
<1>. QED
  BY <1>7, <1>8

\* What the abstract network sees of p.
FateOf(p) ==
    IF p \notin sent THEN "unsent"
    ELSE IF PlacesOf(Contents, p) # {} THEN "moving"
    ELSE IF delivered[p] # <<>> THEN "delivered" ELSE "lost"
Seen(p) ==
    /\ Fate[p] = FateOf(p) /\ Crossed[p] = hops[p]
    /\ \/ PlacesOf(Contents, p) = {} /\ NodeAt[p] = Broadcast
       \/ \E x \in Place : PlacesOf(Contents, p) = {x} /\ NodeAt[p] = NodeOf(x)
Mapping ==
    /\ Contents \in Whole
    /\ \A p \in ToOneNode : Seen(p)
    /\ Fate = [p \in ToOneNode |-> Fate[p]]
    /\ NodeAt = [p \in ToOneNode |-> NodeAt[p]]
    /\ Crossed = [p \in ToOneNode |-> Crossed[p]]

LEMMA MappingHolds == TypeInv /\ CopyInv => Mapping
<1> SUFFICES ASSUME TypeInv, CopyInv PROVE Mapping
  OBVIOUS
<1>1. ASSUME NEW p \in ToOneNode PROVE Seen(p)
  <2>1. Holders(p) = {NodeOf(x) : x \in PlacesOf(Contents, p)}
    BY HoldersArePlaces
  <2>2. Once(Contents, p)
    BY DEF CopyInv, PacketInv
  <2>3. Fate[p] = FateOf(p) /\ Crossed[p] = hops[p]
    BY <2>1 DEF Fate, FateOf, Crossed
  <2>4. NodeAt[p] = IF Holders(p) = {} THEN Broadcast ELSE CHOOSE n \in Holders(p) : TRUE
    BY DEF NodeAt
  <2>5. CASE PlacesOf(Contents, p) = {}
    BY <2>1, <2>3, <2>4, <2>5 DEF Seen
  <2>6. CASE PlacesOf(Contents, p) # {}
    <3>1. PICK x \in Place : Has(Contents[x], p)
      BY <2>6 DEF PlacesOf
    <3>2. \A y \in Place : Has(Contents[y], p) => y = x
      BY <2>2, <3>1 DEF Once, Has
    <3>3. PlacesOf(Contents, p) = {x}
      BY <3>1, <3>2 DEF PlacesOf
    <3>4. Holders(p) = {NodeOf(x)}
      BY <2>1, <3>3
    <3>5. NodeAt[p] = NodeOf(x)
      BY <2>4, <3>4
    <3>. QED
      BY <2>3, <3>3, <3>5 DEF Seen
  <2>. QED
    BY <2>5, <2>6
<1>2. /\ Fate = [p \in ToOneNode |-> Fate[p]]
      /\ NodeAt = [p \in ToOneNode |-> NodeAt[p]]
      /\ Crossed = [p \in ToOneNode |-> Crossed[p]]
  BY DEF Fate, NodeAt, Crossed
<1>. QED
  BY <1>1, <1>2, ContentsTypes DEF Mapping

\* A function that changes for one packet at most.
LEMMA ChangesAt ==
    ASSUME NEW f, NEW g, NEW p \in ToOneNode,
           f = [q \in ToOneNode |-> f[q]], g = [q \in ToOneNode |-> g[q]],
           \A q \in ToOneNode : q # p => g[q] = f[q]
    PROVE  /\ g = [f EXCEPT ![p] = g[p]]
           /\ g[p] = f[p] => g = f
<1>. QED
  OBVIOUS

LEMMA StaysUnseen ==
    ASSUME Mapping, Mapping', NEW p \in ToOneNode, Stays(p)
    PROVE  Fate'[p] = Fate[p] /\ NodeAt'[p] = NodeAt[p] /\ Crossed'[p] = Crossed[p]
<1>1. Seen(p) /\ Seen(p)'
  BY DEF Mapping
<1>2. /\ PlacesOf(Contents', p) = PlacesOf(Contents, p)
      /\ hops'[p] = hops[p] /\ delivered'[p] = delivered[p] /\ (p \in sent' <=> p \in sent)
  BY DEF Stays, Kept, Rests
<1>. QED
  BY <1>1, <1>2 DEF Seen, FateOf

\* A step of the daemons is a step of the abstract network, or is not seen.
LEMMA OutcomeIsNetworkStep ==
    ASSUME CopyInv, Mapping, Mapping', Outcome
    PROVE  [Network!Next]_(Network!vars)
<1>1. PICK p : \A q \in ToOneNode : Stays(q) \/ (q = p /\ Changes(p))
  BY DEF Outcome
<1>2. /\ Fate = [q \in ToOneNode |-> Fate[q]] /\ Fate' = [q \in ToOneNode |-> Fate'[q]]
      /\ NodeAt = [q \in ToOneNode |-> NodeAt[q]]
      /\ NodeAt' = [q \in ToOneNode |-> NodeAt'[q]]
      /\ Crossed = [q \in ToOneNode |-> Crossed[q]]
      /\ Crossed' = [q \in ToOneNode |-> Crossed'[q]]
  BY DEF Mapping
<1>3. CASE \A q \in ToOneNode : Stays(q)
  <2>1. \A q \in ToOneNode : /\ Fate'[q] = Fate[q] /\ NodeAt'[q] = NodeAt[q]
                             /\ Crossed'[q] = Crossed[q]
    BY <1>3, StaysUnseen
  <2>2. Fate' = Fate /\ NodeAt' = NodeAt /\ Crossed' = Crossed
    BY <1>2, <2>1
  <2>. QED
    BY <2>2 DEF Network!vars
<1>4. ASSUME p \in ToOneNode, Changes(p)
      PROVE  [Network!Next]_(Network!vars)
  <2>1. /\ Seen(p) /\ Seen(p)' /\ PacketInv(p) /\ Contents \in Whole
    BY <1>4 DEF Mapping, CopyInv
  <2>2. \A q \in ToOneNode : q # p => /\ Fate'[q] = Fate[q] /\ NodeAt'[q] = NodeAt[q]
                                      /\ Crossed'[q] = Crossed[q]
    BY <1>1, StaysUnseen
  <2>3. /\ Fate' = [Fate EXCEPT ![p] = Fate'[p]]
        /\ NodeAt' = [NodeAt EXCEPT ![p] = NodeAt'[p]]
        /\ Crossed' = [Crossed EXCEPT ![p] = Crossed'[p]]
        /\ Crossed'[p] = Crossed[p] => Crossed' = Crossed
        /\ Fate'[p] = Fate[p] => Fate' = Fate
        /\ NodeAt'[p] = NodeAt[p] => NodeAt' = NodeAt
    BY <1>2, <1>4, <2>2, ChangesAt
  <2>4. ASSUME NEW what, NEW n, Fate'[p] = what,
               NodeAt'[p] = IF what = "moving" THEN n ELSE Broadcast
        PROVE  Network!Becomes(p, what, n)
    BY <2>3, <2>4 DEF Network!Becomes
  <2>5. CASE Enters(p)
    <3>1. Fate[p] = "unsent" /\ Crossed' = Crossed
      BY <2>1, <2>3, <2>5 DEF Enters, Seen, FateOf
    <3>2. delivered'[p] = <<>> /\ p \in sent'
      BY <2>1, <2>5 DEF Enters, PacketInv
    <3>3. CASE PlacesOf(Contents', p) = {}
      <4>1. Fate'[p] = "lost" /\ NodeAt'[p] = Broadcast
        BY <2>1, <3>2, <3>3 DEF Seen, FateOf
      <4>2. Network!Becomes(p, "lost", Src[p])
        BY <2>4, <4>1
      <4>. QED
        BY <1>4, <3>1, <4>2 DEF Network!Next, Network!Accept
    <3>4. CASE PlacesOf(Contents', p) # {}
      <4>1. PlacesOf(Contents', p) = {Route(Src[p])} /\ NodeOf(Route(Src[p])) = Src[p]
        BY <2>5, <3>4, PlaceFacts DEF Enters
      <4>2. Fate'[p] = "moving" /\ NodeAt'[p] = Src[p]
        BY <2>1, <3>2, <4>1 DEF Seen, FateOf
      <4>3. Network!Becomes(p, "moving", Src[p])
        BY <2>4, <4>2
      <4>. QED
        BY <1>4, <3>1, <4>3 DEF Network!Next, Network!Accept
    <3>. QED
      BY <3>3, <3>4
  <2>6. CASE Vanishes(p)
    <3>1. /\ PlacesOf(Contents, p) # {} /\ PlacesOf(Contents', p) = {}
          /\ p \in sent /\ p \in sent' /\ delivered'[p] = <<>> /\ hops'[p] = hops[p]
      BY <2>1, <2>6 DEF Vanishes, Rests, PacketInv
    <3>2. Fate[p] = "moving" /\ Fate'[p] = "lost" /\ NodeAt'[p] = Broadcast
      BY <2>1, <3>1 DEF Seen, FateOf
    <3>3. Crossed' = Crossed
      BY <2>1, <2>3, <3>1 DEF Seen
    <3>4. Network!Becomes(p, "lost", Broadcast)
      BY <2>4, <3>2
    <3>. QED
      BY <1>4, <3>2, <3>3, <3>4 DEF Network!Next, Network!Lose
  <2>7. CASE Shifts(p)
    <3>1. PICK x \in Place, y \in Place : /\ NodeOf(x) = NodeOf(y)
                                          /\ PlacesOf(Contents, p) = {x}
                                          /\ PlacesOf(Contents', p) = {y}
      BY <2>7 DEF Shifts
    <3>2. hops'[p] = hops[p] /\ (p \in sent' <=> p \in sent)
      BY <2>7 DEF Shifts, Rests
    <3>3. Fate'[p] = Fate[p]
      BY <2>1, <3>1, <3>2 DEF Seen, FateOf
    <3>4. NodeAt[p] = NodeOf(x) /\ NodeAt'[p] = NodeOf(y)
      BY <2>1, <3>1 DEF Seen
    <3>5. Crossed'[p] = Crossed[p]
      BY <2>1, <3>2 DEF Seen
    <3>. QED
      BY <2>3, <3>1, <3>3, <3>4, <3>5 DEF Network!vars
  <2>8. ASSUME NEW s \in Addr, NEW n \in Addr, CrossesTo(p, s, n)
        PROVE  [Network!Next]_(Network!vars)
    <3>1. /\ <<s, n>> \in Links /\ PlacesOf(Contents, p) = {Cable(<<s, n>>)}
          /\ hops'[p] = hops[p] + 1 /\ p \in sent /\ p \in sent'
          /\ delivered[p] = <<>>
      BY <2>1, <2>8 DEF CrossesTo, PacketInv
    <3>2. Fate[p] = "moving" /\ NodeAt[p] = s
      <4>1. NodeOf(Cable(<<s, n>>)) = s
        BY PlaceFacts
      <4>. QED
        BY <2>1, <3>1, <4>1 DEF Seen, FateOf
    <3>3. Crossed[p] < Budget[p] /\ Crossed' = [Crossed EXCEPT ![p] = @ + 1]
      <4>1. /\ Budget[p] \in Nat /\ hops[p] \in Nat /\ Budget[p] - hops[p] \in Int
        BY <1>4, <2>1, BudgetFacts DEF PacketInv
      <4>2. Budget[p] - hops[p] >= 1
        BY <2>1, <3>1, <4>1, SomeCableLeft DEF PacketInv
      <4>3. Crossed[p] = hops[p] /\ Crossed'[p] = hops[p] + 1
        BY <2>1, <3>1 DEF Seen
      <4>4. Crossed[p] < Budget[p]
        BY <4>1, <4>2, <4>3
      <4>. QED
        BY <2>3, <4>3, <4>4
    <3>4. CASE n = Dst[p] /\ PlacesOf(Contents', p) = {}
      <4>1. delivered'[p] = Append(<<>>, n)
        BY <2>8, <3>1, <3>4 DEF CrossesTo
      <4>2. delivered'[p] # <<>>
        BY <4>1
      <4>3. Fate'[p] = "delivered" /\ NodeAt'[p] = Broadcast
        BY <2>1, <3>1, <3>4, <4>2 DEF Seen, FateOf
      <4>4. Network!Becomes(p, "delivered", n)
        BY <2>4, <4>3
      <4>. QED
        BY <1>4, <3>1, <3>2, <3>3, <3>4, <4>4 DEF Network!Next, Network!Cross
    <3>5. CASE n # Dst[p] /\ PlacesOf(Contents', p) = {}
      <4>1. delivered'[p] = <<>>
        BY <2>8, <3>1, <3>5 DEF CrossesTo
      <4>2. Fate'[p] = "lost" /\ NodeAt'[p] = Broadcast
        BY <2>1, <3>1, <3>5, <4>1 DEF Seen, FateOf
      <4>3. Network!Becomes(p, "lost", n)
        BY <2>4, <4>2
      <4>. QED
        BY <1>4, <3>1, <3>2, <3>3, <3>5, <4>3 DEF Network!Next, Network!Cross
    <3>6. CASE n # Dst[p] /\ PlacesOf(Contents', p) = {Route(n)}
      <4>1. NodeOf(Route(n)) = n
        BY PlaceFacts
      <4>2. Fate'[p] = "moving" /\ NodeAt'[p] = n
        BY <2>1, <3>1, <3>6, <4>1 DEF Seen, FateOf
      <4>3. Network!Becomes(p, "moving", n)
        BY <2>4, <4>2
      <4>. QED
        BY <1>4, <3>1, <3>2, <3>3, <3>6, <4>3 DEF Network!Next, Network!Cross
    <3>. QED
      BY <2>8, <3>4, <3>5, <3>6 DEF CrossesTo
  <2>. QED
    BY <1>4, <2>5, <2>6, <2>7, <2>8 DEF Changes
<1>. QED
  BY <1>1, <1>3, <1>4

\* The daemons implement the abstract network: whatever waits in queues and
\* for ARP, a packet to one node is accepted once, is at one node at a time,
\* moves over the cables only, is delivered at its destination only and once,
\* and never comes back after it was lost (handle_usd_event, check_arp_queue,
\* receive_routing_response, forward_mip_pdu).
THEOREM Refinement == Spec => Relays
<1>1. Init => Network!Init
  <2> SUFFICES ASSUME Init PROVE Network!Init
    OBVIOUS
  <2>1. TypeInv /\ CopyInv
    BY InitTypes, InitCopies
  <2>2. Mapping
    BY <2>1, MappingHolds
  <2>3. ASSUME NEW p \in ToOneNode
        PROVE  Fate[p] = "unsent" /\ NodeAt[p] = Broadcast /\ Crossed[p] = 0
    <3>1. p \notin sent
      BY DEF Init
    <3>2. PlacesOf(Contents, p) = {} /\ hops[p] = 0
      BY <2>1, <3>1 DEF CopyInv, PacketInv
    <3>. QED
      BY <2>2, <3>1, <3>2 DEF Mapping, Seen, FateOf
  <2>. QED
    BY <2>2, <2>3 DEF Mapping, Network!Init
<1>2. TypeInv /\ CopyInv /\ (TypeInv /\ CopyInv)' /\ [Next]_vars
          => [Network!Next]_(Network!vars)
  <2> SUFFICES ASSUME TypeInv, CopyInv, TypeInv', CopyInv', [Next]_vars
               PROVE  [Network!Next]_(Network!vars)
    OBVIOUS
  <2>1. Mapping /\ Mapping'
    BY MappingHolds, PTL
  <2>. QED
    BY <2>1, NextOutcome, OutcomeIsNetworkStep
<1>. QED
  BY <1>1, <1>2, AlwaysCopies, PTL DEF Spec, Relays, Network!Spec
=============================================================================

----------------------------- MODULE MipdProofs -----------------------------
(***************************************************************************)
(* The MIP daemons, for every network, all packets and every choice of     *)
(* routes: their types, and the pairing of answers with packets.           *)
(*                                                                         *)
(* A routing response names no packet.  That it is right for the packet at *)
(* the front needs that the responses, the requests and the route queue of *)
(* a daemon stay in step.  They do until its routing daemon exits; after   *)
(* that nothing brings them into step again.                               *)
(***************************************************************************)
EXTENDS Mipd, TLAPS, WellFoundedInduction

\* Only packets to one node wait in the queues: a broadcast is not routed.
QueuedPdu == [id : ToOneNode, ttl : 0..MaxTtl]
QueuedWaiting == [next_hop : Addr, pdu : QueuedPdu]

QueueTypes ==
    /\ route_queue \in [Addr -> Seq(QueuedPdu)]
    /\ arp_queue \in [Addr -> Seq(QueuedWaiting)]
    /\ requests \in [Addr -> Seq(Addr)]
CacheTypes ==
    /\ arp_cache \in [Addr -> Seq(Addr)]
    /\ \A n \in Addr : Len(arp_cache[n]) <= CacheSize
FrameTypes == frames \in [Links -> Seq(Frame)]
SocketTypes ==
    /\ responses \in [Addr -> Seq(Response)]
    /\ late \in [Addr -> Seq(LateResponse)]
    /\ routing_usd \in [Addr -> {"routingd", "client", "closed"}]
RecordTypes ==
    /\ sent \in SUBSET Packet
    /\ hops \in [Packet -> Nat]
    /\ delivered \in [Packet -> Seq(Addr)]
    /\ losses \in 0..MaxLosses
    /\ exits \in [Addr -> Nat] /\ \A n \in Addr : exits[n] <= MaxExits[n]

TypeInv == QueueTypes /\ CacheTypes /\ FrameTypes /\ SocketTypes /\ RecordTypes

\* What has been answered and what is still asked belong to the last packets
\* that wait, one to one and in order.
InStep(answered, asked, queue) ==
    LET before == Len(queue) - Len(answered) - Len(asked)
    IN  /\ \A i \in 1..Len(answered) : answered[i].of = Dst[queue[before + i].id]
        /\ \A i \in 1..Len(asked) :
                asked[i] = Dst[queue[before + Len(answered) + i].id]
PairAt(n) ==
    /\ Lag(n) >= 0
    /\ InStep(responses[n], requests[n], route_queue[n])
    /\ routing_usd[n] # "routingd" => responses[n] = <<>> /\ requests[n] = <<>>
    /\ exits[n] = 0 => routing_usd[n] = "routingd" /\ late[n] = <<>> /\ Lag(n) = 0
PairInv == \A n \in Addr : PairAt(n)

\* What a step may do to how far behind a daemon is.
LagKept(n) ==
    /\ Lag(n)' >= Lag(n)
    /\ exits'[n] = exits[n] /\ routing_usd[n] # "client" => Lag(n)' = Lag(n)
Keeps == PairInv => PairInv' /\ \A n \in Addr : LagKept(n)
---------------------------------------------------------------------------
(* Operators.                                                              *)

LEMMA ModRange ==
    ASSUME NEW a \in Int, NEW b \in Nat \ {0} PROVE a % b \in 0..(b - 1)
<1>. QED
  OBVIOUS

LEMMA DecrementRange ==
    ASSUME NEW ttl \in 0..MaxTtl PROVE DecrementTtl(ttl) \in 0..MaxTtl
<1>1. ttl - 1 \in Int /\ MaxTtl + 1 \in Nat \ {0}
  BY PacketAssumption
<1>. QED
  BY <1>1, ModRange, PacketAssumption DEF DecrementTtl

LEMMA AskedRange == ASSUME NEW p \in Packet PROVE AskedTtl(p) \in 0..MaxTtl
<1>1. Asked[p] \in 0..255
  BY PacketAssumption
<1>2. Asked[p] \in Int /\ MaxTtl + 1 \in Nat \ {0} /\ (MaxTtl + 1) - 1 = MaxTtl
  BY <1>1, PacketAssumption
<1>3. Asked[p] % (MaxTtl + 1) \in 0..MaxTtl
  BY <1>2, ModRange
<1>4. MaxTtl \in 0..MaxTtl
  BY PacketAssumption
<1>. QED
  BY <1>3, <1>4 DEF AskedTtl

LEMMA SeqOfSubset ==
    ASSUME NEW S, NEW T, S \subseteq T, NEW q \in Seq(S) PROVE q \in Seq(T)
<1>1. Len(q) \in Nat /\ q = [i \in 1..Len(q) |-> q[i]]
  OBVIOUS
<1>2. \A i \in 1..Len(q) : q[i] \in T
  OBVIOUS
<1>. QED
  BY <1>1, <1>2

LEMMA PduFacts ==
    /\ \A p \in ToOneNode : p \in Packet /\ Dst[p] \in Addr
    /\ QueuedPdu \subseteq Pdu /\ QueuedWaiting \subseteq Waiting
    /\ \A pdu \in Pdu : pdu.id \in Packet /\ pdu.ttl \in 0..MaxTtl
    /\ \A pdu \in QueuedPdu : pdu.id \in ToOneNode /\ pdu.ttl \in 0..MaxTtl
    /\ \A w \in QueuedWaiting : w.next_hop \in Addr /\ w.pdu \in QueuedPdu
    /\ \A n \in Addr : n # Broadcast /\ n # Unreachable
<1>1. \A p \in ToOneNode : p \in Packet /\ Dst[p] \in Addr
  BY PacketAssumption DEF ToOneNode
<1>2. QueuedPdu \subseteq Pdu
  BY <1>1 DEF QueuedPdu, Pdu
<1>3. QueuedWaiting \subseteq Waiting
  BY <1>2 DEF QueuedWaiting, Waiting
<1>. QED
  BY <1>1, <1>2, <1>3, NetworkAssumption
     DEF Pdu, QueuedPdu, QueuedWaiting, Broadcast, Unreachable

LEMMA FrameFacts ==
    /\ \A pdu \in Pdu : Data(pdu) \in Frame
    /\ \A n \in Addr : ArpRequest(n) \in Frame /\ ArpResponse(n) \in Frame
    /\ \A f \in Frame : f.kind = "data" => f.pdu \in Pdu
    /\ \A f \in Frame : f.kind # "data" => f.addr \in Addr
<1>. QED
  BY DEF Frame, DataFrame, ArpFrame, Data, ArpRequest, ArpResponse

LEMMA WithFrameType ==
    ASSUME NEW cables \in [Links -> Seq(Frame)], NEW n, NEW m, NEW f \in Frame
    PROVE  /\ WithFrame(cables, n, m, f) \in [Links -> Seq(Frame)]
           /\ WithBroadcast(cables, n, f) \in [Links -> Seq(Frame)]
<1>1. \A c \in Links : Append(cables[c], f) \in Seq(Frame)
  OBVIOUS
<1>. QED
  BY <1>1 DEF WithFrame, WithBroadcast

LEMMA AppendFacts ==
    ASSUME NEW S, NEW q \in Seq(S), NEW e \in S
    PROVE  /\ Append(q, e) \in Seq(S)
           /\ Len(q) \in Nat /\ Len(Append(q, e)) = Len(q) + 1
           /\ Append(q, e)[Len(q) + 1] = e
           /\ \A i \in 1..Len(q) : Append(q, e)[i] = q[i]
<1>. QED
  OBVIOUS

LEMMA ConcatFacts ==
    ASSUME NEW S, NEW x \in Seq(S), NEW y \in Seq(S)
    PROVE  x \o y \in Seq(S) /\ Len(x \o y) = Len(x) + Len(y)
<1>. QED
  OBVIOUS

LEMMA HeadTail ==
    ASSUME NEW S, NEW q \in Seq(S), q # <<>>
    PROVE  /\ Head(q) \in S /\ Head(q) = q[1]
           /\ Tail(q) \in Seq(S) /\ Len(Tail(q)) = Len(q) - 1
           /\ \A i \in 1..(Len(q) - 1) : Tail(q)[i] = q[i + 1]
           /\ Len(q) \in Nat /\ Len(q) >= 1
<1>. QED
  OBVIOUS

LEMMA TakeFrameType ==
    ASSUME FrameTypes, NEW n \in Addr, NEW s \in Addr,
           <<s, n>> \in Links, frames[<<s, n>>] # <<>>
    PROVE  /\ Head(frames[<<s, n>>]) \in Frame
           /\ TakeFrame(n, s) \in [Links -> Seq(Frame)]
<1>1. frames[<<s, n>>] \in Seq(Frame)
  BY DEF FrameTypes
<1>2. Head(frames[<<s, n>>]) \in Frame /\ Tail(frames[<<s, n>>]) \in Seq(Frame)
  BY <1>1, HeadTail
<1>. QED
  BY <1>2 DEF FrameTypes, TakeFrame

LEMMA RemoveAtType ==
    ASSUME NEW S, NEW q \in Seq(S), NEW i \in DOMAIN q
    PROVE  RemoveAt(q, i) \in Seq(S) /\ Len(RemoveAt(q, i)) = Len(q) - 1
<1>1. i \in 1..Len(q) /\ Len(q) \in Nat
  OBVIOUS
<1>2. SubSeq(q, 1, i - 1) \in Seq(S) /\ SubSeq(q, i + 1, Len(q)) \in Seq(S)
  BY <1>1
<1>3. /\ Len(SubSeq(q, 1, i - 1)) = i - 1
      /\ Len(SubSeq(q, i + 1, Len(q))) = Len(q) - i
  BY <1>1
<1>4. (i - 1) + (Len(q) - i) = Len(q) - 1
  BY <1>1
<1> DEFINE before == SubSeq(q, 1, i - 1)
           after == SubSeq(q, i + 1, Len(q))
<1>5. before \in Seq(S) /\ after \in Seq(S)
  BY <1>2
<1>6. RemoveAt(q, i) = before \o after
  BY DEF RemoveAt
<1>7. Len(before) = i - 1 /\ Len(after) = Len(q) - i
  BY <1>3
<1> HIDE DEF before, after
<1>8. before \o after \in Seq(S) /\ Len(before \o after) = Len(before) + Len(after)
  BY <1>5, ConcatFacts
<1>. QED
  BY <1>4, <1>6, <1>7, <1>8

\* The first packet that waits for a hop is one that waits for it.
LEMMA FirstWaiting ==
    ASSUME NEW queue \in Seq(QueuedWaiting), NEW hop, WaitsFor(queue, hop) # {}
    PROVE  Min(WaitsFor(queue, hop)) \in WaitsFor(queue, hop)
<1> DEFINE W == WaitsFor(queue, hop)
<1>1. W \subseteq Nat
  BY DEF WaitsFor
<1>2. IsWellFoundedOn(OpToRel(<, Nat), Nat)
  BY NatLessThanWellFounded
<1>3. PICK x \in W : \A y \in W : ~(<<y, x>> \in OpToRel(<, Nat))
  BY <1>1, <1>2, WFMin
<1>4. \A y \in W : y \in Nat /\ x \in Nat /\ ~(y < x)
  BY <1>1, <1>3 DEF OpToRel
<1> HIDE DEF W
<1>5. \A y \in W : x <= y
  BY <1>4
<1>6. Min(W) \in W
  BY <1>5 DEF Min
<1>. QED
  BY <1>6 DEF W
---------------------------------------------------------------------------
(* Responses, requests and packets in step.                                *)

LEMMA NothingInStep == ASSUME NEW queue PROVE InStep(<<>>, <<>>, queue)
<1>1. Len(<<>>) = 0 /\ 1..0 = {}
  OBVIOUS
<1>. QED
  BY <1>1 DEF InStep

LEMMA InStepSend ==
    ASSUME NEW A \in Seq(Response), NEW R \in Seq(Addr), NEW Q \in Seq(QueuedPdu),
           NEW pdu \in QueuedPdu, Len(Q) - Len(A) - Len(R) >= 0, InStep(A, R, Q)
    PROVE  InStep(A, Append(R, Dst[pdu.id]), Append(Q, pdu))
<1> DEFINE d == Dst[pdu.id]
           R1 == Append(R, d)
           Q1 == Append(Q, pdu)
           lag == Len(Q) - Len(A) - Len(R)
<1>1. d \in Addr
  BY PduFacts
<1>2. Len(A) \in Nat /\ Len(R) \in Nat /\ Len(Q) \in Nat
  OBVIOUS
<1>3. /\ Len(R1) = Len(R) + 1 /\ R1[Len(R) + 1] = d
      /\ \A i \in 1..Len(R) : R1[i] = R[i]
  BY <1>1, AppendFacts
<1>4. /\ Len(Q1) = Len(Q) + 1 /\ Q1[Len(Q) + 1] = pdu
      /\ \A i \in 1..Len(Q) : Q1[i] = Q[i]
  BY AppendFacts
<1>5. /\ lag \in Nat /\ lag + Len(A) + Len(R) = Len(Q)
      /\ Len(Q) + 1 - Len(A) - (Len(R) + 1) = lag
  BY <1>2
<1>6. /\ \A i \in 1..Len(A) : A[i].of = Dst[Q[lag + i].id]
      /\ \A i \in 1..Len(R) : R[i] = Dst[Q[lag + Len(A) + i].id]
  BY DEF InStep
<1> HIDE DEF R1, Q1, lag
<1>7. Len(Q1) - Len(A) - Len(R1) = lag
  BY <1>3, <1>4, <1>5
<1>8. ASSUME NEW i \in 1..Len(A) PROVE A[i].of = Dst[Q1[lag + i].id]
  <2>1. lag + i \in 1..Len(Q)
    BY <1>2, <1>5
  <2>. QED
    BY <2>1, <1>4, <1>6
<1>9. ASSUME NEW i \in 1..Len(R1) PROVE R1[i] = Dst[Q1[lag + Len(A) + i].id]
  <2>1. CASE i \in 1..Len(R)
    <3>1. lag + Len(A) + i \in 1..Len(Q)
      BY <2>1, <1>2, <1>5
    <3>. QED
      BY <3>1, <2>1, <1>3, <1>4, <1>6
  <2>2. CASE i = Len(R) + 1
    <3>1. lag + Len(A) + i = Len(Q) + 1
      BY <2>2, <1>2, <1>5
    <3>. QED
      BY <3>1, <2>2, <1>3, <1>4
  <2>. QED
    BY <2>1, <2>2, <1>2, <1>3
<1>10. InStep(A, R1, Q1)
  BY <1>7, <1>8, <1>9 DEF InStep
<1>. QED
  BY <1>10 DEF R1, Q1

LEMMA InStepTake ==
    ASSUME NEW A \in Seq(Response), NEW R \in Seq(Addr), NEW Q \in Seq(QueuedPdu),
           Len(Q) - Len(A) - Len(R) >= 0, A # <<>>
    PROVE  /\ Q # <<>>
           /\ InStep(A, R, Q) => InStep(Tail(A), R, Tail(Q))
<1>1. Len(A) \in Nat /\ Len(R) \in Nat /\ Len(Q) \in Nat /\ Len(A) >= 1
  BY HeadTail
<1>2. Q # <<>>
  BY <1>1
<1> SUFFICES ASSUME InStep(A, R, Q) PROVE InStep(Tail(A), R, Tail(Q))
  BY <1>2
<1> DEFINE A1 == Tail(A)
           Q1 == Tail(Q)
           lag == Len(Q) - Len(A) - Len(R)
<1>3. /\ Len(A1) = Len(A) - 1 /\ \A i \in 1..(Len(A) - 1) : A1[i] = A[i + 1]
      /\ Len(Q1) = Len(Q) - 1 /\ \A i \in 1..(Len(Q) - 1) : Q1[i] = Q[i + 1]
  BY <1>2, HeadTail
<1>4. /\ lag \in Nat /\ lag + Len(A) + Len(R) = Len(Q)
      /\ (Len(Q) - 1) - (Len(A) - 1) - Len(R) = lag
  BY <1>1
<1>5. /\ \A i \in 1..Len(A) : A[i].of = Dst[Q[lag + i].id]
      /\ \A i \in 1..Len(R) : R[i] = Dst[Q[lag + Len(A) + i].id]
  BY DEF InStep
<1> HIDE DEF A1, Q1, lag
<1>6. Len(Q1) - Len(A1) - Len(R) = lag
  BY <1>3, <1>4
<1>7. ASSUME NEW i \in 1..Len(A1) PROVE A1[i].of = Dst[Q1[lag + i].id]
  <2>1. /\ i + 1 \in 1..Len(A) /\ i \in 1..(Len(A) - 1)
        /\ lag + i \in 1..(Len(Q) - 1) /\ (lag + i) + 1 = lag + (i + 1)
    BY <1>1, <1>3, <1>4
  <2>2. Q1[lag + i] = Q[lag + (i + 1)] /\ A1[i] = A[i + 1]
    BY <2>1, <1>3
  <2>. QED
    BY <2>1, <2>2, <1>5
<1>8. ASSUME NEW i \in 1..Len(R) PROVE R[i] = Dst[Q1[lag + Len(A1) + i].id]
  <2>1. /\ lag + Len(A1) + i \in 1..(Len(Q) - 1)
        /\ (lag + Len(A1) + i) + 1 = lag + Len(A) + i
    BY <1>1, <1>3, <1>4
  <2>2. Q1[lag + Len(A1) + i] = Q[lag + Len(A) + i]
    BY <2>1, <1>3
  <2>. QED
    BY <2>2, <1>5
<1>9. InStep(A1, R, Q1)
  BY <1>6, <1>7, <1>8 DEF InStep
<1>. QED
  BY <1>9 DEF A1, Q1

\* A packet before those is taken away.
LEMMA InStepDrop ==
    ASSUME NEW A \in Seq(Response), NEW R \in Seq(Addr), NEW Q \in Seq(QueuedPdu),
           Len(Q) - Len(A) - Len(R) >= 1, InStep(A, R, Q)
    PROVE  InStep(A, R, Tail(Q))
<1>1. Len(A) \in Nat /\ Len(R) \in Nat /\ Len(Q) \in Nat
  OBVIOUS
<1>2. Q # <<>>
  BY <1>1
<1> DEFINE Q1 == Tail(Q)
           before == Len(Q) - Len(A) - Len(R)
           less == before - 1
<1>3. Len(Q1) = Len(Q) - 1 /\ \A i \in 1..(Len(Q) - 1) : Q1[i] = Q[i + 1]
  BY <1>2, HeadTail
<1>4. /\ less \in Nat /\ before = less + 1 /\ less + Len(A) + Len(R) = Len(Q) - 1
      /\ (Len(Q) - 1) - Len(A) - Len(R) = less
  BY <1>1
<1>5. /\ \A i \in 1..Len(A) : A[i].of = Dst[Q[before + i].id]
      /\ \A i \in 1..Len(R) : R[i] = Dst[Q[before + Len(A) + i].id]
  BY DEF InStep
<1> HIDE DEF Q1, before, less
<1>6. Len(Q1) - Len(A) - Len(R) = less
  BY <1>3, <1>4
<1>7. ASSUME NEW i \in 1..Len(A) PROVE A[i].of = Dst[Q1[less + i].id]
  <2>1. less + i \in 1..(Len(Q) - 1) /\ (less + i) + 1 = before + i
    BY <1>1, <1>4
  <2>. QED
    BY <2>1, <1>3, <1>5
<1>8. ASSUME NEW i \in 1..Len(R) PROVE R[i] = Dst[Q1[less + Len(A) + i].id]
  <2>1. /\ less + Len(A) + i \in 1..(Len(Q) - 1)
        /\ (less + Len(A) + i) + 1 = before + Len(A) + i
    BY <1>1, <1>4
  <2>. QED
    BY <2>1, <1>3, <1>5
<1>9. InStep(A, R, Q1)
  BY <1>6, <1>7, <1>8 DEF InStep
<1>. QED
  BY <1>9 DEF Q1

LEMMA InStepAnswer ==
    ASSUME NEW A \in Seq(Response), NEW R \in Seq(Addr), NEW Q \in Seq(QueuedPdu),
           NEW a \in Response, Len(Q) - Len(A) - Len(R) >= 0, InStep(A, R, Q),
           R # <<>>, a.of = Head(R)
    PROVE  InStep(Append(A, a), Tail(R), Q)
<1>1. /\ Len(A) \in Nat /\ Len(R) \in Nat /\ Len(Q) \in Nat
      /\ Len(R) >= 1 /\ Head(R) = R[1]
  BY HeadTail
<1> DEFINE A1 == Append(A, a)
           R1 == Tail(R)
           lag == Len(Q) - Len(A) - Len(R)
<1>2. /\ Len(A1) = Len(A) + 1 /\ A1[Len(A) + 1] = a
      /\ \A i \in 1..Len(A) : A1[i] = A[i]
  BY AppendFacts
<1>3. Len(R1) = Len(R) - 1 /\ \A i \in 1..(Len(R) - 1) : R1[i] = R[i + 1]
  BY HeadTail
<1>4. lag \in Nat /\ Len(Q) - (Len(A) + 1) - (Len(R) - 1) = lag
  BY <1>1
<1>5. /\ \A i \in 1..Len(A) : A[i].of = Dst[Q[lag + i].id]
      /\ \A i \in 1..Len(R) : R[i] = Dst[Q[lag + Len(A) + i].id]
  BY DEF InStep
<1> HIDE DEF A1, R1, lag
<1>6. Len(Q) - Len(A1) - Len(R1) = lag
  BY <1>2, <1>3, <1>4
<1>7. ASSUME NEW i \in 1..Len(A1) PROVE A1[i].of = Dst[Q[lag + i].id]
  <2>1. CASE i \in 1..Len(A)
    BY <2>1, <1>2, <1>5
  <2>2. CASE i = Len(A) + 1
    <3>1. 1 \in 1..Len(R) /\ lag + Len(A) + 1 = lag + i
      BY <2>2, <1>1, <1>4
    <3>2. R[1] = Dst[Q[lag + i].id]
      BY <3>1, <1>5
    <3>. QED
      BY <2>2, <3>2, <1>1, <1>2
  <2>. QED
    BY <2>1, <2>2, <1>1, <1>2
<1>8. ASSUME NEW i \in 1..Len(R1) PROVE R1[i] = Dst[Q[lag + Len(A1) + i].id]
  <2>1. /\ i \in 1..(Len(R) - 1) /\ i + 1 \in 1..Len(R)
        /\ lag + Len(A1) + i = lag + Len(A) + (i + 1)
    BY <1>1, <1>2, <1>3, <1>4
  <2>2. R[i + 1] = Dst[Q[lag + Len(A) + (i + 1)].id]
    BY <2>1, <1>5
  <2>. QED
    BY <2>1, <2>2, <1>3
<1>9. InStep(A1, R1, Q)
  BY <1>6, <1>7, <1>8 DEF InStep
<1>. QED
  BY <1>9 DEF A1, R1

LEMMA Lengths ==
    ASSUME TypeInv, NEW n \in Addr
    PROVE  /\ Len(route_queue[n]) \in Nat /\ Len(late[n]) \in Nat
           /\ Len(responses[n]) \in Nat /\ Len(requests[n]) \in Nat
           /\ Lag(n) \in Int
<1>1. /\ route_queue[n] \in Seq(QueuedPdu) /\ late[n] \in Seq(LateResponse)
      /\ responses[n] \in Seq(Response) /\ requests[n] \in Seq(Addr)
  BY DEF TypeInv, QueueTypes, SocketTypes
<1>. QED
  BY <1>1 DEF Lag

\* A packet that joins with its request, one that goes with an answer of a
\* daemon that has exited, and an exit.
LEMMA LagMoves ==
    ASSUME TypeInv, NEW n \in Addr
    PROVE  /\ /\ Len(route_queue'[n]) = Len(route_queue[n]) + 1
              /\ Len(late'[n]) = Len(late[n]) /\ Len(responses'[n]) = Len(responses[n])
              /\ Len(requests'[n]) = Len(requests[n]) + 1
              => Lag(n)' = Lag(n)
           /\ /\ Len(route_queue'[n]) = Len(route_queue[n]) - 1
              /\ Len(late'[n]) = Len(late[n]) - 1
              /\ Len(responses'[n]) = Len(responses[n])
              /\ Len(requests'[n]) = Len(requests[n])
              => Lag(n)' = Lag(n)
           /\ /\ Len(route_queue'[n]) = Len(route_queue[n])
              /\ Len(late'[n]) = Len(late[n]) + Len(responses[n])
              /\ Len(responses'[n]) = 0 /\ Len(requests'[n]) = 0
              => Lag(n)' \in Int /\ Lag(n)' >= Lag(n)
<1>1. PICK q \in Nat, l \in Nat, a \in Nat, r \in Nat :
          /\ Len(route_queue[n]) = q /\ Len(late[n]) = l
          /\ Len(responses[n]) = a /\ Len(requests[n]) = r
  BY Lengths
<1>2. Lag(n) = q - l - a - r
  BY <1>1 DEF Lag
<1>3. /\ (q + 1) - l - a - (r + 1) = q - l - a - r
      /\ (q - 1) - (l - 1) - a - r = q - l - a - r
      /\ q - (l + a) - 0 - 0 \in Int
      /\ q - (l + a) - 0 - 0 >= q - l - a - r
  OBVIOUS
<1>4. ASSUME NEW q1, NEW l1, NEW a1, NEW r1,
             Len(route_queue'[n]) = q1, Len(late'[n]) = l1,
             Len(responses'[n]) = a1, Len(requests'[n]) = r1
      PROVE  Lag(n)' = q1 - l1 - a1 - r1
  BY <1>4 DEF Lag
<1>5. ASSUME Len(route_queue'[n]) = q + 1, Len(late'[n]) = l,
             Len(responses'[n]) = a, Len(requests'[n]) = r + 1
      PROVE  Lag(n)' = Lag(n)
  <2>1. Lag(n)' = (q + 1) - l - a - (r + 1)
    BY <1>4, <1>5
  <2>. QED
    BY <1>2, <1>3, <2>1
<1>6. ASSUME Len(route_queue'[n]) = q - 1, Len(late'[n]) = l - 1,
             Len(responses'[n]) = a, Len(requests'[n]) = r
      PROVE  Lag(n)' = Lag(n)
  <2>1. Lag(n)' = (q - 1) - (l - 1) - a - r
    BY <1>4, <1>6
  <2>. QED
    BY <1>2, <1>3, <2>1
<1>7. ASSUME Len(route_queue'[n]) = q, Len(late'[n]) = l + a,
             Len(responses'[n]) = 0, Len(requests'[n]) = 0
      PROVE  Lag(n)' \in Int /\ Lag(n)' >= Lag(n)
  <2>1. Lag(n)' = q - (l + a) - 0 - 0
    BY <1>4, <1>7
  <2>. QED
    BY <1>2, <1>3, <2>1
<1>. QED
  BY <1>1, <1>5, <1>6, <1>7

\* A step of one daemon n concerns no other one.
LEMMA KeepsAt ==
    ASSUME TypeInv, PairInv, NEW n \in Addr,
           \A m \in Addr : m # n => /\ route_queue'[m] = route_queue[m]
                                    /\ responses'[m] = responses[m]
                                    /\ requests'[m] = requests[m]
                                    /\ late'[m] = late[m]
                                    /\ routing_usd'[m] = routing_usd[m]
                                    /\ exits'[m] = exits[m],
           PairAt(n)', LagKept(n)
    PROVE  PairInv' /\ \A m \in Addr : LagKept(m)
<1>1. ASSUME NEW m \in Addr, m # n PROVE PairAt(m)' /\ LagKept(m)
  <2>1. Lag(m)' = Lag(m)
    BY <1>1 DEF Lag
  <2>2. PairAt(m) /\ Lag(m) \in Int
    BY Lengths DEF PairInv
  <2>. QED
    BY <1>1, <2>1, <2>2 DEF PairAt, LagKept
<1>. QED
  BY <1>1 DEF PairInv
---------------------------------------------------------------------------
LEMMA SendMipPacketTypes ==
    ASSUME TypeInv, NEW n \in Addr, NEW pdu \in QueuedPdu, SendMipPacket(n, pdu)
    PROVE  /\ route_queue' \in [Addr -> Seq(QueuedPdu)]
           /\ requests' \in [Addr -> Seq(Addr)]
<1>1. requests[n] \in Seq(Addr) /\ route_queue[n] \in Seq(QueuedPdu)
  BY DEF TypeInv, QueueTypes
<1>2. Dst[pdu.id] \in Addr
  BY PduFacts
<1>3. /\ Append(requests[n], Dst[pdu.id]) \in Seq(Addr)
      /\ Append(route_queue[n], pdu) \in Seq(QueuedPdu)
  BY <1>1, <1>2
<1>. QED
  BY <1>3 DEF TypeInv, QueueTypes, SendMipPacket, SendRoutingRequest, RouteEnqueue

\* A request and the packet it is for join their queues together, unless it is
\* another client that is sent the request.
LEMMA SendMipPacketInStep ==
    ASSUME TypeInv, NEW n \in Addr, NEW pdu \in QueuedPdu,
           SendMipPacket(n, pdu), UNCHANGED <<responses, late, routing_usd, exits>>
    PROVE  Keeps
<1> SUFFICES ASSUME PairInv PROVE PairInv' /\ \A m \in Addr : LagKept(m)
  BY DEF Keeps
<1>1. /\ responses[n] \in Seq(Response) /\ requests[n] \in Seq(Addr)
      /\ route_queue[n] \in Seq(QueuedPdu)
      /\ requests \in [Addr -> Seq(Addr)] /\ route_queue \in [Addr -> Seq(QueuedPdu)]
  BY DEF TypeInv, QueueTypes, SocketTypes
<1>2. PairAt(n) /\ Dst[pdu.id] \in Addr
  BY PduFacts DEF PairInv
<1>3. /\ Len(route_queue[n]) \in Nat /\ Len(late[n]) \in Nat
      /\ Len(responses[n]) \in Nat /\ Len(requests[n]) \in Nat /\ Lag(n) \in Int
      /\ responses' = responses /\ late' = late /\ routing_usd' = routing_usd
      /\ exits' = exits
  BY Lengths
<1>4. CASE routing_usd[n] = "routingd"
  <2>1. /\ requests' = [requests EXCEPT ![n] = Append(requests[n], Dst[pdu.id])]
        /\ route_queue' = [route_queue EXCEPT ![n] = Append(route_queue[n], pdu)]
    BY <1>4 DEF SendMipPacket, SendRoutingRequest, RouteEnqueue
  <2>2. /\ requests'[n] = Append(requests[n], Dst[pdu.id])
        /\ route_queue'[n] = Append(route_queue[n], pdu)
        /\ \A m \in Addr : m # n => /\ requests'[m] = requests[m]
                                     /\ route_queue'[m] = route_queue[m]
    BY <1>1, <2>1
  <2>3. /\ Len(requests'[n]) = Len(requests[n]) + 1
        /\ Len(route_queue'[n]) = Len(route_queue[n]) + 1
    BY <1>1, <1>2, <2>2, AppendFacts
  <2>4. Lag(n)' = Lag(n)
    <3>1. Len(late'[n]) = Len(late[n]) /\ Len(responses'[n]) = Len(responses[n])
      BY <1>3
    <3>. QED
      BY <2>3, <3>1, LagMoves
  <2>5. InStep(responses[n], requests'[n], route_queue'[n])
    <3>1. Len(route_queue[n]) - Len(responses[n]) - Len(requests[n]) >= 0
      BY <1>2, <1>3 DEF PairAt, Lag, TypeInv, QueueTypes, SocketTypes
    <3>. QED
      BY <3>1, <1>1, <1>2, <2>2, InStepSend DEF PairAt
  <2>6. PairAt(n)' /\ LagKept(n)
    BY <1>2, <1>3, <1>4, <2>4, <2>5 DEF PairAt, LagKept
  <2>. QED
    BY <1>3, <2>2, <2>6, KeepsAt
<1>5. CASE routing_usd[n] = "client"
  <2>1. /\ UNCHANGED requests
        /\ route_queue' = [route_queue EXCEPT ![n] = Append(route_queue[n], pdu)]
    BY <1>5 DEF SendMipPacket, RouteEnqueue
  <2>2. /\ requests' = requests /\ route_queue'[n] = Append(route_queue[n], pdu)
        /\ \A m \in Addr : m # n => route_queue'[m] = route_queue[m]
    BY <1>1, <2>1
  <2>3. Len(route_queue'[n]) = Len(route_queue[n]) + 1
    BY <1>1, <2>2, AppendFacts
  <2>4. Lag(n)' = Lag(n) + 1
    BY <1>3, <2>2, <2>3 DEF Lag
  <2>5. InStep(responses[n], requests[n], route_queue'[n])
    BY <1>2, <1>5, NothingInStep DEF PairAt
  <2>6. PairAt(n)' /\ LagKept(n)
    BY <1>2, <1>3, <1>5, <2>2, <2>4, <2>5 DEF PairAt, LagKept
  <2>. QED
    BY <1>3, <2>2, <2>6, KeepsAt
<1>6. CASE routing_usd[n] = "closed"
  <2>1. requests' = requests /\ route_queue' = route_queue
    BY <1>6 DEF SendMipPacket
  <2>2. Lag(n)' = Lag(n)
    BY <1>3, <2>1 DEF Lag
  <2>3. PairAt(n)' /\ LagKept(n)
    BY <1>2, <1>3, <2>1, <2>2 DEF PairAt, LagKept
  <2>. QED
    BY <1>3, <2>1, <2>3, KeepsAt
<1>. QED
  BY <1>4, <1>5, <1>6 DEF SendMipPacket

LEMMA QuietInStep ==
    ASSUME TypeInv,
           UNCHANGED <<responses, late, routing_usd, requests, route_queue, exits>>
    PROVE  Keeps
<1>1. /\ responses' = responses /\ late' = late /\ routing_usd' = routing_usd
      /\ exits' = exits /\ requests' = requests /\ route_queue' = route_queue
  OBVIOUS
<1>2. \A n \in Addr : Lag(n)' = Lag(n) /\ Lag(n) \in Int
  BY <1>1, Lengths DEF Lag
<1>. QED
  BY <1>1, <1>2 DEF Keeps, PairInv, PairAt, LagKept
---------------------------------------------------------------------------
LEMMA InitTypes == Init => TypeInv
<1> SUFFICES ASSUME Init PROVE TypeInv
  OBVIOUS
<1>1. \A S : <<>> \in Seq(S)
  OBVIOUS
<1>2. QueueTypes /\ FrameTypes /\ SocketTypes
  BY <1>1 DEF Init, QueueTypes, FrameTypes, SocketTypes
<1>3. CacheTypes
  <2>1. \A n \in Addr : arp_cache[n] = <<>> /\ Len(<<>>) = 0 /\ 0 <= CacheSize
    BY BoundsAssumption DEF Init
  <2>. QED
    BY <1>1, <2>1 DEF Init, CacheTypes
<1>4. RecordTypes
  BY <1>1, BoundsAssumption DEF Init, RecordTypes
<1>. QED
  BY <1>2, <1>3, <1>4 DEF TypeInv

LEMMA InitInStep == Init => PairInv
<1> SUFFICES ASSUME Init, NEW n \in Addr PROVE PairAt(n)
  BY DEF PairInv
<1>1. /\ routing_usd[n] = "routingd" /\ responses[n] = <<>> /\ requests[n] = <<>>
      /\ late[n] = <<>> /\ route_queue[n] = <<>>
  BY DEF Init
<1>2. Len(<<>>) = 0 /\ 0 - 0 - 0 - 0 = 0 /\ 0 >= 0
  OBVIOUS
<1>3. Lag(n) = 0
  BY <1>1, <1>2 DEF Lag
<1>. QED
  BY <1>1, <1>2, <1>3, NothingInStep DEF PairAt

LEMMA HandleUsdEventStep ==
    ASSUME TypeInv, NEW n \in Addr, NEW p \in Packet, HandleUsdEvent(n, p)
    PROVE  TypeInv' /\ Keeps
<1> DEFINE pdu == [id |-> p, ttl |-> AskedTtl(p)]
<1>1. pdu \in Pdu
  BY AskedRange DEF Pdu
<1>2. UNCHANGED <<arp_queue, arp_cache, responses, late, routing_usd, hops, delivered,
                   faults>>
      /\ sent' = sent \union {p}
  BY DEF HandleUsdEvent
<1>3. CacheTypes' /\ SocketTypes' /\ RecordTypes'
  BY <1>2 DEF TypeInv, CacheTypes, SocketTypes, RecordTypes, faults
<1>4. CASE Dst[p] = Broadcast
  <2>1. /\ frames' = WithBroadcast(frames, n, Data(pdu))
        /\ UNCHANGED <<requests, route_queue>>
    BY <1>4 DEF HandleUsdEvent
  <2>2. Data(pdu) \in Frame
    BY <1>1, FrameFacts
  <2> HIDE DEF pdu
  <2>3. FrameTypes'
    BY <2>1, <2>2, WithFrameType DEF TypeInv, FrameTypes
  <2>4. QueueTypes'
    BY <1>2, <2>1 DEF TypeInv, QueueTypes
  <2>. QED
    BY <1>2, <1>3, <2>1, <2>3, <2>4, QuietInStep DEF TypeInv, faults
<1>5. CASE Dst[p] # Broadcast
  <2>1. SendMipPacket(n, pdu) /\ UNCHANGED frames
    BY <1>5 DEF HandleUsdEvent
  <2>2. pdu \in QueuedPdu
    BY <1>5, AskedRange DEF QueuedPdu, ToOneNode
  <2> HIDE DEF pdu
  <2>3. QueueTypes'
    BY <1>2, <2>1, <2>2, SendMipPacketTypes DEF TypeInv, QueueTypes
  <2>4. FrameTypes'
    BY <2>1 DEF TypeInv, FrameTypes
  <2>5. Keeps
    BY <1>2, <2>1, <2>2, SendMipPacketInStep DEF faults
  <2>. QED
    BY <1>3, <2>3, <2>4, <2>5 DEF TypeInv
<1>. QED
  BY <1>4, <1>5

LEMMA UseResponseTypes ==
    ASSUME TypeInv, NEW n \in Addr, NEW hop \in Addr \union {Unreachable},
           UseResponse(n, hop), UNCHANGED requests
    PROVE  QueueTypes' /\ FrameTypes'
<1> DEFINE pdu == Head(route_queue[n])
<1>1. route_queue[n] \in Seq(QueuedPdu) /\ arp_queue[n] \in Seq(QueuedWaiting)
  BY DEF TypeInv, QueueTypes
<1>2. CASE route_queue[n] = <<>>
  BY <1>2 DEF UseResponse, TypeInv, QueueTypes, FrameTypes
<1>3. CASE route_queue[n] # <<>>
  <2>1. /\ route_queue' = [route_queue EXCEPT ![n] = Tail(route_queue[n])]
        /\ \/ /\ hop = Unreachable
              /\ UNCHANGED <<arp_queue, frames>>
           \/ /\ hop # Unreachable
              /\ frames' = WithFrame(frames, n, hop, Data(pdu))
              /\ UNCHANGED arp_queue
           \/ /\ hop # Unreachable
              /\ frames' = WithBroadcast(frames, n, ArpRequest(hop))
              /\ ArpEnqueue(n, hop, pdu)
    BY <1>3 DEF UseResponse, RouteDequeue
  <2>2. pdu \in QueuedPdu /\ pdu \in Pdu /\ Tail(route_queue[n]) \in Seq(QueuedPdu)
    BY <1>1, <1>3, HeadTail, PduFacts
  <2> HIDE DEF pdu
  <2>3. FrameTypes'
    <3>1. hop # Unreachable => Data(pdu) \in Frame /\ ArpRequest(hop) \in Frame
      BY <2>2, FrameFacts
    <3>2. frames \in [Links -> Seq(Frame)]
      BY DEF TypeInv, FrameTypes
    <3>3. CASE UNCHANGED frames
      BY <3>2, <3>3 DEF FrameTypes
    <3>4. CASE hop # Unreachable /\ frames' = WithFrame(frames, n, hop, Data(pdu))
      BY <3>1, <3>2, <3>4, WithFrameType DEF FrameTypes
    <3>5. CASE hop # Unreachable /\ frames' = WithBroadcast(frames, n, ArpRequest(hop))
      BY <3>1, <3>2, <3>5, WithFrameType DEF FrameTypes
    <3>. QED
      BY <2>1, <3>3, <3>4, <3>5
  <2>4. arp_queue' \in [Addr -> Seq(QueuedWaiting)]
    <3>1. CASE hop # Unreachable /\ ArpEnqueue(n, hop, pdu)
      <4>1. [next_hop |-> hop, pdu |-> pdu] \in QueuedWaiting
        BY <3>1, <2>2 DEF QueuedWaiting
      <4>2. Append(arp_queue[n], [next_hop |-> hop, pdu |-> pdu]) \in Seq(QueuedWaiting)
        BY <1>1, <4>1
      <4>. QED
        BY <3>1, <4>2 DEF ArpEnqueue, TypeInv, QueueTypes
    <3>2. CASE UNCHANGED arp_queue
      BY <3>2 DEF TypeInv, QueueTypes
    <3>. QED
      BY <2>1, <3>1, <3>2
  <2>. QED
    BY <2>1, <2>2, <2>3, <2>4 DEF TypeInv, QueueTypes
<1>. QED
  BY <1>2, <1>3

\* Whichever descriptor it comes from, an answer names a node or none.
LEMMA ReadsAnAnswer ==
    ASSUME TypeInv, NEW n \in Addr, ReceiveRoutingResponse(n)
    PROVE  \E hop \in Addr \union {Unreachable} : UseResponse(n, hop)
<1>1. responses[n] \in Seq(Response) /\ late[n] \in Seq(LateResponse)
  BY DEF TypeInv, SocketTypes
<1>2. CASE responses[n] # <<>> /\ UseResponse(n, Head(responses[n]).next_hop)
  <2>1. Head(responses[n]) \in Response
    BY <1>1, <1>2, HeadTail
  <2>2. Head(responses[n]).next_hop \in Addr \union {Unreachable}
    BY <2>1 DEF Response
  <2>. QED
    BY <1>2, <2>2
<1>3. ASSUME NEW i \in FirstLate(n), UseResponse(n, late[n][i].next_hop)
      PROVE  \E hop \in Addr \union {Unreachable} : UseResponse(n, hop)
  <2>1. late[n][i] \in LateResponse
    BY <1>1 DEF FirstLate
  <2>2. late[n][i].next_hop \in Addr \union {Unreachable}
    BY <2>1 DEF LateResponse
  <2>. QED
    BY <1>3, <2>2
<1>. QED
  BY <1>2, <1>3 DEF ReceiveRoutingResponse

\* There is a packet for every answer, and it goes with the answer.
LEMMA ReceiveRoutingResponseStep ==
    ASSUME TypeInv, NEW n \in Addr, ReceiveRoutingResponse(n)
    PROVE  TypeInv' /\ Keeps
<1>1. UNCHANGED <<arp_cache, requests, routing_usd, record, faults>>
  BY DEF ReceiveRoutingResponse
<1>2. /\ responses[n] \in Seq(Response) /\ route_queue[n] \in Seq(QueuedPdu)
      /\ requests[n] \in Seq(Addr) /\ late[n] \in Seq(LateResponse)
  BY DEF TypeInv, SocketTypes, QueueTypes
<1>3. CacheTypes' /\ RecordTypes'
  BY <1>1 DEF TypeInv, CacheTypes, RecordTypes, record, faults
<1>4. /\ requests' = requests /\ routing_usd' = routing_usd /\ exits' = exits
      /\ Len(route_queue[n]) \in Nat /\ Len(late[n]) \in Nat
      /\ Len(responses[n]) \in Nat /\ Len(requests[n]) \in Nat /\ Lag(n) \in Int
  BY <1>1, Lengths DEF faults
<1>5. ASSUME PairInv, NEW hop, UseResponse(n, hop), Len(late[n]) + Len(responses[n]) > 0
      PROVE  /\ route_queue[n] # <<>> /\ Len(route_queue'[n]) = Len(route_queue[n]) - 1
             /\ route_queue'[n] = Tail(route_queue[n])
             /\ \A m \in Addr : m # n => route_queue'[m] = route_queue[m]
  <2>1. Len(route_queue[n]) > 0
    BY <1>4, <1>5 DEF PairInv, PairAt, Lag, TypeInv, QueueTypes, SocketTypes
  <2>2. route_queue[n] # <<>>
    BY <1>2, <2>1
  <2>3. route_queue' = [route_queue EXCEPT ![n] = Tail(route_queue[n])]
    BY <1>5, <2>2 DEF UseResponse, RouteDequeue
  <2>4. Len(Tail(route_queue[n])) = Len(route_queue[n]) - 1
    BY <1>2, <2>2, HeadTail
  <2>. QED
    BY <2>2, <2>3, <2>4 DEF TypeInv, QueueTypes
<1>6. CASE /\ responses[n] # <<>>
           /\ responses' = [responses EXCEPT ![n] = Tail(responses[n])]
           /\ UseResponse(n, Head(responses[n]).next_hop)
           /\ UNCHANGED late
  <2>1. /\ Tail(responses[n]) \in Seq(Response) /\ Head(responses[n]) \in Response
        /\ Len(Tail(responses[n])) = Len(responses[n]) - 1 /\ Len(responses[n]) >= 1
    BY <1>2, <1>6, HeadTail
  <2>2. Head(responses[n]).next_hop \in Addr \union {Unreachable}
    BY <2>1 DEF Response
  <2>3. QueueTypes' /\ FrameTypes'
    BY <1>4, <1>6, <2>2, UseResponseTypes
  <2>4. SocketTypes'
    BY <1>1, <1>6, <2>1 DEF TypeInv, SocketTypes
  <2>5. ASSUME PairInv
        PROVE  PairInv' /\ \A m \in Addr : LagKept(m)
    <3>1. PairAt(n)
      BY <2>5 DEF PairInv
    <3>2. /\ route_queue[n] # <<>> /\ Len(route_queue'[n]) = Len(route_queue[n]) - 1
          /\ route_queue'[n] = Tail(route_queue[n])
          /\ \A m \in Addr : m # n => route_queue'[m] = route_queue[m]
      <4>1. Len(late[n]) + Len(responses[n]) > 0
        BY <1>4, <2>1 DEF TypeInv, SocketTypes
      <4>. QED
        BY <4>1, <1>5, <1>6, <2>5
    <3>3. /\ responses'[n] = Tail(responses[n])
          /\ \A m \in Addr : m # n => responses'[m] = responses[m]
      BY <1>6 DEF TypeInv, SocketTypes
    <3>4. Lag(n)' = Lag(n)
      BY <1>4, <1>6, <2>1, <2>3, <2>4, <3>2, <3>3
         DEF Lag, TypeInv, QueueTypes, SocketTypes
    <3>5. InStep(responses'[n], requests[n], route_queue'[n])
      <4>1. Len(route_queue[n]) - Len(responses[n]) - Len(requests[n]) >= 0
        BY <1>4, <3>1 DEF PairAt, Lag, TypeInv, QueueTypes, SocketTypes
      <4>. QED
        BY <4>1, <1>2, <1>6, <3>1, <3>2, <3>3, InStepTake DEF PairAt
    <3>6. PairAt(n)' /\ LagKept(n)
      BY <1>4, <1>6, <3>1, <3>4, <3>5 DEF PairAt, LagKept
    <3>. QED
      BY <1>4, <1>6, <2>5, <3>2, <3>3, <3>6, KeepsAt
  <2>. QED
    BY <1>3, <2>3, <2>4, <2>5 DEF TypeInv, Keeps
<1>7. ASSUME NEW i \in FirstLate(n), late' = [late EXCEPT ![n] = RemoveAt(late[n], i)],
             UseResponse(n, late[n][i].next_hop), UNCHANGED responses
      PROVE  TypeInv' /\ Keeps
  <2>1. i \in DOMAIN late[n] /\ late[n][i] \in LateResponse
    BY <1>2 DEF FirstLate
  <2>2. /\ RemoveAt(late[n], i) \in Seq(LateResponse)
        /\ Len(RemoveAt(late[n], i)) = Len(late[n]) - 1
    BY <1>2, <2>1, RemoveAtType
  <2>3. late[n][i].next_hop \in Addr \union {Unreachable} /\ Len(late[n]) > 0
    BY <1>2, <2>1 DEF LateResponse
  <2>4. QueueTypes' /\ FrameTypes'
    BY <1>4, <1>7, <2>3, UseResponseTypes
  <2>5. SocketTypes'
    BY <1>1, <1>7, <2>2 DEF TypeInv, SocketTypes
  <2>6. ASSUME PairInv
        PROVE  PairInv' /\ \A m \in Addr : LagKept(m)
    <3>1. PairAt(n)
      BY <2>6 DEF PairInv
    <3>2. /\ route_queue[n] # <<>> /\ Len(route_queue'[n]) = Len(route_queue[n]) - 1
          /\ route_queue'[n] = Tail(route_queue[n])
          /\ \A m \in Addr : m # n => route_queue'[m] = route_queue[m]
      <4>1. Len(late[n]) + Len(responses[n]) > 0
        BY <1>4, <2>3 DEF TypeInv, SocketTypes
      <4>. QED
        BY <4>1, <1>5, <1>7, <2>6
    <3>3. /\ late'[n] = RemoveAt(late[n], i)
          /\ \A m \in Addr : m # n => late'[m] = late[m]
      BY <1>7 DEF TypeInv, SocketTypes
    <3>4. Lag(n)' = Lag(n)
      BY <1>4, <1>7, <2>2, <3>2, <3>3, LagMoves
    <3>5. InStep(responses[n], requests[n], route_queue'[n])
      <4>1. Len(route_queue[n]) - Len(responses[n]) - Len(requests[n]) >= 1
        BY <1>4, <2>3, <3>1 DEF PairAt, Lag, TypeInv, QueueTypes, SocketTypes
      <4>. QED
        BY <4>1, <1>2, <3>1, <3>2, InStepDrop DEF PairAt
    <3>6. exits[n] # 0
      <4>1. late[n] # <<>>
        BY <1>2, <2>1
      <4>. QED
        BY <3>1, <4>1 DEF PairAt
    <3>7. PairAt(n)' /\ LagKept(n)
      BY <1>4, <1>7, <3>1, <3>4, <3>5, <3>6 DEF PairAt, LagKept
    <3>. QED
      BY <1>4, <1>7, <2>6, <3>2, <3>3, <3>7, KeepsAt
  <2>. QED
    BY <1>3, <2>4, <2>5, <2>6 DEF TypeInv, Keeps
<1>. QED
  BY <1>6, <1>7 DEF ReceiveRoutingResponse

LEMMA ArpCacheAddType ==
    ASSUME TypeInv, NEW n \in Addr, NEW s \in Addr,
           arp_cache' = [arp_cache EXCEPT ![n] = ArpCacheAdd(@, s)]
    PROVE  CacheTypes'
<1>1. /\ arp_cache \in [Addr -> Seq(Addr)]
      /\ \A m \in Addr : arp_cache[m] \in Seq(Addr) /\ Len(arp_cache[m]) \in Nat
                         /\ Len(arp_cache[m]) <= CacheSize
  BY DEF TypeInv, CacheTypes
<1> DEFINE cache == ArpCacheAdd(arp_cache[n], s)
<1>2. cache \in Seq(Addr) /\ Len(cache) <= CacheSize
  <2>1. CASE Len(arp_cache[n]) < CacheSize
    <3>1. cache = Append(arp_cache[n], s)
      BY <2>1 DEF ArpCacheAdd
    <3>2. Append(arp_cache[n], s) \in Seq(Addr)
          /\ Len(Append(arp_cache[n], s)) = Len(arp_cache[n]) + 1
      BY <1>1
    <3> HIDE DEF cache
    <3>. QED
      BY <1>1, <2>1, <3>1, <3>2, BoundsAssumption
  <2>2. CASE ~(Len(arp_cache[n]) < CacheSize)
    BY <1>1, <2>2 DEF ArpCacheAdd
  <2>. QED
    BY <2>1, <2>2
<1>3. arp_cache' = [arp_cache EXCEPT ![n] = cache]
  OBVIOUS
<1> HIDE DEF cache
<1>4. arp_cache' \in [Addr -> Seq(Addr)]
  BY <1>1, <1>2, <1>3
<1>5. \A m \in Addr : Len(arp_cache'[m]) <= CacheSize
  BY <1>1, <1>2, <1>3
<1>. QED
  BY <1>4, <1>5 DEF CacheTypes

LEMMA HandleArpRequestStep ==
    ASSUME TypeInv, NEW n \in Addr, NEW s \in Addr, HandleArpRequest(n, s)
    PROVE  TypeInv' /\ Keeps
<1>1. /\ <<s, n>> \in Links /\ frames[<<s, n>>] # <<>>
      /\ UNCHANGED <<route_queue, arp_queue, sockets, record, faults>>
  BY DEF HandleArpRequest, Receives
<1>2. QueueTypes' /\ SocketTypes' /\ RecordTypes'
  BY <1>1 DEF TypeInv, QueueTypes, SocketTypes, RecordTypes, sockets, record, faults
<1>3. TakeFrame(n, s) \in [Links -> Seq(Frame)]
  BY <1>1, TakeFrameType DEF TypeInv
<1>4. FrameTypes' /\ CacheTypes'
  <2>1. CASE Head(frames[<<s, n>>]).addr = n
    <3>1. /\ arp_cache' = [arp_cache EXCEPT ![n] = ArpCacheAdd(@, s)]
          /\ frames' = WithFrame(TakeFrame(n, s), n, s, ArpResponse(n))
      BY <2>1 DEF HandleArpRequest
    <3>2. ArpResponse(n) \in Frame
      BY FrameFacts
    <3>3. FrameTypes'
      BY <1>3, <3>1, <3>2, WithFrameType DEF FrameTypes
    <3>4. CacheTypes'
      BY <3>1, ArpCacheAddType
    <3>. QED
      BY <3>3, <3>4
  <2>2. CASE Head(frames[<<s, n>>]).addr # n
    <3>1. frames' = TakeFrame(n, s) /\ UNCHANGED arp_cache
      BY <2>2 DEF HandleArpRequest
    <3>. QED
      BY <1>3, <3>1 DEF TypeInv, FrameTypes, CacheTypes
  <2>. QED
    BY <2>1, <2>2
<1>5. Keeps
  BY <1>1, QuietInStep DEF sockets, faults
<1>. QED
  BY <1>2, <1>4, <1>5 DEF TypeInv

LEMMA HandleArpResponseStep ==
    ASSUME TypeInv, NEW n \in Addr, NEW s \in Addr, HandleArpResponse(n, s)
    PROVE  TypeInv' /\ Keeps
<1> DEFINE hop == Head(frames[<<s, n>>]).addr
           waits == WaitsFor(arp_queue[n], hop)
           first == Min(waits)
<1>1. /\ <<s, n>> \in Links /\ frames[<<s, n>>] # <<>>
      /\ frames' = TakeFrame(n, s)
      /\ arp_cache' = [arp_cache EXCEPT ![n] = ArpCacheAdd(@, s)]
      /\ CheckArpQueue(n, hop)
      /\ UNCHANGED <<responses, late, routing_usd, record, faults>>
  BY DEF HandleArpResponse, Receives
<1>2. SocketTypes' /\ RecordTypes'
  BY <1>1 DEF TypeInv, SocketTypes, RecordTypes, record, faults
<1>3. FrameTypes'
  BY <1>1, TakeFrameType DEF TypeInv, FrameTypes
<1>4. CacheTypes'
  BY <1>1, ArpCacheAddType
<1> HIDE DEF hop
<1>5. QueueTypes' /\ Keeps
  <2>1. CASE waits = {}
    <3>1. UNCHANGED <<arp_queue, requests, route_queue>>
      BY <1>1, <2>1 DEF CheckArpQueue
    <3>2. QueueTypes'
      BY <3>1 DEF TypeInv, QueueTypes
    <3>. QED
      BY <1>1, <3>1, <3>2, QuietInStep DEF faults
  <2>2. CASE waits # {}
    <3>1. arp_queue[n] \in Seq(QueuedWaiting)
      BY DEF TypeInv, QueueTypes
    <3>2. first \in waits
      BY <2>2, <3>1, FirstWaiting
    <3>3. first \in DOMAIN arp_queue[n]
      BY <3>2 DEF WaitsFor
    <3>4. /\ arp_queue' = [arp_queue EXCEPT ![n] = RemoveAt(arp_queue[n], first)]
          /\ SendMipPacket(n, arp_queue[n][first].pdu)
      BY <1>1, <2>2 DEF CheckArpQueue, ArpDequeue
    <3> HIDE DEF first, waits
    <3>5. RemoveAt(arp_queue[n], first) \in Seq(QueuedWaiting)
      BY <3>1, <3>3, RemoveAtType
    <3>6. arp_queue' \in [Addr -> Seq(QueuedWaiting)]
      BY <3>4, <3>5 DEF TypeInv, QueueTypes
    <3>7. arp_queue[n][first] \in QueuedWaiting
      BY <3>1, <3>3
    <3>8. arp_queue[n][first].pdu \in QueuedPdu
      BY <3>7, PduFacts
    <3>9. QueueTypes'
      BY <3>4, <3>6, <3>8, SendMipPacketTypes DEF QueueTypes
    <3>10. Keeps
      BY <1>1, <3>4, <3>8, SendMipPacketInStep DEF faults
    <3>. QED
      BY <3>9, <3>10
  <2>. QED
    BY <2>1, <2>2
<1>. QED
  BY <1>2, <1>3, <1>4, <1>5 DEF TypeInv

LEMMA ForwardMipPduStep ==
    ASSUME TypeInv, NEW n \in Addr, NEW s \in Addr, ForwardMipPdu(n, s)
    PROVE  TypeInv' /\ Keeps
<1> DEFINE pdu == Head(frames[<<s, n>>]).pdu
           p == pdu.id
           next == [pdu EXCEPT !.ttl = DecrementTtl(@)]
<1>1. /\ <<s, n>> \in Links /\ frames[<<s, n>>] # <<>>
      /\ Head(frames[<<s, n>>]).kind = "data"
      /\ frames' = TakeFrame(n, s)
      /\ UNCHANGED <<sent, arp_queue, arp_cache, responses, late, routing_usd, faults>>
      /\ hops' = [hops EXCEPT ![p] = @ + 1]
  BY DEF ForwardMipPdu, Receives
<1>2. \/ /\ delivered' = [delivered EXCEPT ![p] = Append(@, n)]
         /\ UNCHANGED <<requests, route_queue>>
      \/ UNCHANGED <<requests, route_queue, delivered>>
      \/ /\ Dst[p] # Broadcast
         /\ SendMipPacket(n, next)
         /\ UNCHANGED delivered
  BY DEF ForwardMipPdu
<1>3. Head(frames[<<s, n>>]) \in Frame /\ TakeFrame(n, s) \in [Links -> Seq(Frame)]
  BY <1>1, TakeFrameType DEF TypeInv
<1>4. pdu \in Pdu
  BY <1>1, <1>3, FrameFacts
<1>5. p \in Packet /\ pdu.ttl \in 0..MaxTtl
  BY <1>4, PduFacts
<1>6. Dst[p] # Broadcast => next \in QueuedPdu
  <2>1. DecrementTtl(pdu.ttl) \in 0..MaxTtl
    BY <1>5, DecrementRange
  <2>2. next = [id |-> p, ttl |-> DecrementTtl(pdu.ttl)]
    BY <1>4 DEF Pdu
  <2>3. Dst[p] # Broadcast => p \in ToOneNode
    BY <1>5 DEF ToOneNode
  <2> HIDE DEF pdu, p, next
  <2>. QED
    BY <2>1, <2>2, <2>3 DEF QueuedPdu
<1> HIDE DEF pdu, p, next
<1>7. CacheTypes' /\ SocketTypes' /\ FrameTypes'
  BY <1>1, <1>3 DEF TypeInv, CacheTypes, SocketTypes, FrameTypes
<1>8. RecordTypes'
  <2>1. hops' \in [Packet -> Nat]
    BY <1>1, <1>5 DEF TypeInv, RecordTypes
  <2>2. delivered' \in [Packet -> Seq(Addr)]
    <3>1. Append(delivered[p], n) \in Seq(Addr)
      BY <1>5 DEF TypeInv, RecordTypes
    <3>. QED
      BY <1>2, <3>1 DEF TypeInv, RecordTypes
  <2>. QED
    BY <1>1, <2>1, <2>2 DEF TypeInv, RecordTypes, faults
<1>9. QueueTypes' /\ Keeps
  <2>1. CASE UNCHANGED <<requests, route_queue>>
    <3>1. QueueTypes'
      BY <1>1, <2>1 DEF TypeInv, QueueTypes
    <3>. QED
      BY <1>1, <2>1, <3>1, QuietInStep DEF faults
  <2>2. CASE Dst[p] # Broadcast /\ SendMipPacket(n, next)
    <3>1. next \in QueuedPdu
      BY <1>6, <2>2
    <3>2. QueueTypes'
      BY <1>1, <2>2, <3>1, SendMipPacketTypes DEF TypeInv, QueueTypes
    <3>3. Keeps
      BY <1>1, <2>2, <3>1, SendMipPacketInStep DEF faults
    <3>. QED
      BY <3>2, <3>3
  <2>. QED
    BY <1>2, <2>1, <2>2
<1>. QED
  BY <1>7, <1>8, <1>9 DEF TypeInv

LEMMA AnswerStep ==
    ASSUME TypeInv, NEW n \in Addr, Answer(n)
    PROVE  TypeInv' /\ Keeps
<1>1. /\ requests[n] # <<>>
      /\ requests' = [requests EXCEPT ![n] = Tail(requests[n])]
      /\ UNCHANGED <<queues, late, routing_usd, frames, record, faults>>
  BY DEF Answer
<1>2. PICK hop \in Via[n][Head(requests[n])] :
        responses' = [responses EXCEPT
            ![n] = Append(@, [next_hop |-> hop, of |-> Head(requests[n])])]
  BY DEF Answer
<1> DEFINE a == [next_hop |-> hop, of |-> Head(requests[n])]
<1>3. /\ requests[n] \in Seq(Addr) /\ responses[n] \in Seq(Response)
      /\ route_queue[n] \in Seq(QueuedPdu)
  BY DEF TypeInv, QueueTypes, SocketTypes
<1>4. Head(requests[n]) \in Addr /\ Tail(requests[n]) \in Seq(Addr)
  BY <1>1, <1>3, HeadTail
<1>5. hop \in Addr \union {Unreachable}
  BY <1>2, <1>4, ViaAssumption DEF Neighbours
<1>6. a \in Response /\ a.of = Head(requests[n])
  BY <1>4, <1>5 DEF Response
<1>7. responses' = [responses EXCEPT ![n] = Append(responses[n], a)]
  BY <1>2
<1> HIDE DEF a
<1>8. Append(responses[n], a) \in Seq(Response)
  BY <1>3, <1>6
<1>9. TypeInv'
  <2>1. QueueTypes'
    BY <1>1, <1>4 DEF TypeInv, QueueTypes, queues
  <2>2. SocketTypes'
    BY <1>1, <1>7, <1>8 DEF TypeInv, SocketTypes
  <2>3. CacheTypes' /\ FrameTypes' /\ RecordTypes'
    BY <1>1 DEF TypeInv, CacheTypes, FrameTypes, RecordTypes, queues, record, faults
  <2>. QED
    BY <2>1, <2>2, <2>3 DEF TypeInv
<1>10. ASSUME PairInv
       PROVE  PairInv' /\ \A m \in Addr : LagKept(m)
  <2>1. /\ PairAt(n) /\ route_queue' = route_queue /\ late' = late
        /\ routing_usd' = routing_usd /\ exits' = exits
    BY <1>1, <1>10 DEF PairInv, queues, faults
  <2>2. /\ responses'[n] = Append(responses[n], a) /\ requests'[n] = Tail(requests[n])
        /\ \A m \in Addr : m # n => /\ responses'[m] = responses[m]
                                     /\ requests'[m] = requests[m]
    BY <1>1, <1>7 DEF TypeInv, SocketTypes, QueueTypes
  <2>3. /\ Len(route_queue[n]) \in Nat /\ Len(late[n]) \in Nat
        /\ Len(responses[n]) \in Nat /\ Len(requests[n]) \in Nat /\ Lag(n) \in Int
    BY Lengths
  <2>4. Lag(n)' = Lag(n)
    <3>1. Len(Tail(requests[n])) = Len(requests[n]) - 1
      BY <1>1, <1>3, HeadTail
    <3>2. Len(Append(responses[n], a)) = Len(responses[n]) + 1
      BY <1>3, <1>6, AppendFacts
    <3>. QED
      BY <1>9, <2>1, <2>2, <2>3, <3>1, <3>2 DEF Lag, TypeInv, QueueTypes, SocketTypes
  <2>5. InStep(responses'[n], requests'[n], route_queue[n])
    <3>1. Len(route_queue[n]) - Len(responses[n]) - Len(requests[n]) >= 0
      BY <2>1, <2>3 DEF PairAt, Lag, TypeInv, QueueTypes, SocketTypes
    <3>. QED
      BY <3>1, <1>1, <1>3, <1>6, <2>1, <2>2, InStepAnswer DEF PairAt
  <2>6. routing_usd[n] = "routingd"
    BY <1>1, <2>1 DEF PairAt
  <2>7. PairAt(n)' /\ LagKept(n)
    BY <2>1, <2>3, <2>4, <2>5, <2>6 DEF PairAt, LagKept
  <2>. QED
    BY <1>10, <2>1, <2>2, <2>7, KeepsAt
<1>. QED
  BY <1>9, <1>10 DEF Keeps

\* An exit leaves the packets whose requests it takes along without answers.
LEMMA RoutingdExitStep ==
    ASSUME TypeInv, NEW n \in Addr, RoutingdExit(n)
    PROVE  TypeInv' /\ Keeps
<1> DEFINE A == responses[n]
           old == [i \in DOMAIN A |-> [next_hop |-> A[i].next_hop, of |-> A[i].of,
                                       by |-> exits'[n]]]
<1>1. /\ exits[n] < MaxExits[n] /\ exits' = [exits EXCEPT ![n] = exits[n] + 1]
      /\ routing_usd[n] = "routingd"
      /\ routing_usd' = [routing_usd EXCEPT ![n] = "closed"]
      /\ requests' = [requests EXCEPT ![n] = <<>>]
      /\ responses' = [responses EXCEPT ![n] = <<>>]
      /\ late' = [late EXCEPT ![n] = late[n] \o old]
      /\ UNCHANGED <<queues, frames, record, losses>>
  BY DEF RoutingdExit
<1>2. <<>> \in Seq(Addr) /\ <<>> \in Seq(Response) /\ Len(<<>>) = 0
  OBVIOUS
<1>3. /\ exits'[n] \in Nat /\ exits'[n] # exits[n] /\ exits'[n] # 0
      /\ exits' \in [Addr -> Nat] /\ \A m \in Addr : exits'[m] <= MaxExits[m]
  <2>1. exits \in [Addr -> Nat] /\ MaxExits \in [Addr -> Nat]
    BY BoundsAssumption DEF TypeInv, RecordTypes
  <2>2. exits'[n] = exits[n] + 1
    BY <1>1, <2>1
  <2>3. exits[n] + 1 \in Nat /\ exits[n] + 1 <= MaxExits[n]
    BY <1>1, <2>1
  <2>4. \A m \in Addr : exits[m] <= MaxExits[m]
    BY DEF TypeInv, RecordTypes
  <2>. QED
    BY <1>1, <2>1, <2>2, <2>3, <2>4
<1>4. old \in Seq(LateResponse) /\ Len(old) = Len(A)
  <2>1. A \in Seq(Response)
    BY DEF TypeInv, SocketTypes
  <2>2. \A i \in 1..Len(A) : A[i] \in Response
    BY <2>1
  <2>4. /\ Len(A) \in Nat /\ DOMAIN A = 1..Len(A)
        /\ old = [i \in 1..Len(A) |-> old[i]]
    BY <2>1
  <2>3. ASSUME NEW i \in 1..Len(A)
        PROVE  old[i] \in LateResponse
    <3>1. old[i] = [next_hop |-> A[i].next_hop, of |-> A[i].of, by |-> exits'[n]]
      BY <2>4
    <3>2. A[i].next_hop \in Addr \union {Unreachable} /\ A[i].of \in Addr
      BY <2>2 DEF Response
    <3> HIDE DEF old, A
    <3>. QED
      BY <3>1, <3>2, <1>3 DEF LateResponse
  <2>5. ASSUME NEW k \in Nat, NEW f, f = [i \in 1..k |-> f[i]],
               \A i \in 1..k : f[i] \in LateResponse
        PROVE  f \in Seq(LateResponse) /\ Len(f) = k
    BY <2>5
  <2> HIDE DEF old, A
  <2>. QED
    BY <2>3, <2>4, <2>5
<1> HIDE DEF old
<1>5. late[n] \in Seq(LateResponse) /\ late[n] \o old \in Seq(LateResponse)
      /\ Len(late[n] \o old) = Len(late[n]) + Len(A)
  <2>1. late[n] \in Seq(LateResponse)
    BY DEF TypeInv, SocketTypes
  <2>2. Len(late[n] \o old) = Len(late[n]) + Len(old)
    BY <1>4, <2>1, ConcatFacts
  <2>. QED
    BY <1>4, <2>1, <2>2, ConcatFacts
<1>6. QueueTypes' /\ CacheTypes' /\ FrameTypes'
  BY <1>1, <1>2 DEF TypeInv, QueueTypes, CacheTypes, FrameTypes, queues
<1>7. SocketTypes'
  BY <1>1, <1>2, <1>5 DEF TypeInv, SocketTypes
<1>8. RecordTypes'
  BY <1>1, <1>3 DEF TypeInv, RecordTypes, record
<1>9. ASSUME PairInv
      PROVE  PairInv' /\ \A m \in Addr : LagKept(m)
  <2>1. PairAt(n) /\ route_queue' = route_queue
    BY <1>1, <1>9 DEF PairInv, queues
  <2>2. /\ requests'[n] = <<>> /\ responses'[n] = <<>> /\ late'[n] = late[n] \o old
        /\ \A m \in Addr : m # n => /\ responses'[m] = responses[m]
                                     /\ requests'[m] = requests[m]
                                     /\ late'[m] = late[m]
                                     /\ routing_usd'[m] = routing_usd[m]
                                     /\ exits'[m] = exits[m]
    BY <1>1 DEF TypeInv, QueueTypes, SocketTypes, RecordTypes
  <2>3. /\ Len(route_queue[n]) \in Nat /\ Len(late[n]) \in Nat
        /\ Len(responses[n]) \in Nat /\ Len(requests[n]) \in Nat /\ Lag(n) \in Int
    BY Lengths
  <2>4. Lag(n)' >= Lag(n) /\ Lag(n)' >= 0
    <3>1. Len(late'[n]) = Len(late[n]) + Len(responses[n])
      BY <1>5, <2>2
    <3>2. Lag(n)' \in Int /\ Lag(n)' >= Lag(n)
      BY <1>2, <2>1, <2>2, <3>1, LagMoves
    <3>3. Lag(n) \in Int /\ Lag(n) >= 0
      BY <2>1, <2>3 DEF PairAt
    <3>. QED
      BY <3>2, <3>3
  <2>5. PairAt(n)' /\ LagKept(n)
    BY <1>3, <2>2, <2>4, NothingInStep DEF PairAt, LagKept
  <2>. QED
    BY <1>9, <2>1, <2>2, <2>5, KeepsAt
<1>. QED
  BY <1>6, <1>7, <1>8, <1>9 DEF TypeInv, Keeps

\* Whatever the descriptor leads to next finds neither requests nor answers.
LEMMA RoutingUsdStep ==
    ASSUME TypeInv, NEW n \in Addr,
           RoutingdConnect(n) \/ DescriptorReused(n) \/ ClientLeaves(n)
    PROVE  TypeInv' /\ Keeps
<1>1. PICK what \in {"routingd", "client", "closed"} :
          routing_usd' = [routing_usd EXCEPT ![n] = what]
  BY DEF RoutingdConnect, DescriptorReused, ClientLeaves
<1>2. /\ routing_usd[n] # "routingd"
      /\ UNCHANGED <<queues, requests, responses, late, frames, record, faults>>
  BY DEF RoutingdConnect, DescriptorReused, ClientLeaves
<1>3. QueueTypes' /\ SocketTypes' /\ CacheTypes' /\ FrameTypes'
  BY <1>1, <1>2 DEF TypeInv, QueueTypes, SocketTypes, CacheTypes, FrameTypes, queues
<1>4. RecordTypes'
  BY <1>2 DEF TypeInv, RecordTypes, record, faults
<1>5. ASSUME PairInv
      PROVE  PairInv' /\ \A m \in Addr : LagKept(m)
  <2>1. /\ PairAt(n) /\ route_queue' = route_queue /\ late' = late
        /\ responses' = responses /\ requests' = requests /\ exits' = exits
    BY <1>2, <1>5 DEF PairInv, queues, faults
  <2>2. Lag(n)' = Lag(n) /\ Lag(n) \in Int
    BY <2>1, Lengths DEF Lag
  <2>3. \A m \in Addr : m # n => routing_usd'[m] = routing_usd[m]
    BY <1>1 DEF TypeInv, SocketTypes
  <2>4. PairAt(n)' /\ LagKept(n)
    BY <1>2, <2>1, <2>2 DEF PairAt, LagKept
  <2>. QED
    BY <1>5, <2>1, <2>3, <2>4, KeepsAt
<1>. QED
  BY <1>3, <1>4, <1>5 DEF TypeInv, Keeps

LEMMA LoseFrameStep ==
    ASSUME TypeInv, NEW n \in Addr, NEW s \in Addr, LoseFrame(n, s)
    PROVE  TypeInv' /\ Keeps
<1>1. /\ losses < MaxLosses /\ losses' = losses + 1
      /\ <<s, n>> \in Links /\ frames[<<s, n>>] # <<>>
      /\ frames' = TakeFrame(n, s)
      /\ UNCHANGED <<queues, sockets, record, exits>>
  BY DEF LoseFrame
<1>2. FrameTypes'
  BY <1>1, TakeFrameType DEF TypeInv, FrameTypes
<1>3. QueueTypes' /\ SocketTypes' /\ CacheTypes'
  BY <1>1 DEF TypeInv, QueueTypes, SocketTypes, CacheTypes, queues, sockets
<1>4. RecordTypes'
  BY <1>1, BoundsAssumption DEF TypeInv, RecordTypes, record
<1>5. Keeps
  BY <1>1, QuietInStep DEF queues, sockets
<1>. QED
  BY <1>2, <1>3, <1>4, <1>5 DEF TypeInv

LEMMA Step ==
    ASSUME TypeInv, [Next]_vars
    PROVE  TypeInv' /\ Keeps
<1>1. ASSUME UNCHANGED vars PROVE TypeInv' /\ Keeps
  <2>1. UNCHANGED <<responses, late, routing_usd, requests, route_queue, exits>>
    BY <1>1 DEF vars
  <2>2. TypeInv'
    BY <1>1 DEF vars, TypeInv, QueueTypes, CacheTypes, FrameTypes, SocketTypes,
                RecordTypes
  <2>. QED
    BY <2>1, <2>2, QuietInStep
<1>2. ASSUME NEW n \in Addr, NEW p \in Packet, HandleUsdEvent(n, p)
      PROVE  TypeInv' /\ Keeps
  BY <1>2, HandleUsdEventStep
<1>3. ASSUME NEW n \in Addr, ReceiveRoutingResponse(n)
      PROVE  TypeInv' /\ Keeps
  BY <1>3, ReceiveRoutingResponseStep
<1>4. ASSUME NEW n \in Addr, NEW s \in Addr, HandleRsdEvent(n, s)
      PROVE  TypeInv' /\ Keeps
  BY <1>4, HandleArpRequestStep, HandleArpResponseStep, ForwardMipPduStep
     DEF HandleRsdEvent
<1>5. ASSUME NEW n \in Addr, Answer(n)
      PROVE  TypeInv' /\ Keeps
  BY <1>5, AnswerStep
<1>6. ASSUME NEW n \in Addr, RoutingdExit(n)
      PROVE  TypeInv' /\ Keeps
  BY <1>6, RoutingdExitStep
<1>7. ASSUME NEW n \in Addr,
             RoutingdConnect(n) \/ DescriptorReused(n) \/ ClientLeaves(n)
      PROVE  TypeInv' /\ Keeps
  BY <1>7, RoutingUsdStep
<1>8. ASSUME NEW n \in Addr, NEW s \in Addr, LoseFrame(n, s)
      PROVE  TypeInv' /\ Keeps
  BY <1>8, LoseFrameStep
<1>. QED
  BY <1>1, <1>2, <1>3, <1>4, <1>5, <1>6, <1>7, <1>8 DEF Next

LEMMA AlwaysTypeInv == Spec => []TypeInv
<1>1. TypeInv /\ [Next]_vars => TypeInv'
  BY Step
<1>. QED
  BY <1>1, InitTypes, PTL DEF Spec

LEMMA AlwaysInStep == Spec => [](TypeInv /\ PairInv)
<1>1. Init => TypeInv /\ PairInv
  BY InitTypes, InitInStep
<1>2. TypeInv /\ PairInv /\ [Next]_vars => (TypeInv /\ PairInv)'
  BY Step DEF Keeps
<1>. QED
  BY <1>1, <1>2, PTL DEF Spec
---------------------------------------------------------------------------
\* Every queue, cache, cable and socket of every daemon holds what it is meant
\* to hold: the ARP cache never exceeds its entries, the time to live stays
\* within its field through every decrement, and what is asked of the routing
\* daemon is an address of the network (never that of a broadcast).
THEOREM TypeCorrect == Spec => []TypeOK
<1>1. TypeInv => TypeOK
  <2> SUFFICES ASSUME TypeInv PROVE TypeOK
    OBVIOUS
  <2>1. QueuedPdu \subseteq Pdu /\ QueuedWaiting \subseteq Waiting
    BY PduFacts
  <2>2. \A n \in Addr : route_queue[n] \in Seq(Pdu)
    <3> TAKE n \in Addr
    <3>1. route_queue[n] \in Seq(QueuedPdu)
      BY DEF TypeInv, QueueTypes
    <3>. QED
      BY <2>1, <3>1, SeqOfSubset
  <2>3. \A n \in Addr : arp_queue[n] \in Seq(Waiting)
    <3> TAKE n \in Addr
    <3>1. arp_queue[n] \in Seq(QueuedWaiting)
      BY DEF TypeInv, QueueTypes
    <3>. QED
      BY <2>1, <3>1, SeqOfSubset
  <2>4. route_queue \in [Addr -> Seq(Pdu)] /\ arp_queue \in [Addr -> Seq(Waiting)]
    BY <2>2, <2>3 DEF TypeInv, QueueTypes
  <2>. QED
    BY <2>4 DEF TypeOK, TypeInv, QueueTypes, CacheTypes, FrameTypes, SocketTypes,
                RecordTypes
<1>. QED
  BY <1>1, AlwaysTypeInv, PTL

LEMMA OpenFacts ==
    ASSUME TypeInv, PairInv, NEW n \in Addr
    PROVE  /\ Open(n) \in Seq(Addr)
           /\ Len(Open(n)) = Len(responses[n]) + Len(requests[n])
           /\ Len(Open(n)) <= Len(route_queue[n])
           /\ \A i \in DOMAIN Open(n) :
                Open(n)[i] = Dst[route_queue[n][(Len(route_queue[n]) - Len(Open(n))) + i].id]
<1> DEFINE A == responses[n]
           R == requests[n]
           Q == route_queue[n]
           of == [i \in DOMAIN A |-> A[i].of]
           before == Len(Q) - Len(A) - Len(R)
<1>0. before >= 0 /\ InStep(A, R, Q)
  BY Lengths DEF PairInv, PairAt, Lag, TypeInv, QueueTypes, SocketTypes
<1>1. A \in Seq(Response) /\ R \in Seq(Addr) /\ Q \in Seq(QueuedPdu)
  BY DEF TypeInv, QueueTypes, SocketTypes
<1>2. Open(n) = of \o R
  BY DEF Open
<1> HIDE DEF A, R, Q, of
<1>3. Len(A) \in Nat /\ Len(R) \in Nat /\ Len(Q) \in Nat
  BY <1>1
<1>4. of \in Seq(Addr) /\ Len(of) = Len(A) /\ \A i \in 1..Len(A) : of[i] = A[i].of
  <2>1. \A i \in 1..Len(A) : A[i] \in Response
    BY <1>1
  <2>2. \A i \in 1..Len(A) : A[i].of \in Addr
    BY <2>1 DEF Response
  <2>3. of = [i \in 1..Len(A) |-> A[i].of]
    BY <1>1 DEF of
  <2>. QED
    BY <1>3, <2>2, <2>3
<1>5. of \o R \in Seq(Addr) /\ Len(of \o R) = Len(of) + Len(R)
  BY <1>1, <1>4, ConcatFacts
<1>6. before \in Nat /\ before = Len(Q) - Len(of \o R) /\ before + Len(of \o R) = Len(Q)
  BY <1>0, <1>3, <1>4, <1>5
<1>7. /\ \A i \in 1..Len(A) : A[i].of = Dst[Q[before + i].id]
      /\ \A i \in 1..Len(R) : R[i] = Dst[Q[before + Len(A) + i].id]
  BY <1>0 DEF InStep
<1> HIDE DEF before
<1>8. ASSUME NEW i \in 1..(Len(A) + Len(R)) PROVE (of \o R)[i] = Dst[Q[before + i].id]
  <2>1. CASE i \in 1..Len(A)
    <3>1. (of \o R)[i] = of[i]
      BY <1>1, <1>3, <1>4, <2>1
    <3>. QED
      BY <1>4, <1>7, <2>1, <3>1
  <2>2. CASE i \notin 1..Len(A)
    <3>1. /\ i - Len(A) \in 1..Len(R)
          /\ before + Len(A) + (i - Len(A)) = before + i
      BY <1>3, <1>6, <2>2
    <3>2. (of \o R)[i] = R[i - Len(A)]
      BY <1>1, <1>3, <1>4, <2>2
    <3>. QED
      BY <1>7, <3>1, <3>2
  <2>. QED
    BY <2>1, <2>2
<1>9. DOMAIN (of \o R) = 1..(Len(A) + Len(R))
  BY <1>4, <1>5
<1>10. /\ Open(n) \in Seq(Addr) /\ Len(Open(n)) = Len(A) + Len(R)
       /\ before = Len(Q) - Len(Open(n))
       /\ \A i \in DOMAIN Open(n) : Open(n)[i] = Dst[Q[before + i].id]
  BY <1>2, <1>4, <1>5, <1>6, <1>8, <1>9
<1>11. Len(Open(n)) <= Len(Q)
  <2>1. Len(of \o R) \in Nat
    BY <1>3, <1>4, <1>5
  <2>2. Len(of \o R) <= Len(Q)
    BY <1>3, <1>6, <2>1
  <2>. QED
    BY <1>2, <2>2
<1>. QED
  BY <1>10, <1>11 DEF A, R, Q

\* Until a routing daemon exits, its answers and the requests it has yet to
\* answer are those of the packets in the route queue, in their order,
\* whatever it answers, whichever frames are lost, and however often a packet
\* released by an ARP response goes to the end of the queue (send_mip_packet,
\* receive_routing_response, check_arp_queue).
THEOREM AnswersMatch == Spec => []AnswersMatchQueue
<1>1. TypeInv /\ PairInv => AnswersMatchQueue
  <2> SUFFICES ASSUME TypeInv, PairInv, NEW n \in Addr, exits[n] = 0
               PROVE  Open(n) = [i \in DOMAIN route_queue[n] |-> Dst[route_queue[n][i].id]]
    BY DEF AnswersMatchQueue
  <2> DEFINE Q == route_queue[n]
             dst == [i \in DOMAIN Q |-> Dst[Q[i].id]]
  <2>1. Len(Q) = Len(responses[n]) + Len(requests[n])
    <3>1. Lag(n) = 0 /\ Len(late[n]) = 0
      BY DEF PairInv, PairAt
    <3>. QED
      BY <3>1, Lengths DEF Lag, TypeInv, QueueTypes, SocketTypes
  <2>2. /\ Open(n) \in Seq(Addr) /\ Len(Open(n)) = Len(Q)
        /\ \A i \in 1..Len(Q) : Open(n)[i] = Dst[Q[i].id]
    <3>1. /\ Open(n) \in Seq(Addr) /\ Len(Open(n)) = Len(Q)
          /\ \A i \in DOMAIN Open(n) :
                 Open(n)[i] = Dst[Q[(Len(Q) - Len(Open(n))) + i].id]
      BY <2>1, OpenFacts
    <3> HIDE DEF Q
    <3>2. DOMAIN Open(n) = 1..Len(Q) /\ Len(Q) \in Nat
      BY <3>1
    <3>3. \A i \in 1..Len(Q) : (Len(Q) - Len(Open(n))) + i = i
      BY <3>1, <3>2
    <3>. QED
      BY <3>1, <3>2, <3>3
  <2>3. dst \in Seq(Addr) /\ Len(dst) = Len(Q) /\ \A i \in 1..Len(Q) : dst[i] = Dst[Q[i].id]
    <3>1. Q \in Seq(QueuedPdu)
      BY DEF TypeInv, QueueTypes
    <3> HIDE DEF Q
    <3>2. \A i \in 1..Len(Q) : Q[i] \in QueuedPdu
      BY <3>1
    <3>3. \A i \in 1..Len(Q) : Dst[Q[i].id] \in Addr
      BY <3>2, PduFacts
    <3>. QED
      BY <3>1, <3>3
  <2> HIDE DEF Q, dst
  <2>4. \A i \in 1..Len(Q) : Open(n)[i] = dst[i]
    BY <2>2, <2>3
  <2>5. ASSUME NEW x \in Seq(Addr), NEW y \in Seq(Addr), Len(x) = Len(y),
               \A i \in 1..Len(x) : x[i] = y[i]
        PROVE  x = y
    BY <2>5
  <2>. QED
    BY <2>2, <2>3, <2>4, <2>5 DEF dst, Q
<1>. QED
  BY <1>1, AlwaysInStep, PTL

\* With any number of exits, and with the answers of several daemons read in
\* any turn, an answer always finds a packet, and the answers and requests of
\* the present routing daemon are those of the last packets that wait.
THEOREM AnswersTrail == Spec => []AnswersTrailQueue
<1>1. TypeInv /\ PairInv => AnswersTrailQueue
  <2> SUFFICES ASSUME TypeInv, PairInv, NEW n \in Addr
               PROVE  LET before == Len(route_queue[n]) - Len(Open(n))
                      IN  /\ Lag(n) >= 0
                          /\ \A i \in DOMAIN Open(n) :
                                Open(n)[i] = Dst[route_queue[n][before + i].id]
    BY DEF AnswersTrailQueue
  <2>. QED
    BY OpenFacts DEF PairInv, PairAt
<1>. QED
  BY <1>1, AlwaysInStep, PTL

\* A daemon that has fallen out of step with its routing daemon stays as far
\* behind for ever: no packet, answer, frame or new routing daemon helps.  It
\* falls further behind only with an exit, or with a request that is sent to
\* a client that has been given the routing daemon's descriptor.
THEOREM LagStays == Spec => LagIsForever
<1>1. TypeInv /\ PairInv /\ [Next]_vars =>
        [\A n \in Addr :
            /\ Lag(n)' >= Lag(n)
            /\ exits'[n] = exits[n] /\ routing_usd[n] # "client"
                    => Lag(n)' = Lag(n)]_vars
  BY Step DEF Keeps, LagKept
<1>. QED
  BY <1>1, AlwaysInStep, PTL DEF Spec, LagIsForever

\* The exit of a routing daemon is the only cause of the finding that packets
\* follow the answers of others: before the first one, the answer that is taken
\* for the packet at the front names the next hop towards its own destination
\* (receive_routing_response).
THEOREM OwnAnswers == Spec => [](NoneHasExited => RoutedByOwnAnswer)
<1>1. TypeInv /\ PairInv => (NoneHasExited => RoutedByOwnAnswer)
  <2> SUFFICES ASSUME TypeInv, PairInv, NEW n \in Addr, exits[n] = 0,
                      NEW answer \in NextAnswers(n), route_queue[n] # <<>>
               PROVE  answer.of = Dst[Head(route_queue[n]).id]
    BY DEF RoutedByOwnAnswer, NoneHasExited
  <2>1. responses[n] \in Seq(Response) /\ route_queue[n] \in Seq(QueuedPdu)
    BY DEF TypeInv, QueueTypes, SocketTypes
  <2>2. late[n] = <<>> /\ Lag(n) = 0 /\ InStep(responses[n], requests[n], route_queue[n])
    BY DEF PairInv, PairAt
  <2>3. FirstLate(n) = {}
    BY <2>2 DEF FirstLate
  <2>4. responses[n] # <<>> /\ answer = Head(responses[n])
    BY <2>3 DEF NextAnswers
  <2>5. /\ Head(responses[n]) = responses[n][1] /\ 1 \in 1..Len(responses[n])
        /\ Head(route_queue[n]) = route_queue[n][1]
    BY <2>1, <2>4, HeadTail
  <2>6. Len(route_queue[n]) - Len(responses[n]) - Len(requests[n]) = 0
    <3>1. Len(late[n]) = 0
      BY <2>2
    <3>. QED
      BY <2>2, <3>1, Lengths DEF Lag, TypeInv, QueueTypes, SocketTypes
  <2>7. responses[n][1].of = Dst[route_queue[n][0 + 1].id]
    BY <2>2, <2>5, <2>6 DEF InStep
  <2>. QED
    BY <2>4, <2>5, <2>7
<1>. QED
  BY <1>1, AlwaysInStep, PTL
=============================================================================

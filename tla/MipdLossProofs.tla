---------------------------- MODULE MipdLossProofs ----------------------------
(***************************************************************************)
(* What lost frames may cost the forwarding daemon, for every network.     *)
(*                                                                         *)
(* ARP exchanges: a packet that waits for a next hop is released by a      *)
(* response of it and by nothing else, and a response releases one packet. *)
(* So the exchanges on a cable and the packets that wait for them have to  *)
(* be counted (NoneIsForgotten).                                           *)
(*                                                                         *)
(* Packets: one whose way is sure is somewhere until it is delivered, and  *)
(* only the loss of its own frame takes it away (LossesAreOfFrames).       *)
(***************************************************************************)
EXTENDS MipdRelayProofs


\* How many elements of q are in T.
Hits(q, T) == {i \in 1..Len(q) : q[i] \in T}
Count(q, T) == Cardinality(Hits(q, T))
One(condition) == IF condition THEN 1 ELSE 0

LEMMA HitsFinite ==
    ASSUME NEW S, NEW q \in Seq(S), NEW T
    PROVE  IsFiniteSet(Hits(q, T)) /\ Count(q, T) \in Nat
<1>1. Len(q) \in Int /\ 1 \in Int
  OBVIOUS
<1>2. IsFiniteSet(1..Len(q))
  BY <1>1, FS_Interval
<1>3. Hits(q, T) \in SUBSET (1..Len(q))
  BY DEF Hits
<1>4. IsFiniteSet(Hits(q, T))
  BY <1>2, <1>3, FS_Subset
<1>. QED
  BY <1>4, FS_CardinalityType DEF Count

LEMMA CountAppend ==
    ASSUME NEW S, NEW q \in Seq(S), NEW e \in S, NEW T
    PROVE  Count(Append(q, e), T) = Count(q, T) + One(e \in T)
<1> DEFINE r == Append(q, e)
           n == Len(q) + 1
<1>1. /\ Len(q) \in Nat /\ Len(r) = n /\ r[n] = e
      /\ \A i \in 1..Len(q) : r[i] = q[i]
  BY AppendFacts
<1>2. IsFiniteSet(Hits(q, T)) /\ Count(q, T) \in Nat
  BY HitsFinite
<1>3. n \notin Hits(q, T)
  BY <1>1 DEF Hits
<1>4. CASE e \in T
  <2>1. Hits(r, T) = Hits(q, T) \union {n}
    <3>1. ASSUME NEW i \in Hits(r, T) PROVE i \in Hits(q, T) \union {n}
      <4>1. i \in 1..n /\ r[i] \in T
        BY <1>1 DEF Hits
      <4>2. CASE i = n
        BY <4>2
      <4>3. CASE i # n
        <5>1. i \in 1..Len(q)
          BY <1>1, <4>1, <4>3
        <5>. QED
          BY <1>1, <4>1, <5>1 DEF Hits
      <4>. QED
        BY <4>2, <4>3
    <3>2. ASSUME NEW i \in Hits(q, T) PROVE i \in Hits(r, T)
      <4>1. i \in 1..Len(q) /\ q[i] \in T
        BY DEF Hits
      <4>2. i \in 1..Len(r) /\ r[i] = q[i]
        BY <1>1, <4>1
      <4>. QED
        BY <4>1, <4>2 DEF Hits
    <3>3. n \in Hits(r, T)
      <4>1. n \in 1..Len(r)
        BY <1>1
      <4>. QED
        BY <1>1, <1>4, <4>1 DEF Hits
    <3>. QED
      BY <3>1, <3>2, <3>3
  <2>2. Cardinality(Hits(q, T) \union {n}) = Cardinality(Hits(q, T)) + 1
    BY <1>2, <1>3, FS_AddElement
  <2>. QED
    BY <1>4, <2>1, <2>2 DEF Count, One
<1>5. CASE e \notin T
  <2>1. Hits(r, T) = Hits(q, T)
    <3>1. ASSUME NEW i \in Hits(r, T) PROVE i \in Hits(q, T)
      <4>1. i \in 1..n /\ r[i] \in T
        BY <1>1 DEF Hits
      <4>2. i # n
        BY <1>1, <1>5, <4>1
      <4>3. i \in 1..Len(q)
        BY <1>1, <4>1, <4>2
      <4>. QED
        BY <1>1, <4>1, <4>3 DEF Hits
    <3>2. ASSUME NEW i \in Hits(q, T) PROVE i \in Hits(r, T)
      <4>1. i \in 1..Len(q) /\ q[i] \in T
        BY DEF Hits
      <4>2. i \in 1..Len(r) /\ r[i] = q[i]
        BY <1>1, <4>1
      <4>. QED
        BY <4>1, <4>2 DEF Hits
    <3>. QED
      BY <3>1, <3>2
  <2>2. Count(q, T) + 0 = Count(q, T)
    BY <1>2
  <2>. QED
    BY <1>5, <2>1, <2>2 DEF Count, One
<1>. QED
  BY <1>4, <1>5

LEMMA CountRemoveAt ==
    ASSUME NEW S, NEW q \in Seq(S), NEW k \in 1..Len(q), NEW T
    PROVE  Count(RemoveAt(q, k), T) = Count(q, T) - One(q[k] \in T)
<1> DEFINE r == RemoveAt(q, k)
           H == Hits(q, T) \ {k}
           f == [i \in Hits(r, T) |-> IF i < k THEN i ELSE i + 1]
<1>1. /\ r \in Seq(S) /\ Len(q) \in Nat /\ Len(r) = Len(q) - 1
      /\ \A i \in 1..(Len(q) - 1) : r[i] = IF i < k THEN q[i] ELSE q[i + 1]
  BY RemoveAtFacts
<1>2. IsFiniteSet(Hits(q, T)) /\ Count(q, T) \in Nat
  BY HitsFinite
<1> HIDE DEF r
<1>3. IsFiniteSet(Hits(r, T))
  BY <1>1, HitsFinite
<1>4. ASSUME NEW i \in Hits(r, T) PROVE i \in Nat /\ f[i] \in H
  <2>1. i \in 1..(Len(q) - 1) /\ r[i] \in T
    BY <1>1 DEF Hits
  <2>2. CASE i < k
    <3>1. f[i] = i /\ i \in 1..Len(q) /\ i # k /\ q[i] \in T
      BY <1>1, <2>1, <2>2
    <3>. QED
      BY <2>1, <3>1 DEF Hits
  <2>3. CASE ~(i < k)
    <3>1. f[i] = i + 1 /\ i + 1 \in 1..Len(q) /\ i + 1 # k /\ q[i + 1] \in T
      BY <1>1, <2>1, <2>3
    <3>. QED
      BY <2>1, <3>1 DEF Hits
  <2>. QED
    BY <2>2, <2>3
<1>5. ASSUME NEW i \in Hits(r, T), NEW j \in Hits(r, T), f[i] = f[j] PROVE i = j
  <2>1. i \in Nat /\ j \in Nat
    BY <1>4
  <2>2. f[i] = (IF i < k THEN i ELSE i + 1) /\ f[j] = (IF j < k THEN j ELSE j + 1)
    OBVIOUS
  <2>. QED
    BY <1>1, <1>5, <2>1, <2>2
<1>6. ASSUME NEW h \in H PROVE \E i \in Hits(r, T) : f[i] = h
  <2>1. h \in 1..Len(q) /\ h # k /\ q[h] \in T
    BY DEF Hits
  <2>2. CASE h < k
    <3>1. h \in 1..Len(r) /\ r[h] = q[h]
      BY <1>1, <2>1, <2>2
    <3>2. h \in Hits(r, T)
      BY <2>1, <3>1 DEF Hits
    <3>. QED
      BY <2>2, <3>2
  <2>3. CASE ~(h < k)
    <3>1. h - 1 \in 1..Len(r) /\ ~(h - 1 < k) /\ (h - 1) + 1 = h
      BY <1>1, <2>1, <2>3
    <3>2. r[h - 1] = q[h]
      BY <1>1, <3>1
    <3>3. h - 1 \in Hits(r, T)
      BY <2>1, <3>1, <3>2 DEF Hits
    <3>4. f[h - 1] = h
      BY <3>1, <3>3
    <3>. QED
      BY <3>3, <3>4
  <2>. QED
    BY <2>2, <2>3
<1>7. f \in Bijection(Hits(r, T), H)
  <2>1. f \in [Hits(r, T) -> H]
    BY <1>4
  <2>. QED
    BY <1>5, <1>6, <2>1 DEF Bijection, Injection, Surjection, IsInjective
<1>8. Cardinality(H) = Cardinality(Hits(r, T))
  <2>1. ExistsBijection(Hits(r, T), H)
    BY <1>7 DEF ExistsBijection
  <2>. QED
    BY <1>3, <2>1, FS_Bijection
<1>9. Cardinality(H) = IF k \in Hits(q, T) THEN Cardinality(Hits(q, T)) - 1
                                           ELSE Cardinality(Hits(q, T))
  BY <1>2, FS_RemoveElement
<1>10. k \in Hits(q, T) <=> q[k] \in T
  BY DEF Hits
<1> HIDE DEF H, f
<1>11. CASE q[k] \in T
  <2>1. Count(r, T) = Count(q, T) - 1
    BY <1>8, <1>9, <1>10, <1>11 DEF Count
  <2>. QED
    BY <1>11, <2>1 DEF One, r
<1>12. CASE q[k] \notin T
  <2>1. Count(r, T) = Count(q, T)
    BY <1>8, <1>9, <1>10, <1>12 DEF Count
  <2>2. Count(q, T) - 0 = Count(q, T)
    BY <1>2
  <2>. QED
    BY <1>12, <2>1, <2>2 DEF One, r
<1>. QED
  BY <1>11, <1>12

LEMMA CountTail ==
    ASSUME NEW S, NEW q \in Seq(S), q # <<>>, NEW T
    PROVE  Count(Tail(q), T) = Count(q, T) - One(Head(q) \in T)
<1>1. Tail(q) = RemoveAt(q, 1)
  BY TailIsRemoveAt
<1>2. Head(q) = q[1] /\ 1 \in 1..Len(q)
  BY HeadTail
<1>3. Count(RemoveAt(q, 1), T) = Count(q, T) - One(q[1] \in T)
  BY <1>2, CountRemoveAt
<1>. QED
  BY <1>1, <1>2, <1>3

LEMMA OneIs == \A condition \in BOOLEAN : One(condition) \in {0, 1}
<1>. QED
  BY DEF One
---------------------------------------------------------------------------
(* What is counted.  The neighbour at the other end of the cable c is c[2]: *)
(* requests for it leave on c, and its responses come on the way back.     *)

Asking(fr, c) == Count(fr[c], {ArpRequest(c[2])})
Answering(fr, c) == Count(fr[<<c[2], c[1]>>], {ArpResponse(c[2])})
ForHop(hop) == {w \in QueuedWaiting : w.next_hop = hop}
Waiters(aq, c) == Count(aq[c[1]], ForHop(c[2]))

\* A response on a cable is about the node that sent it.
HonestOn(q, s) == \A i \in 1..Len(q) : q[i].kind = "response" => q[i].addr = s
Honest(fr) == \A c \in Links : HonestOn(fr[c], c[1])

Even(fr, aq, lost) ==
    \A c \in Links :
        /\ Asking(fr, c) + Answering(fr, c) <= Waiters(aq, c)
        /\ Waiters(aq, c) <= Asking(fr, c) + Answering(fr, c) + lost

ArpInv == Honest(frames) /\ Even(frames, arp_queue, losses)

LEMMA CableFacts ==
    ASSUME NEW c \in Links
    PROVE  /\ c = <<c[1], c[2]>> /\ c[1] \in Addr /\ c[2] \in Addr /\ c[1] # c[2]
           /\ <<c[2], c[1]>> \in Links
<1>1. c \in Addr \X Addr
  BY NetworkAssumption
<1>2. c = <<c[1], c[2]>> /\ c[1] \in Addr /\ c[2] \in Addr
  BY <1>1
<1>3. c[1] # c[2] /\ <<c[2], c[1]>> \in Links
  BY <1>2, NetworkAssumption
<1>. QED
  BY <1>2, <1>3

LEMMA ArpFrames ==
    ASSUME NEW a, NEW b, NEW pdu
    PROVE  /\ ArpRequest(a) \in {ArpRequest(b)} <=> a = b
           /\ ArpResponse(a) \in {ArpResponse(b)} <=> a = b
           /\ ArpRequest(a) \notin {ArpResponse(b)}
           /\ ArpResponse(a) \notin {ArpRequest(b)}
           /\ Data(pdu) \notin {ArpRequest(b)} /\ Data(pdu) \notin {ArpResponse(b)}
           /\ ArpRequest(a).kind = "request" /\ ArpResponse(a).kind = "response"
           /\ ArpRequest(a).addr = a /\ ArpResponse(a).addr = a
           /\ Data(pdu).kind = "data"
<1>. QED
  BY DEF ArpRequest, ArpResponse, Data

LEMMA ArpFrameIs ==
    ASSUME NEW f \in Frame
    PROVE  /\ f.kind = "request" => f = ArpRequest(f.addr)
           /\ f.kind = "response" => f = ArpResponse(f.addr)
           /\ f.kind \in {"data", "request", "response"}
<1>. QED
  BY DEF Frame, DataFrame, ArpFrame, ArpRequest, ArpResponse

LEMMA CountTypes ==
    ASSUME NEW fr \in [Links -> Seq(Frame)], NEW aq \in [Addr -> Seq(QueuedWaiting)],
           NEW c \in Links
    PROVE  Asking(fr, c) \in Nat /\ Answering(fr, c) \in Nat /\ Waiters(aq, c) \in Nat
<1>1. c[1] \in Addr /\ <<c[2], c[1]>> \in Links
  BY CableFacts
<1>2. /\ fr[c] \in Seq(Frame) /\ fr[<<c[2], c[1]>>] \in Seq(Frame)
      /\ aq[c[1]] \in Seq(QueuedWaiting)
  BY <1>1
<1>. QED
  BY <1>2, HitsFinite DEF Asking, Answering, Waiters

Took(fr, x) == [fr EXCEPT ![x] = Tail(@)]

LEMMA CountTake ==
    ASSUME NEW fr \in [Links -> Seq(Frame)], NEW x \in Links, fr[x] # <<>>,
           NEW d \in Links, NEW T
    PROVE  Count(Took(fr, x)[d], T)
               = IF d = x /\ Head(fr[x]) \in T THEN Count(fr[d], T) - 1
                                                ELSE Count(fr[d], T)
<1>1. fr[d] \in Seq(Frame) /\ fr[x] \in Seq(Frame)
  OBVIOUS
<1>2. Count(fr[d], T) \in Nat
  BY <1>1, HitsFinite
<1>3. CASE d = x
  <2>1. Took(fr, x)[d] = Tail(fr[x])
    BY <1>3 DEF Took
  <2>2. Count(Tail(fr[x]), T) = Count(fr[x], T) - One(Head(fr[x]) \in T)
    BY <1>1, CountTail
  <2>. QED
    BY <1>2, <1>3, <2>1, <2>2 DEF One
<1>4. CASE d # x
  <2>1. Took(fr, x)[d] = fr[d]
    BY <1>4 DEF Took
  <2>2. Count(fr[d], T) - 0 = Count(fr[d], T)
    BY <1>2
  <2>. QED
    BY <1>4, <2>1, <2>2 DEF One
<1>. QED
  BY <1>3, <1>4

LEMMA CountWithFrame ==
    ASSUME NEW fr \in [Links -> Seq(Frame)], NEW n, NEW m, NEW f \in Frame,
           NEW d \in Links, NEW T
    PROVE  Count(WithFrame(fr, n, m, f)[d], T)
               = IF d = <<n, m>> /\ f \in T THEN Count(fr[d], T) + 1
                                            ELSE Count(fr[d], T)
<1>1. fr[d] \in Seq(Frame)
  OBVIOUS
<1>2. Count(fr[d], T) \in Nat
  BY <1>1, HitsFinite
<1>3. CASE d = <<n, m>>
  <2>1. WithFrame(fr, n, m, f)[d] = Append(fr[d], f)
    BY <1>3 DEF WithFrame
  <2>2. Count(Append(fr[d], f), T) = Count(fr[d], T) + One(f \in T)
    BY <1>1, CountAppend
  <2>. QED
    BY <1>2, <1>3, <2>1, <2>2 DEF One
<1>4. CASE d # <<n, m>>
  <2>1. WithFrame(fr, n, m, f)[d] = fr[d]
    BY <1>4 DEF WithFrame
  <2>2. Count(fr[d], T) + 0 = Count(fr[d], T)
    BY <1>2
  <2>. QED
    BY <1>4, <2>1, <2>2 DEF One
<1>. QED
  BY <1>3, <1>4

LEMMA CountWithBroadcast ==
    ASSUME NEW fr \in [Links -> Seq(Frame)], NEW n, NEW f \in Frame,
           NEW d \in Links, NEW T
    PROVE  Count(WithBroadcast(fr, n, f)[d], T)
               = IF d[1] = n /\ f \in T THEN Count(fr[d], T) + 1
                                        ELSE Count(fr[d], T)
<1>1. fr[d] \in Seq(Frame)
  OBVIOUS
<1>2. Count(fr[d], T) \in Nat
  BY <1>1, HitsFinite
<1>3. CASE d[1] = n
  <2>1. WithBroadcast(fr, n, f)[d] = Append(fr[d], f)
    BY <1>3 DEF WithBroadcast
  <2>2. Count(Append(fr[d], f), T) = Count(fr[d], T) + One(f \in T)
    BY <1>1, CountAppend
  <2>. QED
    BY <1>2, <1>3, <2>1, <2>2 DEF One
<1>4. CASE d[1] # n
  <2>1. WithBroadcast(fr, n, f)[d] = fr[d]
    BY <1>4 DEF WithBroadcast
  <2>2. Count(fr[d], T) + 0 = Count(fr[d], T)
    BY <1>2
  <2>. QED
    BY <1>4, <2>1, <2>2 DEF One
<1>. QED
  BY <1>3, <1>4

LEMMA HonestTake ==
    ASSUME NEW fr \in [Links -> Seq(Frame)], NEW x \in Links, fr[x] # <<>>, Honest(fr)
    PROVE  Honest(Took(fr, x))
<1> SUFFICES ASSUME NEW c \in Links
             PROVE  HonestOn(Took(fr, x)[c], c[1])
  BY DEF Honest
<1>1. HonestOn(fr[c], c[1]) /\ fr[c] \in Seq(Frame)
  BY DEF Honest
<1>2. CASE c = x
  <2>1. Took(fr, x)[c] = Tail(fr[c])
    BY <1>2 DEF Took
  <2>2. /\ Len(fr[c]) \in Nat /\ Len(Tail(fr[c])) = Len(fr[c]) - 1
        /\ \A i \in 1..(Len(fr[c]) - 1) : Tail(fr[c])[i] = fr[c][i + 1]
    BY <1>1, <1>2, HeadTail
  <2>3. ASSUME NEW i \in 1..Len(Tail(fr[c])), Tail(fr[c])[i].kind = "response"
        PROVE  Tail(fr[c])[i].addr = c[1]
    <3>1. i + 1 \in 1..Len(fr[c]) /\ Tail(fr[c])[i] = fr[c][i + 1]
      BY <2>2
    <3>. QED
      BY <1>1, <2>3, <3>1 DEF HonestOn
  <2>. QED
    BY <2>1, <2>3 DEF HonestOn
<1>3. CASE c # x
  BY <1>1, <1>3 DEF Took
<1>. QED
  BY <1>2, <1>3

LEMMA HonestAppend ==
    ASSUME NEW q \in Seq(Frame), NEW f \in Frame, NEW s, HonestOn(q, s),
           f.kind = "response" => f.addr = s
    PROVE  HonestOn(Append(q, f), s)
<1>1. /\ Len(q) \in Nat /\ Len(Append(q, f)) = Len(q) + 1
      /\ Append(q, f)[Len(q) + 1] = f
      /\ \A i \in 1..Len(q) : Append(q, f)[i] = q[i]
  BY AppendFacts
<1>2. SUFFICES ASSUME NEW i \in 1..(Len(q) + 1), Append(q, f)[i].kind = "response"
               PROVE  Append(q, f)[i].addr = s
  BY <1>1 DEF HonestOn
<1>3. CASE i = Len(q) + 1
  BY <1>1, <1>2, <1>3
<1>4. CASE i # Len(q) + 1
  <2>1. i \in 1..Len(q)
    BY <1>1, <1>4
  <2>. QED
    BY <1>1, <1>2, <2>1 DEF HonestOn
<1>. QED
  BY <1>3, <1>4

LEMMA HonestSend ==
    ASSUME NEW fr \in [Links -> Seq(Frame)], NEW n, NEW m, NEW f \in Frame, Honest(fr),
           f.kind = "response" => f.addr = n
    PROVE  Honest(WithFrame(fr, n, m, f)) /\ Honest(WithBroadcast(fr, n, f))
<1> SUFFICES ASSUME NEW c \in Links
             PROVE  /\ HonestOn(WithFrame(fr, n, m, f)[c], c[1])
                    /\ HonestOn(WithBroadcast(fr, n, f)[c], c[1])
  BY DEF Honest
<1>1. HonestOn(fr[c], c[1]) /\ fr[c] \in Seq(Frame)
  BY DEF Honest
<1>2. c[1] = n => HonestOn(Append(fr[c], f), c[1])
  BY <1>1, HonestAppend
<1>3. \/ WithFrame(fr, n, m, f)[c] = fr[c]
      \/ c[1] = n /\ WithFrame(fr, n, m, f)[c] = Append(fr[c], f)
  <2>1. CASE c = <<n, m>>
    <3>1. WithFrame(fr, n, m, f)[c] = Append(fr[c], f)
      BY <2>1 DEF WithFrame
    <3>. QED
      BY <2>1, <3>1
  <2>2. CASE c # <<n, m>>
    BY <2>2 DEF WithFrame
  <2>. QED
    BY <2>1, <2>2
<1>4. \/ WithBroadcast(fr, n, f)[c] = fr[c]
      \/ c[1] = n /\ WithBroadcast(fr, n, f)[c] = Append(fr[c], f)
  BY DEF WithBroadcast
<1>. QED
  BY <1>1, <1>2, <1>3, <1>4
---------------------------------------------------------------------------
(* What a step does to the counts.                                         *)

\* A frame that carries a packet counts for nothing.
LEMMA DataCounts ==
    ASSUME NEW fr \in [Links -> Seq(Frame)], NEW aq, NEW lost, NEW n, NEW m,
           NEW pdu \in Pdu, Honest(fr), Even(fr, aq, lost)
    PROVE  /\ Honest(WithFrame(fr, n, m, Data(pdu)))
           /\ Even(WithFrame(fr, n, m, Data(pdu)), aq, lost)
           /\ Honest(WithBroadcast(fr, n, Data(pdu)))
           /\ Even(WithBroadcast(fr, n, Data(pdu)), aq, lost)
<1>1. Data(pdu) \in Frame /\ Data(pdu).kind # "response"
  BY FrameFacts, ArpFrames
<1>2. ASSUME NEW d \in Links, NEW b, NEW T, T = {ArpRequest(b)} \/ T = {ArpResponse(b)}
      PROVE  /\ Count(WithFrame(fr, n, m, Data(pdu))[d], T) = Count(fr[d], T)
             /\ Count(WithBroadcast(fr, n, Data(pdu))[d], T) = Count(fr[d], T)
  <2>1. Data(pdu) \notin T
    BY <1>2 DEF Data, ArpRequest, ArpResponse
  <2>5. Count(WithFrame(fr, n, m, Data(pdu))[d], T)
            = IF d = <<n, m>> /\ Data(pdu) \in T THEN Count(fr[d], T) + 1
                                                 ELSE Count(fr[d], T)
    BY <1>1, CountWithFrame
  <2>6. Count(WithBroadcast(fr, n, Data(pdu))[d], T)
            = IF d[1] = n /\ Data(pdu) \in T THEN Count(fr[d], T) + 1
                                             ELSE Count(fr[d], T)
    BY <1>1, CountWithBroadcast
  <2>. QED
    BY <2>1, <2>5, <2>6
<1>3. ASSUME NEW c \in Links
      PROVE  /\ Asking(WithFrame(fr, n, m, Data(pdu)), c) = Asking(fr, c)
             /\ Answering(WithFrame(fr, n, m, Data(pdu)), c) = Answering(fr, c)
             /\ Asking(WithBroadcast(fr, n, Data(pdu)), c) = Asking(fr, c)
             /\ Answering(WithBroadcast(fr, n, Data(pdu)), c) = Answering(fr, c)
  <2>1. <<c[2], c[1]>> \in Links
    BY CableFacts
  <2>. QED
    BY <1>2, <2>1 DEF Asking, Answering
<1>4. /\ Even(WithFrame(fr, n, m, Data(pdu)), aq, lost)
      /\ Even(WithBroadcast(fr, n, Data(pdu)), aq, lost)
  BY <1>3 DEF Even
<1>. QED
  BY <1>1, <1>4, HonestSend

\* Taking a frame from a cable.
LEMMA TookCounts ==
    ASSUME NEW fr \in [Links -> Seq(Frame)], NEW x \in Links, fr[x] # <<>>,
           NEW c \in Links
    PROVE  /\ Asking(Took(fr, x), c)
                  = IF c = x /\ Head(fr[x]) = ArpRequest(x[2])
                    THEN Asking(fr, c) - 1 ELSE Asking(fr, c)
           /\ Answering(Took(fr, x), c)
                  = IF c = <<x[2], x[1]>> /\ Head(fr[x]) = ArpResponse(x[1])
                    THEN Answering(fr, c) - 1 ELSE Answering(fr, c)
<1> DEFINE d == <<c[2], c[1]>>
<1>1. ASSUME NEW y \in Links, NEW T
      PROVE  Count(Took(fr, x)[y], T)
                 = IF y = x /\ Head(fr[x]) \in T THEN Count(fr[y], T) - 1
                                                 ELSE Count(fr[y], T)
  BY CountTake
<1>2. c = <<c[1], c[2]>> /\ d \in Links /\ x = <<x[1], x[2]>>
  BY CableFacts
<1>3. Asking(Took(fr, x), c)
          = IF c = x /\ Head(fr[x]) \in {ArpRequest(c[2])} THEN Asking(fr, c) - 1
                                                           ELSE Asking(fr, c)
  BY <1>1 DEF Asking
<1>4. Answering(Took(fr, x), c)
          = IF d = x /\ Head(fr[x]) \in {ArpResponse(c[2])} THEN Answering(fr, c) - 1
                                                            ELSE Answering(fr, c)
  BY <1>1, <1>2 DEF Answering
<1>5. d = x <=> c = <<x[2], x[1]>>
  BY <1>2
<1>6. c = <<x[2], x[1]>> => c[2] = x[1]
  OBVIOUS
<1>. QED
  BY <1>3, <1>4, <1>5, <1>6

LEMMA TakeCounts ==
    ASSUME FrameTypes, NEW n \in Addr, NEW s \in Addr, <<s, n>> \in Links,
           frames[<<s, n>>] # <<>>, Honest(frames), NEW c \in Links
    PROVE  /\ Honest(TakeFrame(n, s))
           /\ Asking(TakeFrame(n, s), c)
                  = IF c = <<s, n>> /\ Head(frames[<<s, n>>]) = ArpRequest(n)
                    THEN Asking(frames, c) - 1 ELSE Asking(frames, c)
           /\ Answering(TakeFrame(n, s), c)
                  = IF c = <<n, s>> /\ Head(frames[<<s, n>>]) = ArpResponse(s)
                    THEN Answering(frames, c) - 1 ELSE Answering(frames, c)
<1> DEFINE x == <<s, n>>
<1>1. frames \in [Links -> Seq(Frame)] /\ x \in Links /\ frames[x] # <<>>
  BY DEF FrameTypes
<1>2. TakeFrame(n, s) = Took(frames, x) /\ x[1] = s /\ x[2] = n
  BY DEF TakeFrame, Took
<1> HIDE DEF x
<1>3. Honest(Took(frames, x))
  BY <1>1, HonestTake
<1>4. /\ Asking(Took(frames, x), c)
             = IF c = x /\ Head(frames[x]) = ArpRequest(x[2])
               THEN Asking(frames, c) - 1 ELSE Asking(frames, c)
      /\ Answering(Took(frames, x), c)
             = IF c = <<x[2], x[1]>> /\ Head(frames[x]) = ArpResponse(x[1])
               THEN Answering(frames, c) - 1 ELSE Answering(frames, c)
  BY <1>1, TookCounts
<1>. QED
  BY <1>2, <1>3, <1>4 DEF x
---------------------------------------------------------------------------
(* The steps.                                                              *)

LEMMA QueueFacts ==
    ASSUME TypeInv
    PROVE  /\ frames \in [Links -> Seq(Frame)] /\ FrameTypes
           /\ arp_queue \in [Addr -> Seq(QueuedWaiting)]
           /\ losses \in Nat
           /\ \A c \in Links : /\ Asking(frames, c) \in Nat
                               /\ Answering(frames, c) \in Nat
                               /\ Waiters(arp_queue, c) \in Nat
<1>1. /\ frames \in [Links -> Seq(Frame)] /\ FrameTypes
      /\ arp_queue \in [Addr -> Seq(QueuedWaiting)]
      /\ losses \in 0..MaxLosses
  BY DEF TypeInv, FrameTypes, QueueTypes, RecordTypes
<1>2. losses \in Nat
  BY <1>1
<1>. QED
  BY <1>1, <1>2, CountTypes

LEMMA HandleUsdEventArp ==
    ASSUME TypeInv, ArpInv, NEW n \in Addr, NEW p \in Packet, HandleUsdEvent(n, p)
    PROVE  ArpInv'
<1> DEFINE pdu == [id |-> p, ttl |-> AskedTtl(p)]
<1>1. pdu \in Pdu
  BY AskedRange DEF Pdu
<1>2. UNCHANGED <<arp_queue, losses>>
  BY DEF HandleUsdEvent, faults
<1>3. UNCHANGED frames \/ frames' = WithBroadcast(frames, n, Data(pdu))
  BY DEF HandleUsdEvent
<1>4. /\ Honest(frames) /\ Even(frames, arp_queue, losses)
      /\ frames \in [Links -> Seq(Frame)]
  BY QueueFacts DEF ArpInv
<1> HIDE DEF pdu
<1>5. /\ Honest(WithBroadcast(frames, n, Data(pdu)))
      /\ Even(WithBroadcast(frames, n, Data(pdu)), arp_queue, losses)
  BY <1>1, <1>4, DataCounts
<1>6. Honest(frames') /\ Even(frames', arp_queue', losses')
  BY <1>2, <1>3, <1>4, <1>5
<1>. QED
  BY <1>6 DEF ArpInv, Honest, Even

\* A request that is sent on every cable, and a response that is sent on one.
LEMMA AskCounts ==
    ASSUME NEW fr \in [Links -> Seq(Frame)], NEW n, NEW hop \in Addr, NEW c \in Links
    PROVE  /\ Asking(WithBroadcast(fr, n, ArpRequest(hop)), c)
                  = IF c[1] = n /\ hop = c[2] THEN Asking(fr, c) + 1 ELSE Asking(fr, c)
           /\ Answering(WithBroadcast(fr, n, ArpRequest(hop)), c) = Answering(fr, c)
<1>1. ASSUME NEW f \in Frame, NEW y \in Links, NEW T
      PROVE  Count(WithBroadcast(fr, n, f)[y], T)
                 = IF y[1] = n /\ f \in T THEN Count(fr[y], T) + 1 ELSE Count(fr[y], T)
  BY CountWithBroadcast
<1>2. ArpRequest(hop) \in Frame /\ <<c[2], c[1]>> \in Links
  BY FrameFacts, CableFacts
<1>3. ArpRequest(hop) \in {ArpRequest(c[2])} <=> hop = c[2]
  BY DEF ArpRequest
<1>4. ArpRequest(hop) \notin {ArpResponse(c[2])}
  BY DEF ArpRequest, ArpResponse
<1>. QED
  BY <1>1, <1>2, <1>3, <1>4 DEF Asking, Answering

LEMMA AnswerCounts ==
    ASSUME NEW fr \in [Links -> Seq(Frame)], NEW n \in Addr, NEW s, NEW c \in Links
    PROVE  /\ Asking(WithFrame(fr, n, s, ArpResponse(n)), c) = Asking(fr, c)
           /\ Answering(WithFrame(fr, n, s, ArpResponse(n)), c)
                  = IF c = <<s, n>> THEN Answering(fr, c) + 1 ELSE Answering(fr, c)
<1>1. ASSUME NEW f \in Frame, NEW y \in Links, NEW T
      PROVE  Count(WithFrame(fr, n, s, f)[y], T)
                 = IF y = <<n, s>> /\ f \in T THEN Count(fr[y], T) + 1 ELSE Count(fr[y], T)
  BY CountWithFrame
<1>2. /\ ArpResponse(n) \in Frame
      /\ c = <<c[1], c[2]>> /\ <<c[2], c[1]>> \in Links
  BY FrameFacts, CableFacts
<1>3. ArpResponse(n) \in {ArpResponse(c[2])} <=> n = c[2]
  BY DEF ArpResponse
<1>4. ArpResponse(n) \notin {ArpRequest(c[2])}
  BY DEF ArpRequest, ArpResponse
<1>5. <<c[2], c[1]>> = <<n, s>> <=> c = <<s, n>>
  BY <1>2
<1>6. c = <<s, n>> => c[2] = n
  OBVIOUS
<1>7. Asking(WithFrame(fr, n, s, ArpResponse(n)), c) = Asking(fr, c)
  BY <1>1, <1>2, <1>4 DEF Asking
<1>8. Answering(WithFrame(fr, n, s, ArpResponse(n)), c)
          = IF <<c[2], c[1]>> = <<n, s>> /\ ArpResponse(n) \in {ArpResponse(c[2])}
            THEN Answering(fr, c) + 1 ELSE Answering(fr, c)
  BY <1>1, <1>2 DEF Answering
<1>. QED
  BY <1>3, <1>5, <1>6, <1>7, <1>8

\* A packet that starts to wait is counted with the request that it sends.
LEMMA AskKeepsEven ==
    ASSUME TypeInv, ArpInv, NEW n \in Addr, NEW hop \in Addr, NEW pdu \in QueuedPdu,
           frames' = WithBroadcast(frames, n, ArpRequest(hop)),
           ArpEnqueue(n, hop, pdu), losses' = losses
    PROVE  ArpInv'
<1> DEFINE w == [next_hop |-> hop, pdu |-> pdu]
           f == ArpRequest(hop)
<1>1. /\ frames \in [Links -> Seq(Frame)] /\ arp_queue \in [Addr -> Seq(QueuedWaiting)]
      /\ Honest(frames) /\ Even(frames, arp_queue, losses) /\ losses \in Nat
  BY QueueFacts DEF ArpInv
<1>2. f \in Frame /\ f.kind = "request"
  BY FrameFacts, ArpFrames
<1>3. Honest(WithBroadcast(frames, n, f))
  BY <1>1, <1>2, HonestSend
<1>4. w \in QueuedWaiting /\ w.next_hop = hop
  BY DEF QueuedWaiting
<1>5. arp_queue' = [arp_queue EXCEPT ![n] = Append(arp_queue[n], w)]
  BY DEF ArpEnqueue
<1> HIDE DEF w
<1>6. ASSUME NEW c \in Links
      PROVE  /\ Asking(frames', c) + Answering(frames', c) <= Waiters(arp_queue', c)
             /\ Waiters(arp_queue', c)
                    <= Asking(frames', c) + Answering(frames', c) + losses'
  <2>1. /\ c[1] \in Addr /\ c[2] \in Addr /\ <<c[2], c[1]>> \in Links
        /\ arp_queue[c[1]] \in Seq(QueuedWaiting)
    BY <1>1, CableFacts
  <2>2. /\ Asking(frames, c) \in Nat /\ Answering(frames, c) \in Nat
        /\ Waiters(arp_queue, c) \in Nat
    BY QueueFacts
  <2>3. /\ Asking(frames', c) = IF c[1] = n /\ hop = c[2] THEN Asking(frames, c) + 1
                                                          ELSE Asking(frames, c)
        /\ Answering(frames', c) = Answering(frames, c)
    <3> DEFINE fr == WithBroadcast(frames, n, ArpRequest(hop))
    <3>1. /\ Asking(fr, c) = IF c[1] = n /\ hop = c[2] THEN Asking(frames, c) + 1
                                                       ELSE Asking(frames, c)
          /\ Answering(fr, c) = Answering(frames, c)
      <4>1. frames \in [Links -> Seq(Frame)]
        BY <1>1
      <4>. QED
        BY <4>1, AskCounts
    <3>2. frames' = fr
      OBVIOUS
    <3> HIDE DEF fr
    <3>. QED
      BY <3>1, <3>2
  <2>4. Waiters(arp_queue', c)
            = IF c[1] = n /\ hop = c[2] THEN Waiters(arp_queue, c) + 1
                                        ELSE Waiters(arp_queue, c)
    <3> DEFINE T == ForHop(c[2])
    <3>1. w \in T <=> hop = c[2]
      BY <1>4 DEF ForHop
    <3>2. CASE c[1] = n
      <4>1. arp_queue'[c[1]] = Append(arp_queue[c[1]], w)
        BY <1>1, <1>5, <3>2
      <4> HIDE DEF T
      <4>2. Count(Append(arp_queue[c[1]], w), T)
                = Count(arp_queue[c[1]], T) + One(w \in T)
        BY <1>4, <2>1, CountAppend
      <4>3. Count(arp_queue[c[1]], T) \in Nat
        BY <2>1, HitsFinite
      <4>. QED
        BY <3>1, <3>2, <4>1, <4>2, <4>3 DEF Waiters, One, T
    <3>3. CASE c[1] # n
      <4>1. arp_queue'[c[1]] = arp_queue[c[1]]
        BY <1>1, <1>5, <3>3, <2>1
      <4>. QED
        BY <3>3, <4>1 DEF Waiters
    <3>. QED
      BY <3>2, <3>3
  <2>5. /\ Asking(frames, c) + Answering(frames, c) <= Waiters(arp_queue, c)
        /\ Waiters(arp_queue, c) <= Asking(frames, c) + Answering(frames, c) + losses
    BY <1>1 DEF Even
  <2>. QED
    BY <1>1, <2>2, <2>3, <2>4, <2>5
<1>7. Honest(frames') /\ Even(frames', arp_queue', losses')
  BY <1>3, <1>6 DEF Even
<1>. QED
  BY <1>7 DEF ArpInv, Honest, Even

LEMMA ReceiveRoutingResponseArp ==
    ASSUME TypeInv, ArpInv, NEW n \in Addr, ReceiveRoutingResponse(n)
    PROVE  ArpInv'
<1> DEFINE pdu == Head(route_queue[n])
<1>1. losses' = losses
  BY DEF ReceiveRoutingResponse, faults
<1>2. route_queue[n] \in Seq(QueuedPdu)
  BY DEF TypeInv, QueueTypes
<1>3. PICK hop \in Addr \union {Unreachable} : UseResponse(n, hop)
  BY ReadsAnAnswer
<1>4. /\ Honest(frames) /\ Even(frames, arp_queue, losses)
      /\ frames \in [Links -> Seq(Frame)]
  BY QueueFacts DEF ArpInv
<1>5. CASE UNCHANGED <<arp_queue, frames>>
  BY <1>1, <1>4, <1>5 DEF ArpInv, Honest, Even
<1>6. CASE route_queue[n] # <<>>
  <2>1. \/ UNCHANGED <<arp_queue, frames>>
        \/ /\ frames' = WithFrame(frames, n, hop, Data(pdu))
           /\ UNCHANGED arp_queue
        \/ /\ hop # Unreachable
           /\ frames' = WithBroadcast(frames, n, ArpRequest(hop))
           /\ ArpEnqueue(n, hop, pdu)
    BY <1>3, <1>6 DEF UseResponse
  <2>2. pdu \in QueuedPdu /\ pdu \in Pdu
    BY <1>2, <1>6, HeadTail, PduFacts
  <2> HIDE DEF pdu
  <2>3. CASE /\ frames' = WithFrame(frames, n, hop, Data(pdu))
             /\ UNCHANGED arp_queue
    <3>1. /\ Honest(WithFrame(frames, n, hop, Data(pdu)))
          /\ Even(WithFrame(frames, n, hop, Data(pdu)), arp_queue, losses)
      BY <1>4, <2>2, DataCounts
    <3>2. Honest(frames') /\ Even(frames', arp_queue', losses')
      BY <1>1, <2>3, <3>1
    <3>. QED
      BY <3>2 DEF ArpInv, Honest, Even
  <2>4. CASE /\ hop # Unreachable
             /\ frames' = WithBroadcast(frames, n, ArpRequest(hop))
             /\ ArpEnqueue(n, hop, pdu)
    <3>1. hop \in Addr
      BY <1>3, <2>4
    <3>. QED
      BY <1>1, <2>2, <2>4, <3>1, AskKeepsEven
  <2>. QED
    BY <1>5, <2>1, <2>3, <2>4
<1>7. CASE route_queue[n] = <<>>
  BY <1>3, <1>5, <1>7 DEF UseResponse
<1>. QED
  BY <1>6, <1>7

LEMMA HandleArpRequestArp ==
    ASSUME TypeInv, ArpInv, NEW n \in Addr, NEW s \in Addr, HandleArpRequest(n, s)
    PROVE  ArpInv'
<1> DEFINE f == Head(frames[<<s, n>>])
           fr == TakeFrame(n, s)
<1>1. /\ <<s, n>> \in Links /\ frames[<<s, n>>] # <<>> /\ f.kind = "request"
      /\ arp_queue' = arp_queue /\ losses' = losses
      /\ IF f.addr = n THEN frames' = WithFrame(fr, n, s, ArpResponse(n))
                       ELSE frames' = fr
  BY DEF HandleArpRequest, Receives, faults
<1>2. /\ frames \in [Links -> Seq(Frame)] /\ FrameTypes /\ losses \in Nat
      /\ Honest(frames) /\ Even(frames, arp_queue, losses)
  BY QueueFacts DEF ArpInv
<1>3. f \in Frame /\ fr \in [Links -> Seq(Frame)]
  BY <1>1, <1>2, TakeFrameType
<1>4. f = ArpRequest(f.addr)
  BY <1>1, <1>3, ArpFrameIs
<1>5. /\ f = ArpRequest(n) <=> f.addr = n
      /\ f # ArpResponse(s)
  <2> HIDE DEF f
  <2>1. f # ArpResponse(s)
    BY <1>1, ArpFrames
  <2>2. ArpRequest(n).addr = n
    BY ArpFrames
  <2>. QED
    BY <1>4, <2>1, <2>2
<1>6. ASSUME NEW c \in Links
      PROVE  /\ Honest(fr)
             /\ Asking(fr, c) = IF c = <<s, n>> /\ f.addr = n THEN Asking(frames, c) - 1
                                                              ELSE Asking(frames, c)
             /\ Answering(fr, c) = Answering(frames, c)
  BY <1>1, <1>2, <1>5, TakeCounts
<1> HIDE DEF f, fr
<1>7. Honest(frames')
  <2>1. Honest(fr)
    BY <1>1, <1>6
  <2>2. ArpResponse(n) \in Frame /\ ArpResponse(n).addr = n
    BY FrameFacts, ArpFrames
  <2>3. Honest(WithFrame(fr, n, s, ArpResponse(n)))
    BY <1>3, <2>1, <2>2, HonestSend
  <2>. QED
    BY <1>1, <2>1, <2>3
<1>8. ASSUME NEW c \in Links
      PROVE  /\ Asking(frames', c) + Answering(frames', c)
                    = Asking(frames, c) + Answering(frames, c)
  <2>1. Asking(frames, c) \in Nat /\ Answering(frames, c) \in Nat
    BY QueueFacts
  <2>2. CASE f.addr = n
    <3>1. /\ Asking(WithFrame(fr, n, s, ArpResponse(n)), c) = Asking(fr, c)
          /\ Answering(WithFrame(fr, n, s, ArpResponse(n)), c)
                 = IF c = <<s, n>> THEN Answering(fr, c) + 1 ELSE Answering(fr, c)
      BY <1>3, AnswerCounts
    <3>2. frames' = WithFrame(fr, n, s, ArpResponse(n))
      BY <1>1, <2>2
    <3>3. CASE c = <<s, n>>
      <4>1. Asking(fr, c) = Asking(frames, c) - 1 /\ Answering(fr, c) = Answering(frames, c)
        BY <1>6, <2>2, <3>3
      <4>. QED
        BY <2>1, <3>1, <3>2, <3>3, <4>1
    <3>4. CASE c # <<s, n>>
      <4>1. Asking(fr, c) = Asking(frames, c) /\ Answering(fr, c) = Answering(frames, c)
        BY <1>6, <3>4
      <4>. QED
        BY <2>1, <3>1, <3>2, <3>4, <4>1
    <3>. QED
      BY <3>3, <3>4
  <2>3. CASE f.addr # n
    BY <1>1, <1>6, <2>3
  <2>. QED
    BY <2>2, <2>3
<1>9. Even(frames', arp_queue', losses')
  BY <1>1, <1>2, <1>8 DEF Even
<1>. QED
  BY <1>7, <1>9 DEF ArpInv, Honest, Even

\* A response finds a packet that waits for it, and releases one.
LEMMA HandleArpResponseArp ==
    ASSUME TypeInv, ArpInv, NEW n \in Addr, NEW s \in Addr, HandleArpResponse(n, s)
    PROVE  ArpInv'
<1> DEFINE f == Head(frames[<<s, n>>])
           x == <<n, s>>
           waits == WaitsFor(arp_queue[n], s)
           first == Min(waits)
<1>1. /\ <<s, n>> \in Links /\ frames[<<s, n>>] # <<>> /\ f.kind = "response"
      /\ frames' = TakeFrame(n, s) /\ losses' = losses
      /\ CheckArpQueue(n, f.addr)
  BY DEF HandleArpResponse, Receives, faults
<1>2. /\ frames \in [Links -> Seq(Frame)] /\ FrameTypes /\ losses \in Nat
      /\ arp_queue \in [Addr -> Seq(QueuedWaiting)]
      /\ Honest(frames) /\ Even(frames, arp_queue, losses)
  BY QueueFacts DEF ArpInv
<1>3. f.addr = s /\ f = ArpResponse(s)
  <2>1. frames[<<s, n>>] \in Seq(Frame) /\ HonestOn(frames[<<s, n>>], s)
    BY <1>1, <1>2 DEF Honest
  <2>2. f \in Frame /\ f = frames[<<s, n>>][1] /\ 1 \in 1..Len(frames[<<s, n>>])
    BY <1>1, <2>1, HeadTail
  <2>3. f.addr = s
    BY <1>1, <2>1, <2>2 DEF HonestOn
  <2>4. f = ArpResponse(f.addr)
    BY <1>1, <2>2, ArpFrameIs
  <2>. QED
    BY <2>3, <2>4
<1>4. f # ArpRequest(n)
  BY <1>3 DEF ArpRequest, ArpResponse
<1>5. ASSUME NEW c \in Links
      PROVE  /\ Honest(frames')
             /\ Asking(frames', c) = Asking(frames, c)
             /\ Answering(frames', c) = IF c = x THEN Answering(frames, c) - 1
                                                 ELSE Answering(frames, c)
  BY <1>1, <1>2, <1>3, <1>4, TakeCounts
<1>6. x \in Links /\ arp_queue[n] \in Seq(QueuedWaiting)
  BY <1>1, <1>2, NetworkAssumption
<1>7. Answering(frames, x) >= 1 /\ Waiters(arp_queue, x) >= 1
  <2>1. frames' \in [Links -> Seq(Frame)]
    BY <1>1, <1>2, TakeFrameType
  <2>2. Answering(frames', x) \in Nat
    BY <1>2, <1>6, <2>1, CountTypes
  <2>3. Asking(frames, x) \in Nat /\ Answering(frames, x) \in Nat
        /\ Waiters(arp_queue, x) \in Nat
    BY <1>6, QueueFacts
  <2>4. Answering(frames', x) = Answering(frames, x) - 1
    BY <1>5, <1>6
  <2>5. Asking(frames, x) + Answering(frames, x) <= Waiters(arp_queue, x)
    BY <1>2, <1>6 DEF Even
  <2> HIDE DEF x
  <2>. QED
    BY <2>2, <2>3, <2>4, <2>5
<1>8. waits # {}
  <2>1. Hits(arp_queue[n], ForHop(s)) \subseteq waits
    <3>1. DOMAIN arp_queue[n] = 1..Len(arp_queue[n])
      BY <1>6
    <3>. QED
      BY <3>1 DEF Hits, ForHop, WaitsFor
  <2>2. Waiters(arp_queue, x) = Cardinality(Hits(arp_queue[n], ForHop(s)))
    BY DEF Waiters, Count
  <2>3. CASE waits = {}
    <3>1. Hits(arp_queue[n], ForHop(s)) = {}
      BY <2>1, <2>3
    <3>2. Waiters(arp_queue, x) = 0
      BY <2>2, <3>1, FS_EmptySet
    <3> HIDE DEF x
    <3>. QED
      BY <1>7, <3>2
  <2>. QED
    BY <2>3
<1>9. first \in 1..Len(arp_queue[n]) /\ arp_queue[n][first] \in ForHop(s)
  <2>1. first \in waits
    BY <1>6, <1>8, FirstWaiting
  <2>2. first \in 1..Len(arp_queue[n]) /\ arp_queue[n][first].next_hop = s
    <3>1. DOMAIN arp_queue[n] = 1..Len(arp_queue[n])
      BY <1>6
    <3> HIDE DEF first
    <3>. QED
      BY <2>1, <3>1 DEF WaitsFor
  <2> HIDE DEF first
  <2>3. arp_queue[n][first] \in QueuedWaiting
    BY <1>6, <2>2
  <2>. QED
    BY <2>2, <2>3 DEF ForHop
<1>10. arp_queue' = [arp_queue EXCEPT ![n] = RemoveAt(arp_queue[n], first)]
  BY <1>1, <1>3, <1>8 DEF CheckArpQueue, ArpDequeue
<1> HIDE DEF first, waits, f
<1>11. ASSUME NEW c \in Links
       PROVE  Waiters(arp_queue', c) = IF c = x THEN Waiters(arp_queue, c) - 1
                                                ELSE Waiters(arp_queue, c)
  <2>1. c = <<c[1], c[2]>> /\ c[1] \in Addr /\ arp_queue[c[1]] \in Seq(QueuedWaiting)
    BY <1>2, CableFacts
  <2>2. Waiters(arp_queue, c) \in Nat
    BY QueueFacts
  <2>3. CASE c[1] = n
    <3> DEFINE T == ForHop(c[2])
    <3>1. arp_queue[n][first] \in T <=> c = x
      BY <1>9, <2>1, <2>3 DEF ForHop
    <3>2. Waiters(arp_queue', c) = Count(RemoveAt(arp_queue[n], first), T)
      BY <1>2, <1>10, <2>3 DEF Waiters
    <3>3. Waiters(arp_queue, c) = Count(arp_queue[n], T)
      BY <2>3 DEF Waiters
    <3> HIDE DEF T, x
    <3>4. Count(RemoveAt(arp_queue[n], first), T)
              = Count(arp_queue[n], T) - One(arp_queue[n][first] \in T)
      BY <1>6, <1>9, CountRemoveAt
    <3>. QED
      BY <2>2, <3>1, <3>2, <3>3, <3>4 DEF One
  <2>4. CASE c[1] # n
    <3>1. arp_queue'[c[1]] = arp_queue[c[1]] /\ c # x
      BY <1>2, <1>10, <2>1, <2>4
    <3>. QED
      BY <3>1 DEF Waiters
  <2>. QED
    BY <2>3, <2>4
<1>12. ASSUME NEW c \in Links
       PROVE  /\ Asking(frames', c) + Answering(frames', c) <= Waiters(arp_queue', c)
              /\ Waiters(arp_queue', c)
                     <= Asking(frames', c) + Answering(frames', c) + losses'
  <2>1. /\ Asking(frames, c) \in Nat /\ Answering(frames, c) \in Nat
        /\ Waiters(arp_queue, c) \in Nat
    BY QueueFacts
  <2>2. /\ Asking(frames, c) + Answering(frames, c) <= Waiters(arp_queue, c)
        /\ Waiters(arp_queue, c) <= Asking(frames, c) + Answering(frames, c) + losses
    BY <1>2 DEF Even
  <2> HIDE DEF x
  <2>3. CASE c = x
    <3>1. /\ Asking(frames', c) = Asking(frames, c)
          /\ Answering(frames', c) = Answering(frames, c) - 1
          /\ Waiters(arp_queue', c) = Waiters(arp_queue, c) - 1
      BY <1>5, <1>11, <2>3
    <3>. QED
      BY <1>1, <1>2, <2>1, <2>2, <3>1
  <2>4. CASE c # x
    <3>1. /\ Asking(frames', c) = Asking(frames, c)
          /\ Answering(frames', c) = Answering(frames, c)
          /\ Waiters(arp_queue', c) = Waiters(arp_queue, c)
      BY <1>5, <1>11, <2>4
    <3>. QED
      BY <1>1, <2>2, <3>1
  <2>. QED
    BY <2>3, <2>4
<1>13. Honest(frames') /\ Even(frames', arp_queue', losses')
  BY <1>5, <1>6, <1>12 DEF Even
<1>. QED
  BY <1>13 DEF ArpInv, Honest, Even

LEMMA ForwardMipPduArp ==
    ASSUME TypeInv, ArpInv, NEW n \in Addr, NEW s \in Addr, ForwardMipPdu(n, s)
    PROVE  ArpInv'
<1> DEFINE f == Head(frames[<<s, n>>])
<1>1. /\ <<s, n>> \in Links /\ frames[<<s, n>>] # <<>> /\ f.kind = "data"
      /\ frames' = TakeFrame(n, s) /\ arp_queue' = arp_queue /\ losses' = losses
  BY DEF ForwardMipPdu, Receives, faults
<1>2. FrameTypes /\ Honest(frames) /\ Even(frames, arp_queue, losses)
  BY QueueFacts DEF ArpInv
<1>3. f # ArpRequest(n) /\ f # ArpResponse(s)
  BY <1>1, ArpFrames
<1>4. ASSUME NEW c \in Links
      PROVE  /\ Honest(frames')
             /\ Asking(frames', c) = Asking(frames, c)
             /\ Answering(frames', c) = Answering(frames, c)
  BY <1>1, <1>2, <1>3, TakeCounts
<1>5. Honest(frames') /\ Even(frames', arp_queue', losses')
  BY <1>1, <1>2, <1>4 DEF Even
<1>. QED
  BY <1>5 DEF ArpInv, Honest, Even

\* A lost frame ends one exchange at most.
LEMMA LoseFrameArp ==
    ASSUME TypeInv, ArpInv, NEW n \in Addr, NEW s \in Addr, LoseFrame(n, s)
    PROVE  ArpInv'
<1> DEFINE f == Head(frames[<<s, n>>])
<1>1. /\ <<s, n>> \in Links /\ frames[<<s, n>>] # <<>>
      /\ frames' = TakeFrame(n, s) /\ arp_queue' = arp_queue /\ losses' = losses + 1
  BY DEF LoseFrame, queues
<1>2. FrameTypes /\ Honest(frames) /\ Even(frames, arp_queue, losses) /\ losses \in Nat
  BY QueueFacts DEF ArpInv
<1>3. f = ArpRequest(n) => f # ArpResponse(s)
  BY DEF ArpRequest, ArpResponse
<1>4. ASSUME NEW c \in Links
      PROVE  /\ Honest(frames')
             /\ Asking(frames', c) = IF c = <<s, n>> /\ f = ArpRequest(n)
                                     THEN Asking(frames, c) - 1 ELSE Asking(frames, c)
             /\ Answering(frames', c) = IF c = <<n, s>> /\ f = ArpResponse(s)
                                        THEN Answering(frames, c) - 1
                                        ELSE Answering(frames, c)
  BY <1>1, <1>2, TakeCounts
<1> HIDE DEF f
<1>5. ASSUME NEW c \in Links
      PROVE  /\ Asking(frames', c) + Answering(frames', c) <= Waiters(arp_queue', c)
             /\ Waiters(arp_queue', c)
                    <= Asking(frames', c) + Answering(frames', c) + losses'
  <2>1. /\ Asking(frames, c) \in Nat /\ Answering(frames, c) \in Nat
        /\ Waiters(arp_queue, c) \in Nat
    BY QueueFacts
  <2>2. /\ Asking(frames, c) + Answering(frames, c) <= Waiters(arp_queue, c)
        /\ Waiters(arp_queue, c) <= Asking(frames, c) + Answering(frames, c) + losses
    BY <1>2 DEF Even
  <2>3. /\ Waiters(arp_queue', c) = Waiters(arp_queue, c) /\ losses' = losses + 1
    BY <1>1
  <2>4. \/ /\ Asking(frames', c) = Asking(frames, c)
           /\ Answering(frames', c) = Answering(frames, c)
        \/ /\ Asking(frames', c) = Asking(frames, c) - 1
           /\ Answering(frames', c) = Answering(frames, c)
        \/ /\ Asking(frames', c) = Asking(frames, c)
           /\ Answering(frames', c) = Answering(frames, c) - 1
    BY <1>3, <1>4
  <2>. QED
    BY <1>2, <2>1, <2>2, <2>3, <2>4
<1>6. Honest(frames') /\ Even(frames', arp_queue', losses')
  BY <1>1, <1>4, <1>5 DEF Even
<1>. QED
  BY <1>6 DEF ArpInv, Honest, Even

LEMMA ArpStep == ASSUME TypeInv, ArpInv, [Next]_vars PROVE ArpInv'
<1>1. CASE UNCHANGED <<arp_queue, frames, losses>>
  BY <1>1 DEF ArpInv, Honest, Even
<1>2. CASE UNCHANGED vars
  BY <1>1, <1>2 DEF vars
<1>3. ASSUME NEW n \in Addr, NEW p \in Packet, HandleUsdEvent(n, p) PROVE ArpInv'
  BY <1>3, HandleUsdEventArp
<1>4. ASSUME NEW n \in Addr, ReceiveRoutingResponse(n) PROVE ArpInv'
  BY <1>4, ReceiveRoutingResponseArp
<1>5. ASSUME NEW n \in Addr, NEW s \in Addr, HandleRsdEvent(n, s) PROVE ArpInv'
  BY <1>5, HandleArpRequestArp, HandleArpResponseArp, ForwardMipPduArp DEF HandleRsdEvent
<1>6. ASSUME NEW n \in Addr,
             \/ Answer(n) \/ RoutingdExit(n) \/ RoutingdConnect(n)
             \/ DescriptorReused(n) \/ ClientLeaves(n)
      PROVE  ArpInv'
  BY <1>1, <1>6 DEF Answer, RoutingdExit, RoutingdConnect, DescriptorReused,
                    ClientLeaves, queues, faults
<1>7. ASSUME NEW n \in Addr, NEW s \in Addr, LoseFrame(n, s) PROVE ArpInv'
  BY <1>7, LoseFrameArp
<1>. QED
  BY <1>2, <1>3, <1>4, <1>5, <1>6, <1>7 DEF Next

LEMMA InitArp == Init => ArpInv
<1> SUFFICES ASSUME Init PROVE ArpInv
  OBVIOUS
<1>1. \A T : Count(<<>>, T) = 0
  <2>1. \A T : Hits(<<>>, T) = {}
    BY DEF Hits
  <2>. QED
    BY <2>1, FS_EmptySet DEF Count
<1>2. ASSUME NEW c \in Links
      PROVE  /\ frames[c] = <<>> /\ frames[<<c[2], c[1]>>] = <<>>
             /\ arp_queue[c[1]] = <<>> /\ losses = 0
  BY CableFacts DEF Init
<1>3. ASSUME NEW c \in Links
      PROVE  Asking(frames, c) = 0 /\ Answering(frames, c) = 0 /\ Waiters(arp_queue, c) = 0
  BY <1>1, <1>2 DEF Asking, Answering, Waiters
<1>4. Even(frames, arp_queue, losses)
  <2> SUFFICES ASSUME NEW c \in Links
               PROVE  /\ Asking(frames, c) + Answering(frames, c) <= Waiters(arp_queue, c)
                      /\ Waiters(arp_queue, c)
                             <= Asking(frames, c) + Answering(frames, c) + losses
    BY DEF Even
  <2>1. /\ Asking(frames, c) = 0 /\ Answering(frames, c) = 0
        /\ Waiters(arp_queue, c) = 0 /\ losses = 0
    BY <1>2, <1>3
  <2>. QED
    BY <2>1
<1>5. Honest(frames)
  <2>1. \A s : HonestOn(<<>>, s)
    BY DEF HonestOn
  <2>. QED
    BY <1>2, <2>1 DEF Honest
<1>. QED
  BY <1>4, <1>5 DEF ArpInv

\* A packet waits for a next hop exactly as long as an exchange with it is
\* under way, or one was ended by a lost frame: no ARP response ever finds
\* nobody waiting, whatever else is asked, answered and forwarded meanwhile
\* (check_arp_queue, handle_arp_request).
THEOREM NoneIsForgotten == Spec => []OneExchangePerWaiter
<1>1. TypeInv /\ ArpInv => OneExchangePerWaiter
  <2> SUFFICES ASSUME TypeInv, ArpInv, NEW c \in Links
               PROVE  LET waiters == Cardinality(WaitsFor(arp_queue[c[1]], c[2]))
                          exchanges == Cardinality(FramesOf(c, ArpRequest(c[2])))
                                       + Cardinality(FramesOf(<<c[2], c[1]>>,
                                                              ArpResponse(c[2])))
                      IN  exchanges <= waiters /\ waiters <= exchanges + losses
    BY DEF OneExchangePerWaiter
  <2>1. /\ frames \in [Links -> Seq(Frame)] /\ arp_queue \in [Addr -> Seq(QueuedWaiting)]
        /\ c[1] \in Addr /\ <<c[2], c[1]>> \in Links
    BY QueueFacts, CableFacts
  <2>2. ASSUME NEW d \in Links, NEW f
        PROVE  FramesOf(d, f) = Hits(frames[d], {f})
    <3>1. DOMAIN frames[d] = 1..Len(frames[d])
      BY <2>1
    <3>. QED
      BY <3>1 DEF FramesOf, Hits
  <2>3. WaitsFor(arp_queue[c[1]], c[2]) = Hits(arp_queue[c[1]], ForHop(c[2]))
    <3>1. arp_queue[c[1]] \in Seq(QueuedWaiting)
      BY <2>1
    <3>2. /\ DOMAIN arp_queue[c[1]] = 1..Len(arp_queue[c[1]])
          /\ \A i \in 1..Len(arp_queue[c[1]]) : arp_queue[c[1]][i] \in QueuedWaiting
      BY <3>1
    <3>. QED
      BY <3>2 DEF WaitsFor, Hits, ForHop
  <2>4. /\ Cardinality(WaitsFor(arp_queue[c[1]], c[2])) = Waiters(arp_queue, c)
        /\ Cardinality(FramesOf(c, ArpRequest(c[2]))) = Asking(frames, c)
        /\ Cardinality(FramesOf(<<c[2], c[1]>>, ArpResponse(c[2])))
               = Answering(frames, c)
    BY <2>1, <2>2, <2>3 DEF Waiters, Asking, Answering, Count
  <2>5. /\ Asking(frames, c) + Answering(frames, c) <= Waiters(arp_queue, c)
        /\ Waiters(arp_queue, c) <= Asking(frames, c) + Answering(frames, c) + losses
    BY DEF ArpInv, Even
  <2>. QED
    BY <2>4, <2>5
<1>2. TypeInv /\ ArpInv /\ [Next]_vars => (TypeInv /\ ArpInv)'
  BY Step, ArpStep
<1>3. Init => TypeInv /\ ArpInv
  BY InitTypes, InitArp
<1>. QED
  BY <1>1, <1>2, <1>3, PTL DEF Spec

---------------------------------------------------------------------------
(* The packets whose way is sure.  Where such a packet waits, and where it *)
(* is heading for, it has cables left for the rest of its way.             *)

Rank(p) == CHOOSE rank \in [Addr -> 0..(MaxTtl + 1)] : LeadsFor(rank, p)

Near(n) ==
    {pdu \in QueuedPdu :
        pdu.id \in WellRouted => n # Dst[pdu.id] /\ Rank(pdu.id)[n] <= pdu.ttl}
NearWaiting(n) == {w \in QueuedWaiting : w.pdu \in Near(n)}
Nearing(n) ==
    {f \in Frame :
        f.kind = "data" /\ f.pdu.id \in WellRouted => Rank(f.pdu.id)[n] < f.pdu.ttl}
FromVia(n) == {r \in Response : r.next_hop \in Via[n][r.of]}

NearQueues(rq) == \A n \in Addr : rq[n] \in Seq(Near(n))
NearWaiters(aq) == \A n \in Addr : aq[n] \in Seq(NearWaiting(n))
NearingFrames(fr) == \A c \in Links : fr[c] \in Seq(Nearing(c[2]))
FromVias(rs) == \A n \in Addr : rs[n] \in Seq(FromVia(n))
Guided ==
    /\ NearQueues(route_queue) /\ NearWaiters(arp_queue)
    /\ NearingFrames(frames) /\ FromVias(responses)

\* Where p is.
Carries(q, T) == \E i \in 1..Len(q) : q[i] \in T
IsPdu(p) == {pdu \in QueuedPdu : pdu.id = p}
IsWaiting(p) == {w \in QueuedWaiting : w.pdu.id = p}
IsFrame(p) == {f \in Frame : f.kind = "data" /\ f.pdu.id = p}
InRoutes(rq, p) == \E n \in Addr : Carries(rq[n], IsPdu(p))
InArps(aq, p) == \E n \in Addr : Carries(aq[n], IsWaiting(p))
InFrames(fr, p) == \E c \in Links : Carries(fr[c], IsFrame(p))
Held(p) == InRoutes(route_queue, p) \/ InArps(arp_queue, p) \/ InFrames(frames, p)
Here(p) == Held(p) \/ delivered[p] # <<>>

\* A step that leads every such packet further and loses none.
Leading ==
    /\ Guided'
    /\ \A p \in WellRouted : p \in sent' /\ (p \in sent => Here(p)) => Here(p)'

Strays == {p \in WellRouted : p \in sent /\ ~Here(p)}
WayInv == NoneHasExited => /\ Guided
                           /\ IsFiniteSet(Strays)
                           /\ Cardinality(Strays) <= losses
---------------------------------------------------------------------------
LEMMA CarriesAppend ==
    ASSUME NEW S, NEW q \in Seq(S), NEW e \in S, NEW T
    PROVE  Carries(Append(q, e), T) <=> Carries(q, T) \/ e \in T
<1> DEFINE r == Append(q, e)
<1>1. /\ Len(q) \in Nat /\ Len(r) = Len(q) + 1 /\ r[Len(q) + 1] = e
      /\ \A i \in 1..Len(q) : r[i] = q[i]
  BY AppendFacts
<1> HIDE DEF r
<1>2. Len(q) + 1 \in 1..Len(r) /\ \A i \in 1..Len(q) : i \in 1..Len(r)
  BY <1>1
<1>3. \A i \in 1..Len(r) : i \in 1..Len(q) \/ i = Len(q) + 1
  BY <1>1
<1>4. Carries(r, T) <=> Carries(q, T) \/ e \in T
  BY <1>1, <1>2, <1>3 DEF Carries
<1>. QED
  BY <1>4 DEF r

LEMMA CarriesRemoveAt ==
    ASSUME NEW S, NEW q \in Seq(S), NEW k \in 1..Len(q), NEW T, Carries(q, T)
    PROVE  q[k] \in T \/ Carries(RemoveAt(q, k), T)
<1> DEFINE r == RemoveAt(q, k)
<1>1. /\ Len(q) \in Nat /\ Len(r) = Len(q) - 1
      /\ \A i \in 1..(Len(q) - 1) : r[i] = IF i < k THEN q[i] ELSE q[i + 1]
  BY RemoveAtFacts
<1> HIDE DEF r
<1>2. PICK j \in 1..Len(q) : q[j] \in T
  BY DEF Carries
<1>3. CASE j < k
  <2>1. j \in 1..Len(r) /\ r[j] = q[j]
    BY <1>1, <1>3
  <2>. QED
    BY <1>2, <2>1 DEF Carries, r
<1>4. CASE j > k
  <2>1. j - 1 \in 1..Len(r) /\ ~(j - 1 < k) /\ (j - 1) + 1 = j
    BY <1>1, <1>4
  <2>2. r[j - 1] = q[j]
    BY <1>1, <2>1
  <2>. QED
    BY <1>2, <2>1, <2>2 DEF Carries, r
<1>5. j < k \/ j > k \/ j = k
  BY <1>1
<1>. QED
  BY <1>2, <1>3, <1>4, <1>5

LEMMA CarriesTail ==
    ASSUME NEW S, NEW q \in Seq(S), q # <<>>, NEW T, Carries(q, T)
    PROVE  Head(q) \in T \/ Carries(Tail(q), T)
<1>1. 1 \in 1..Len(q) /\ Head(q) = q[1]
  BY HeadTail
<1>2. Tail(q) = RemoveAt(q, 1)
  BY TailIsRemoveAt
<1>. QED
  BY <1>1, <1>2, CarriesRemoveAt

LEMMA TailType ==
    ASSUME NEW S, NEW q \in Seq(S), q # <<>>
    PROVE  Head(q) \in S /\ Tail(q) \in Seq(S)
<1>. QED
  BY HeadTail
---------------------------------------------------------------------------
LEMMA RankFacts ==
    ASSUME NEW p \in WellRouted
    PROVE  /\ p \in ToOneNode /\ p \in Packet /\ Dst[p] \in Addr
           /\ Src[p] \in Addr /\ Src[p] # Dst[p] /\ Rank(p)[Src[p]] <= AskedTtl(p)
           /\ Rank(p) \in [Addr -> 0..(MaxTtl + 1)] /\ Rank(p)[Dst[p]] = 0
           /\ \A n \in Addr : n # Dst[p] => Rank(p)[n] >= 1
           /\ \A n \in Addr : n # Dst[p] /\ Rank(p)[n] <= MaxTtl =>
                  \A m \in Via[n][Dst[p]] : /\ m \in Addr /\ m # Unreachable
                                            /\ <<n, m>> \in Links
                                            /\ Rank(p)[m] < Rank(p)[n]
<1>1. /\ p \in ToOneNode /\ Src[p] # Dst[p]
      /\ \E rank \in [Addr -> 0..(MaxTtl + 1)] : LeadsFor(rank, p)
  BY DEF WellRouted
<1>2. p \in Packet /\ Dst[p] \in Addr /\ Src[p] \in Addr
  BY <1>1, PduFacts, PacketAssumption
<1>3. Rank(p) \in [Addr -> 0..(MaxTtl + 1)] /\ LeadsFor(Rank(p), p)
  BY <1>1 DEF Rank
<1> DEFINE r == Rank(p)
           d == Dst[p]
<1>4. /\ r[Src[p]] <= AskedTtl(p) /\ r[d] = 0
      /\ \A n \in Addr \ {d} :
             r[n] <= MaxTtl => Via[n][d] \subseteq {m \in Addr : r[m] < r[n]}
  BY <1>3 DEF LeadsFor, Leads
<1>5. \A n \in Addr : r[n] \in 0..(MaxTtl + 1)
  BY <1>3
<1>6. ASSUME NEW n \in Addr, n # d, r[n] <= MaxTtl, NEW m \in Via[n][d]
      PROVE  m \in Addr /\ m # Unreachable /\ <<n, m>> \in Links /\ r[m] < r[n]
  <2>1. m \in Addr /\ r[m] < r[n]
    BY <1>4, <1>6
  <2>2. m # Unreachable
    BY <2>1, PduFacts
  <2>3. m \in Neighbours(n) \union {Unreachable}
    BY <1>2, <1>6, ViaAssumption
  <2>. QED
    BY <2>1, <2>2, <2>3 DEF Neighbours
<1>7. ASSUME NEW n \in Addr, n # d PROVE r[n] >= 1
  <2>1. CASE r[n] <= MaxTtl
    <3>1. PICK m : m \in Via[n][d]
      BY <1>2, ViaAssumption
    <3>2. m \in Addr /\ r[m] < r[n]
      BY <1>6, <1>7, <2>1, <3>1
    <3>3. r[m] \in 0..(MaxTtl + 1) /\ r[n] \in 0..(MaxTtl + 1)
      BY <1>5, <3>2
    <3> HIDE DEF r
    <3>. QED
      BY <3>2, <3>3, PacketAssumption
  <2>2. CASE ~(r[n] <= MaxTtl)
    <3>1. r[n] \in 0..(MaxTtl + 1)
      BY <1>5
    <3> HIDE DEF r
    <3>. QED
      BY <2>2, <3>1, PacketAssumption
  <2>. QED
    BY <2>1, <2>2
<1>. QED
  BY <1>1, <1>2, <1>3, <1>4, <1>6, <1>7

LEMMA NearFacts ==
    /\ \A n \in Addr : /\ Near(n) \subseteq QueuedPdu
                       /\ NearWaiting(n) \subseteq QueuedWaiting
                       /\ Nearing(n) \subseteq Frame
                       /\ FromVia(n) \subseteq Response
    /\ \A n, m \in Addr : ArpRequest(m) \in Nearing(n) /\ ArpResponse(m) \in Nearing(n)
    /\ \A p, m : ArpRequest(m) \notin IsFrame(p) /\ ArpResponse(m) \notin IsFrame(p)
    /\ \A pdu \in Pdu : Data(pdu) \in IsFrame(pdu.id)
<1>1. \A pdu : /\ Data(pdu).kind = "data" /\ Data(pdu).pdu = pdu
  BY DEF Data
<1>2. \A m : ArpRequest(m).kind # "data" /\ ArpResponse(m).kind # "data"
  BY DEF ArpRequest, ArpResponse
<1>. QED
  BY <1>1, <1>2, FrameFacts DEF Near, NearWaiting, Nearing, FromVia, IsFrame
---------------------------------------------------------------------------
(* What happens to the queues and cables.                                  *)

\* A packet is put at the end of a route queue.
LEMMA RoutesAppend ==
    ASSUME NEW rq, rq \in [Addr -> Seq(QueuedPdu)], NearQueues(rq),
           NEW n \in Addr, NEW pdu \in Near(n)
    PROVE  LET new == [rq EXCEPT ![n] = Append(@, pdu)]
           IN  /\ NearQueues(new)
               /\ \A p : InRoutes(rq, p) => InRoutes(new, p)
               /\ InRoutes(new, pdu.id)
<1> DEFINE new == [rq EXCEPT ![n] = Append(@, pdu)]
<1>1. /\ new[n] = Append(rq[n], pdu) /\ \A m \in Addr : m # n => new[m] = rq[m]
  OBVIOUS
<1>2. rq[n] \in Seq(Near(n)) /\ rq[n] \in Seq(QueuedPdu)
  BY DEF NearQueues
<1>3. Append(rq[n], pdu) \in Seq(Near(n)) /\ pdu \in QueuedPdu
  BY <1>2 DEF Near
<1>4. \A T : Carries(new[n], T) <=> Carries(rq[n], T) \/ pdu \in T
  BY <1>1, <1>2, <1>3, CarriesAppend
<1> HIDE DEF new
<1>5. NearQueues(new)
  BY <1>1, <1>3 DEF NearQueues
<1>6. \A p : InRoutes(rq, p) => InRoutes(new, p)
  BY <1>1, <1>4 DEF InRoutes
<1>7. pdu \in IsPdu(pdu.id)
  BY <1>3 DEF IsPdu
<1>8. InRoutes(new, pdu.id)
  BY <1>4, <1>7 DEF InRoutes
<1>. QED
  BY <1>5, <1>6, <1>8 DEF new

\* The packet at the front of a route queue is taken.
LEMMA RoutesTail ==
    ASSUME NEW rq, rq \in [Addr -> Seq(QueuedPdu)], NearQueues(rq),
           NEW n \in Addr, rq[n] # <<>>
    PROVE  LET new == [rq EXCEPT ![n] = Tail(@)]
           IN  /\ NearQueues(new) /\ Head(rq[n]) \in Near(n)
               /\ \A p : InRoutes(rq, p) => InRoutes(new, p) \/ Head(rq[n]).id = p
<1> DEFINE new == [rq EXCEPT ![n] = Tail(@)]
<1>1. /\ new[n] = Tail(rq[n]) /\ \A m \in Addr : m # n => new[m] = rq[m]
  OBVIOUS
<1>2. rq[n] \in Seq(Near(n))
  BY DEF NearQueues
<1>3. Head(rq[n]) \in Near(n) /\ Tail(rq[n]) \in Seq(Near(n))
  BY <1>2, TailType
<1>4. \A T : Carries(rq[n], T) => Head(rq[n]) \in T \/ Carries(new[n], T)
  BY <1>1, <1>2, CarriesTail
<1> HIDE DEF new
<1>5. NearQueues(new)
  BY <1>1, <1>3 DEF NearQueues
<1>6. \A p : InRoutes(rq, p) => InRoutes(new, p) \/ Head(rq[n]) \in IsPdu(p)
  BY <1>1, <1>4 DEF InRoutes
<1>7. \A p : Head(rq[n]) \in IsPdu(p) => Head(rq[n]).id = p
  BY DEF IsPdu
<1>. QED
  BY <1>3, <1>5, <1>6, <1>7 DEF new

\* A packet joins those that wait for ARP; one of them is taken.
LEMMA ArpsAppend ==
    ASSUME NEW aq, aq \in [Addr -> Seq(QueuedWaiting)], NearWaiters(aq),
           NEW n \in Addr, NEW w \in NearWaiting(n)
    PROVE  LET new == [aq EXCEPT ![n] = Append(@, w)]
           IN  /\ NearWaiters(new)
               /\ \A p : InArps(aq, p) => InArps(new, p)
               /\ InArps(new, w.pdu.id)
<1> DEFINE new == [aq EXCEPT ![n] = Append(@, w)]
<1>1. /\ new[n] = Append(aq[n], w) /\ \A m \in Addr : m # n => new[m] = aq[m]
  OBVIOUS
<1>2. aq[n] \in Seq(NearWaiting(n)) /\ aq[n] \in Seq(QueuedWaiting)
  BY DEF NearWaiters
<1>3. Append(aq[n], w) \in Seq(NearWaiting(n)) /\ w \in QueuedWaiting
  BY <1>2 DEF NearWaiting
<1>4. \A T : Carries(new[n], T) <=> Carries(aq[n], T) \/ w \in T
  BY <1>1, <1>2, <1>3, CarriesAppend
<1> HIDE DEF new
<1>5. NearWaiters(new)
  BY <1>1, <1>3 DEF NearWaiters
<1>6. \A p : InArps(aq, p) => InArps(new, p)
  BY <1>1, <1>4 DEF InArps
<1>7. w \in IsWaiting(w.pdu.id)
  BY <1>3 DEF IsWaiting
<1>8. InArps(new, w.pdu.id)
  BY <1>4, <1>7 DEF InArps
<1>. QED
  BY <1>5, <1>6, <1>8 DEF new

LEMMA ArpsRemove ==
    ASSUME NEW aq, aq \in [Addr -> Seq(QueuedWaiting)], NearWaiters(aq),
           NEW n \in Addr, NEW k \in 1..Len(aq[n])
    PROVE  LET new == [aq EXCEPT ![n] = RemoveAt(@, k)]
           IN  /\ NearWaiters(new) /\ aq[n][k] \in NearWaiting(n)
               /\ \A p : InArps(aq, p) => InArps(new, p) \/ aq[n][k].pdu.id = p
<1> DEFINE new == [aq EXCEPT ![n] = RemoveAt(@, k)]
<1>1. /\ new[n] = RemoveAt(aq[n], k) /\ \A m \in Addr : m # n => new[m] = aq[m]
  OBVIOUS
<1>2. aq[n] \in Seq(NearWaiting(n))
  BY DEF NearWaiters
<1>3. aq[n][k] \in NearWaiting(n) /\ RemoveAt(aq[n], k) \in Seq(NearWaiting(n))
  BY <1>2, RemoveAtFacts
<1>4. \A T : Carries(aq[n], T) => aq[n][k] \in T \/ Carries(new[n], T)
  BY <1>1, <1>2, CarriesRemoveAt
<1> HIDE DEF new
<1>5. NearWaiters(new)
  BY <1>1, <1>3 DEF NearWaiters
<1>6. \A p : InArps(aq, p) => InArps(new, p) \/ aq[n][k] \in IsWaiting(p)
  BY <1>1, <1>4 DEF InArps
<1>7. \A p : aq[n][k] \in IsWaiting(p) => aq[n][k].pdu.id = p
  BY DEF IsWaiting
<1>. QED
  BY <1>3, <1>5, <1>6, <1>7 DEF new

\* A frame is sent to one neighbour, or to all.
LEMMA FramesSend ==
    ASSUME NEW fr, fr \in [Links -> Seq(Frame)], NearingFrames(fr),
           NEW n \in Addr, NEW m \in Addr, <<n, m>> \in Links, NEW f \in Nearing(m)
    PROVE  /\ NearingFrames(WithFrame(fr, n, m, f))
           /\ \A p : InFrames(fr, p) \/ f \in IsFrame(p)
                         => InFrames(WithFrame(fr, n, m, f), p)
<1> DEFINE new == WithFrame(fr, n, m, f)
           c0 == <<n, m>>
<1>1. /\ new[c0] = Append(fr[c0], f) /\ \A c \in Links : c # c0 => new[c] = fr[c]
  BY DEF WithFrame
<1>2. c0 \in Links /\ c0[2] = m
  OBVIOUS
<1> HIDE DEF new, c0
<1>3. fr[c0] \in Seq(Nearing(m))
  BY <1>2 DEF NearingFrames
<1>4. Append(fr[c0], f) \in Seq(Nearing(m))
  BY <1>3
<1>5. \A T : Carries(new[c0], T) <=> Carries(fr[c0], T) \/ f \in T
  BY <1>1, <1>3, CarriesAppend
<1>6. NearingFrames(new)
  BY <1>1, <1>2, <1>4 DEF NearingFrames
<1>7. \A p : InFrames(fr, p) \/ f \in IsFrame(p) => InFrames(new, p)
  BY <1>1, <1>2, <1>5 DEF InFrames
<1>. QED
  BY <1>6, <1>7 DEF new

LEMMA FramesBroadcast ==
    ASSUME NEW fr, fr \in [Links -> Seq(Frame)], NearingFrames(fr),
           NEW n \in Addr, NEW f, \A m \in Addr : f \in Nearing(m)
    PROVE  /\ NearingFrames(WithBroadcast(fr, n, f))
           /\ \A p : InFrames(fr, p) => InFrames(WithBroadcast(fr, n, f), p)
<1> DEFINE new == WithBroadcast(fr, n, f)
<1>1. \A c \in Links : new[c] = IF c[1] = n THEN Append(fr[c], f) ELSE fr[c]
  BY DEF WithBroadcast
<1> HIDE DEF new
<1>2. ASSUME NEW c \in Links
      PROVE  /\ new[c] \in Seq(Nearing(c[2]))
             /\ \A T : Carries(fr[c], T) => Carries(new[c], T)
  <2>1. c[2] \in Addr
    BY NetworkAssumption
  <2>2. fr[c] \in Seq(Nearing(c[2])) /\ f \in Nearing(c[2])
    BY <2>1 DEF NearingFrames
  <2>3. /\ Append(fr[c], f) \in Seq(Nearing(c[2]))
        /\ \A T : Carries(fr[c], T) => Carries(Append(fr[c], f), T)
    BY <2>2, CarriesAppend
  <2>. QED
    BY <1>1, <2>2, <2>3
<1>3. NearingFrames(new)
  BY <1>2 DEF NearingFrames
<1>4. \A p : InFrames(fr, p) => InFrames(new, p)
  BY <1>2 DEF InFrames
<1>. QED
  BY <1>3, <1>4 DEF new

\* A frame is taken from a cable.
LEMMA FramesTake ==
    ASSUME FrameTypes, NearingFrames(frames),
           NEW n \in Addr, NEW s \in Addr, <<s, n>> \in Links, frames[<<s, n>>] # <<>>
    PROVE  /\ NearingFrames(TakeFrame(n, s))
           /\ Head(frames[<<s, n>>]) \in Nearing(n)
           /\ \A p : InFrames(frames, p)
                         => \/ InFrames(TakeFrame(n, s), p)
                            \/ Head(frames[<<s, n>>]) \in IsFrame(p)
<1> DEFINE new == TakeFrame(n, s)
           c0 == <<s, n>>
<1>1. /\ new[c0] = Tail(frames[c0]) /\ \A c \in Links : c # c0 => new[c] = frames[c]
  BY DEF TakeFrame, FrameTypes
<1>2. c0 \in Links /\ c0[2] = n /\ frames[c0] # <<>>
  OBVIOUS
<1>3. frames[c0] \in Seq(Nearing(n))
  BY <1>2 DEF NearingFrames
<1> HIDE DEF new, c0
<1>4. Head(frames[c0]) \in Nearing(n) /\ Tail(frames[c0]) \in Seq(Nearing(n))
  BY <1>2, <1>3, TailType
<1>5. \A T : Carries(frames[c0], T) => Head(frames[c0]) \in T \/ Carries(new[c0], T)
  BY <1>1, <1>2, <1>3, CarriesTail
<1>6. NearingFrames(new)
  BY <1>1, <1>2, <1>4 DEF NearingFrames
<1>7. \A p : InFrames(frames, p) => InFrames(new, p) \/ Head(frames[c0]) \in IsFrame(p)
  BY <1>1, <1>2, <1>5 DEF InFrames
<1>. QED
  BY <1>4, <1>6, <1>7 DEF new, c0
---------------------------------------------------------------------------
(* The actions, until a routing daemon exits.                              *)

OnTheWay == TypeInv /\ PairInv /\ Guided /\ NoneHasExited

LEMMA WayTypes ==
    ASSUME OnTheWay
    PROVE  /\ route_queue \in [Addr -> Seq(QueuedPdu)] /\ NearQueues(route_queue)
           /\ arp_queue \in [Addr -> Seq(QueuedWaiting)] /\ NearWaiters(arp_queue)
           /\ frames \in [Links -> Seq(Frame)] /\ NearingFrames(frames) /\ FrameTypes
           /\ responses \in [Addr -> Seq(Response)] /\ FromVias(responses)
           /\ requests \in [Addr -> Seq(Addr)]
           /\ delivered \in [Packet -> Seq(Addr)]
           /\ \A n \in Addr : /\ routing_usd[n] = "routingd" /\ late[n] = <<>>
                              /\ PairAt(n) /\ Lag(n) = 0
<1>1. \A n \in Addr : /\ routing_usd[n] = "routingd" /\ late[n] = <<>>
                       /\ PairAt(n) /\ Lag(n) = 0
  BY DEF OnTheWay, NoneHasExited, PairInv, PairAt
<1>. QED
  BY <1>1 DEF OnTheWay, TypeInv, QueueTypes, FrameTypes, SocketTypes, RecordTypes, Guided

\* A daemon sends a packet: it joins the route queue, and nothing leaves it.
LEMMA SendWay ==
    ASSUME OnTheWay, NEW n \in Addr, NEW pdu \in Near(n), SendMipPacket(n, pdu)
    PROVE  /\ NearQueues(route_queue')
           /\ \A p : InRoutes(route_queue, p) => InRoutes(route_queue', p)
           /\ InRoutes(route_queue', pdu.id)
<1>1. /\ routing_usd[n] = "routingd"
      /\ route_queue \in [Addr -> Seq(QueuedPdu)] /\ NearQueues(route_queue)
  BY WayTypes
<1>2. route_queue' = [route_queue EXCEPT ![n] = Append(@, pdu)]
  BY <1>1 DEF SendMipPacket, RouteEnqueue
<1>. QED
  BY <1>1, <1>2, RoutesAppend

LEMMA HandleUsdEventWay ==
    ASSUME OnTheWay, NEW n \in Addr, NEW p \in Packet, HandleUsdEvent(n, p)
    PROVE  Leading
<1> DEFINE pdu == [id |-> p, ttl |-> AskedTtl(p)]
<1>1. /\ Src[p] = n /\ sent' = sent \union {p}
      /\ UNCHANGED <<arp_queue, responses, delivered>>
  BY DEF HandleUsdEvent
<1>2. pdu \in Pdu /\ pdu.id = p /\ pdu.ttl = AskedTtl(p)
  BY AskedRange DEF Pdu
<1>3. CASE Dst[p] = Broadcast
  <2>1. frames' = WithBroadcast(frames, n, Data(pdu)) /\ UNCHANGED route_queue
    BY <1>3 DEF HandleUsdEvent
  <2>2. p \notin WellRouted
    BY <1>3 DEF WellRouted, ToOneNode
  <2> HIDE DEF pdu
  <2>3. ASSUME NEW m \in Addr PROVE Data(pdu) \in Nearing(m)
    <3>1. Data(pdu).pdu = pdu /\ Data(pdu) \in Frame
      BY <1>2, FrameFacts DEF Data
    <3>. QED
      BY <1>2, <2>2, <3>1 DEF Nearing
  <2>4. /\ NearingFrames(frames')
        /\ \A q : InFrames(frames, q) => InFrames(frames', q)
    BY <2>1, <2>3, FramesBroadcast, WayTypes
  <2>5. Guided'
    BY <1>1, <2>1, <2>4 DEF OnTheWay, Guided
  <2>6. \A q \in WellRouted : q \in sent' /\ (q \in sent => Here(q)) => Here(q)'
    BY <1>1, <2>1, <2>2, <2>4 DEF Here, Held
  <2>. QED
    BY <2>5, <2>6 DEF Leading
<1>4. CASE Dst[p] # Broadcast
  <2>1. SendMipPacket(n, pdu) /\ UNCHANGED frames
    BY <1>4 DEF HandleUsdEvent
  <2> HIDE DEF pdu
  <2>2. pdu \in Near(n)
    <3>1. p \in ToOneNode
      BY <1>4 DEF ToOneNode
    <3>2. pdu \in QueuedPdu
      BY <1>2, <3>1 DEF QueuedPdu, Pdu
    <3>. QED
      BY <1>1, <1>2, <3>2, RankFacts DEF Near
  <2>3. /\ NearQueues(route_queue')
        /\ \A q : InRoutes(route_queue, q) => InRoutes(route_queue', q)
        /\ InRoutes(route_queue', p)
    BY <1>2, <2>1, <2>2, SendWay
  <2>4. Guided'
    BY <1>1, <2>1, <2>3 DEF OnTheWay, Guided
  <2>5. \A q \in WellRouted : q \in sent' /\ (q \in sent => Here(q)) => Here(q)'
    BY <1>1, <2>1, <2>3 DEF Here, Held
  <2>. QED
    BY <2>4, <2>5 DEF Leading
<1>. QED
  BY <1>3, <1>4

\* The answer that is used for the packet at the front leads it closer.
LEMMA AnswerLeads ==
    ASSUME OnTheWay, NEW n \in Addr, responses[n] # <<>>
    PROVE  LET hop == Head(responses[n]).next_hop
               pdu == Head(route_queue[n])
           IN  /\ route_queue[n] # <<>>
               /\ pdu \in Near(n)
               /\ hop \in Via[n][Dst[pdu.id]] /\ hop \in Addr \union {Unreachable}
               /\ hop # Unreachable => <<n, hop>> \in Links /\ Data(pdu) \in Nearing(hop)
               /\ pdu.id \in WellRouted => hop # Unreachable
<1> DEFINE a == Head(responses[n])
           pdu == Head(route_queue[n])
           hop == a.next_hop
<1>1. /\ responses[n] \in Seq(Response) /\ responses[n] \in Seq(FromVia(n))
      /\ requests[n] \in Seq(Addr) /\ route_queue[n] \in Seq(QueuedPdu)
      /\ route_queue[n] \in Seq(Near(n)) /\ late[n] = <<>> /\ PairAt(n) /\ Lag(n) = 0
  BY WayTypes DEF FromVias, NearQueues
<1>2. /\ InStep(responses[n], requests[n], route_queue[n])
      /\ Len(route_queue[n]) - Len(responses[n]) - Len(requests[n]) = 0
      /\ Len(route_queue[n]) - Len(responses[n]) - Len(requests[n]) >= 0
  <2>1. Len(late[n]) = 0 /\ TypeInv
    BY <1>1 DEF OnTheWay
  <2>. QED
    BY <1>1, <2>1, Lengths DEF PairAt, Lag, TypeInv, QueueTypes, SocketTypes
<1>3. route_queue[n] # <<>>
  BY <1>1, <1>2, InStepTake
<1>4. /\ a \in FromVia(n) /\ a = responses[n][1] /\ 1 \in 1..Len(responses[n])
      /\ pdu \in Near(n) /\ pdu = route_queue[n][1]
  BY <1>1, <1>3, HeadTail
<1>5. a.of = Dst[pdu.id]
  <2>1. responses[n][1].of = Dst[route_queue[n][0 + 1].id]
    BY <1>2, <1>4 DEF InStep
  <2>. QED
    BY <1>4, <2>1
<1>6. hop \in Via[n][Dst[pdu.id]] /\ hop \in Addr \union {Unreachable}
  BY <1>4, <1>5 DEF FromVia, Response
<1> HIDE DEF a, pdu, hop
<1>7. /\ pdu \in QueuedPdu /\ pdu \in Pdu /\ pdu.id \in ToOneNode /\ Dst[pdu.id] \in Addr
      /\ pdu.ttl \in 0..MaxTtl
  BY <1>4, PduFacts DEF Near
<1>8. ASSUME hop # Unreachable PROVE <<n, hop>> \in Links
  BY <1>6, <1>7, <1>8, ViaAssumption DEF Neighbours
<1>9. ASSUME pdu.id \in WellRouted
      PROVE  hop # Unreachable /\ Rank(pdu.id)[hop] < pdu.ttl
  <2>1. n # Dst[pdu.id] /\ Rank(pdu.id)[n] <= pdu.ttl
    BY <1>4, <1>9 DEF Near
  <2>2. Rank(pdu.id) \in [Addr -> 0..(MaxTtl + 1)]
    BY <1>9, RankFacts
  <2>3. Rank(pdu.id)[n] \in 0..(MaxTtl + 1)
    BY <2>2
  <2>4. Rank(pdu.id)[n] <= MaxTtl
    BY <1>7, <2>1, <2>3, PacketAssumption
  <2>5. hop \in Addr /\ hop # Unreachable /\ Rank(pdu.id)[hop] < Rank(pdu.id)[n]
    BY <1>6, <1>9, <2>1, <2>4, RankFacts
  <2>6. Rank(pdu.id)[hop] \in 0..(MaxTtl + 1)
    BY <2>2, <2>5
  <2>7. Rank(pdu.id)[hop] < pdu.ttl
    BY <1>7, <2>1, <2>3, <2>5, <2>6, PacketAssumption
  <2>. QED
    BY <2>5, <2>7
<1>10. Data(pdu) \in Nearing(hop)
  <2>1. Data(pdu) \in Frame /\ Data(pdu).pdu = pdu
    BY <1>7, FrameFacts DEF Data
  <2>. QED
    BY <1>9, <2>1 DEF Nearing
<1>. QED
  BY <1>3, <1>4, <1>6, <1>8, <1>9, <1>10 DEF a, pdu, hop

LEMMA ReceiveRoutingResponseWay ==
    ASSUME OnTheWay, NEW n \in Addr, ReceiveRoutingResponse(n)
    PROVE  Leading
<1> DEFINE hop == Head(responses[n]).next_hop
           pdu == Head(route_queue[n])
           w == [next_hop |-> hop, pdu |-> pdu]
<1>1. /\ responses[n] # <<>> /\ responses' = [responses EXCEPT ![n] = Tail(responses[n])]
      /\ UseResponse(n, hop)
      /\ UNCHANGED <<sent, delivered>>
  <2>1. FirstLate(n) = {}
    BY WayTypes DEF FirstLate
  <2>. QED
    BY <2>1 DEF ReceiveRoutingResponse, record
<1>2. /\ route_queue[n] # <<>> /\ pdu \in Near(n)
      /\ hop \in Addr \union {Unreachable}
      /\ hop # Unreachable => <<n, hop>> \in Links /\ Data(pdu) \in Nearing(hop)
      /\ pdu.id \in WellRouted => hop # Unreachable
  BY <1>1, AnswerLeads
<1>3. /\ route_queue' = [route_queue EXCEPT ![n] = Tail(@)]
      /\ \/ /\ hop = Unreachable
            /\ UNCHANGED <<arp_queue, frames>>
         \/ /\ hop # Unreachable
            /\ frames' = WithFrame(frames, n, hop, Data(pdu))
            /\ UNCHANGED arp_queue
         \/ /\ hop # Unreachable
            /\ frames' = WithBroadcast(frames, n, ArpRequest(hop))
            /\ arp_queue' = [arp_queue EXCEPT ![n] = Append(@, w)]
  BY <1>1, <1>2 DEF UseResponse, RouteDequeue, ArpEnqueue
<1>4. /\ route_queue \in [Addr -> Seq(QueuedPdu)] /\ NearQueues(route_queue)
      /\ arp_queue \in [Addr -> Seq(QueuedWaiting)] /\ NearWaiters(arp_queue)
      /\ frames \in [Links -> Seq(Frame)] /\ NearingFrames(frames)
      /\ responses \in [Addr -> Seq(Response)] /\ FromVias(responses)
  BY WayTypes
<1>5. /\ NearQueues(route_queue')
      /\ \A p : InRoutes(route_queue, p) => InRoutes(route_queue', p) \/ pdu.id = p
  BY <1>2, <1>3, <1>4, RoutesTail
<1>6. FromVias(responses')
  <2>1. responses[n] \in Seq(FromVia(n))
    BY <1>4 DEF FromVias
  <2>2. Tail(responses[n]) \in Seq(FromVia(n))
    BY <1>1, <2>1, TailType
  <2>. QED
    BY <1>1, <1>4, <2>2 DEF FromVias
<1> HIDE DEF hop, pdu
<1>7. CASE hop = Unreachable /\ UNCHANGED <<arp_queue, frames>>
  <2>1. Guided'
    BY <1>4, <1>5, <1>6, <1>7 DEF Guided
  <2>2. \A p \in WellRouted : p # pdu.id
    BY <1>2, <1>7
  <2>3. \A p \in WellRouted : p \in sent' /\ (p \in sent => Here(p)) => Here(p)'
    BY <1>1, <1>5, <1>7, <2>2 DEF Here, Held
  <2>. QED
    BY <2>1, <2>3 DEF Leading
<1>8. CASE hop # Unreachable /\ frames' = WithFrame(frames, n, hop, Data(pdu))
           /\ UNCHANGED arp_queue
  <2>1. Data(pdu) \in IsFrame(pdu.id)
    BY <1>2, NearFacts, PduFacts
  <2>2. /\ NearingFrames(frames')
        /\ \A p : InFrames(frames, p) \/ p = pdu.id => InFrames(frames', p)
    BY <1>2, <1>4, <1>8, <2>1, FramesSend
  <2>3. Guided'
    BY <1>4, <1>5, <1>6, <1>8, <2>2 DEF Guided
  <2>4. \A p \in WellRouted : p \in sent' /\ (p \in sent => Here(p)) => Here(p)'
    BY <1>1, <1>5, <1>8, <2>2 DEF Here, Held
  <2>. QED
    BY <2>3, <2>4 DEF Leading
<1>9. CASE hop # Unreachable /\ frames' = WithBroadcast(frames, n, ArpRequest(hop))
           /\ arp_queue' = [arp_queue EXCEPT ![n] = Append(@, w)]
  <2>1. hop \in Addr
    BY <1>2, <1>9
  <2>2. /\ NearingFrames(frames')
        /\ \A p : InFrames(frames, p) => InFrames(frames', p)
    BY <1>4, <1>9, <2>1, NearFacts, FramesBroadcast
  <2>3. w \in NearWaiting(n) /\ w.pdu = pdu
    BY <1>2, <2>1 DEF Near, NearWaiting, QueuedWaiting
  <2> HIDE DEF w
  <2>4. /\ NearWaiters(arp_queue')
        /\ \A p : InArps(arp_queue, p) => InArps(arp_queue', p)
        /\ InArps(arp_queue', pdu.id)
    BY <1>4, <1>9, <2>3, ArpsAppend
  <2>5. Guided'
    BY <1>5, <1>6, <2>2, <2>4 DEF Guided
  <2>6. \A p \in WellRouted : p \in sent' /\ (p \in sent => Here(p)) => Here(p)'
    BY <1>1, <1>5, <2>2, <2>4 DEF Here, Held
  <2>. QED
    BY <2>5, <2>6 DEF Leading
<1>. QED
  BY <1>3, <1>7, <1>8, <1>9

LEMMA HandleArpRequestWay ==
    ASSUME OnTheWay, NEW n \in Addr, NEW s \in Addr, HandleArpRequest(n, s)
    PROVE  Leading
<1> DEFINE f == Head(frames[<<s, n>>])
<1>1. /\ <<s, n>> \in Links /\ frames[<<s, n>>] # <<>> /\ f.kind = "request"
      /\ UNCHANGED <<route_queue, arp_queue, responses, sent, delivered>>
      /\ \/ frames' = WithFrame(TakeFrame(n, s), n, s, ArpResponse(n))
         \/ frames' = TakeFrame(n, s)
  BY DEF HandleArpRequest, Receives, sockets, record
<1> HIDE DEF f
<1>2. /\ NearingFrames(TakeFrame(n, s)) /\ TakeFrame(n, s) \in [Links -> Seq(Frame)]
      /\ \A p : InFrames(frames, p) => InFrames(TakeFrame(n, s), p)
  <2>1. \A p : f \notin IsFrame(p)
    BY <1>1 DEF IsFrame
  <2>. QED
    BY <1>1, <2>1, WayTypes, FramesTake, TakeFrameType DEF f
<1>3. <<n, s>> \in Links /\ ArpResponse(n) \in Nearing(s)
  BY <1>1, NetworkAssumption, NearFacts
<1>4. /\ NearingFrames(frames')
      /\ \A p : InFrames(frames, p) => InFrames(frames', p)
  BY <1>1, <1>2, <1>3, FramesSend
<1>5. Guided'
  BY <1>1, <1>4 DEF OnTheWay, Guided
<1>6. \A p \in WellRouted : p \in sent' /\ (p \in sent => Here(p)) => Here(p)'
  BY <1>1, <1>4 DEF Here, Held
<1>. QED
  BY <1>5, <1>6 DEF Leading

\* The packet that a response releases asks for its route again.
LEMMA CheckArpQueueWay ==
    ASSUME OnTheWay, NEW n \in Addr, NEW hop, CheckArpQueue(n, hop)
    PROVE  /\ NearQueues(route_queue') /\ NearWaiters(arp_queue')
           /\ \A p : InRoutes(route_queue, p) \/ InArps(arp_queue, p)
                         => InRoutes(route_queue', p) \/ InArps(arp_queue', p)
<1> DEFINE waits == WaitsFor(arp_queue[n], hop)
           first == Min(waits)
<1>1. /\ route_queue \in [Addr -> Seq(QueuedPdu)] /\ NearQueues(route_queue)
      /\ arp_queue \in [Addr -> Seq(QueuedWaiting)] /\ NearWaiters(arp_queue)
  BY WayTypes
<1>2. CASE waits = {}
  <2>1. UNCHANGED <<arp_queue, route_queue>>
    BY <1>2 DEF CheckArpQueue
  <2>. QED
    BY <1>1, <2>1
<1>3. CASE waits # {}
  <2>1. arp_queue[n] \in Seq(QueuedWaiting)
    BY <1>1
  <2>2. first \in 1..Len(arp_queue[n])
    <3>1. first \in waits
      BY <1>3, <2>1, FirstWaiting
    <3>. QED
      BY <2>1, <3>1 DEF WaitsFor
  <2>3. /\ arp_queue' = [arp_queue EXCEPT ![n] = RemoveAt(@, first)]
        /\ SendMipPacket(n, arp_queue[n][first].pdu)
    BY <1>3 DEF CheckArpQueue, ArpDequeue
  <2> HIDE DEF first, waits
  <2>4. /\ NearWaiters(arp_queue') /\ arp_queue[n][first] \in NearWaiting(n)
        /\ \A p : InArps(arp_queue, p)
                      => InArps(arp_queue', p) \/ arp_queue[n][first].pdu.id = p
    BY <1>1, <2>2, <2>3, ArpsRemove
  <2>5. arp_queue[n][first].pdu \in Near(n)
    BY <2>4 DEF NearWaiting
  <2>6. /\ NearQueues(route_queue')
        /\ \A p : InRoutes(route_queue, p) => InRoutes(route_queue', p)
        /\ InRoutes(route_queue', arp_queue[n][first].pdu.id)
    BY <2>3, <2>5, SendWay
  <2>. QED
    BY <2>4, <2>6
<1>. QED
  BY <1>2, <1>3

LEMMA HandleArpResponseWay ==
    ASSUME OnTheWay, NEW n \in Addr, NEW s \in Addr, HandleArpResponse(n, s)
    PROVE  Leading
<1> DEFINE f == Head(frames[<<s, n>>])
<1>1. /\ <<s, n>> \in Links /\ frames[<<s, n>>] # <<>> /\ f.kind = "response"
      /\ frames' = TakeFrame(n, s)
      /\ CheckArpQueue(n, f.addr)
      /\ UNCHANGED <<responses, sent, delivered>>
  BY DEF HandleArpResponse, Receives, record
<1> HIDE DEF f
<1>2. /\ NearingFrames(frames')
      /\ \A p : InFrames(frames, p) => InFrames(frames', p)
  <2>1. \A p : f \notin IsFrame(p)
    BY <1>1 DEF IsFrame
  <2>. QED
    BY <1>1, <2>1, WayTypes, FramesTake DEF f
<1>3. /\ NearQueues(route_queue') /\ NearWaiters(arp_queue')
      /\ \A p : InRoutes(route_queue, p) \/ InArps(arp_queue, p)
                    => InRoutes(route_queue', p) \/ InArps(arp_queue', p)
  BY <1>1, CheckArpQueueWay
<1>4. Guided'
  BY <1>1, <1>2, <1>3 DEF OnTheWay, Guided
<1>5. \A p \in WellRouted : p \in sent' /\ (p \in sent => Here(p)) => Here(p)'
  BY <1>1, <1>2, <1>3 DEF Here, Held
<1>. QED
  BY <1>4, <1>5 DEF Leading

\* A decrement takes one from a time to live that is not zero.
LEMMA DecrementNear ==
    ASSUME NEW ttl \in 0..MaxTtl, NEW r \in Nat, r >= 1, r < ttl
    PROVE  DecrementTtl(ttl) # 0 /\ r <= DecrementTtl(ttl)
<1>1. ttl - 1 \in 0..MaxTtl /\ MaxTtl \in Nat
  BY PacketAssumption
<1>2. (ttl - 1) % (MaxTtl + 1) = ttl - 1
  BY <1>1
<1>. QED
  BY <1>2 DEF DecrementTtl

LEMMA ForwardMipPduWay ==
    ASSUME OnTheWay, NEW n \in Addr, NEW s \in Addr, ForwardMipPdu(n, s)
    PROVE  Leading
<1> DEFINE f == Head(frames[<<s, n>>])
           pdu == f.pdu
           p == pdu.id
           next == [pdu EXCEPT !.ttl = DecrementTtl(@)]
<1>1. /\ <<s, n>> \in Links /\ frames[<<s, n>>] # <<>> /\ f.kind = "data"
      /\ frames' = TakeFrame(n, s)
      /\ UNCHANGED <<sent, arp_queue, responses>>
  BY DEF ForwardMipPdu, Receives
<1>2. \/ /\ Dst[p] \in {n, Broadcast}
         /\ delivered' = [delivered EXCEPT ![p] = Append(@, n)]
         /\ UNCHANGED route_queue
      \/ /\ Dst[p] \notin {n, Broadcast} /\ DecrementTtl(pdu.ttl) = 0
         /\ UNCHANGED <<route_queue, delivered>>
      \/ /\ Dst[p] \notin {n, Broadcast}
         /\ SendMipPacket(n, next)
         /\ UNCHANGED delivered
  BY DEF ForwardMipPdu
<1>3. /\ NearingFrames(frames') /\ f \in Nearing(n) /\ f \in Frame
      /\ \A q : InFrames(frames, q) => InFrames(frames', q) \/ f \in IsFrame(q)
  BY <1>1, WayTypes, FramesTake, TakeFrameType
<1>4. \A q : f \in IsFrame(q) => p = q
  BY DEF IsFrame
<1>5. pdu \in Pdu /\ p \in Packet /\ pdu.ttl \in 0..MaxTtl
  BY <1>1, <1>3, FrameFacts, PduFacts
<1>6. next = [id |-> p, ttl |-> DecrementTtl(pdu.ttl)]
  BY <1>5 DEF Pdu
<1>7. p \in WellRouted => Rank(p)[n] < pdu.ttl
  BY <1>1, <1>3 DEF Nearing
<1>8. DecrementTtl(pdu.ttl) \in 0..MaxTtl
  BY <1>5, DecrementRange
<1> HIDE DEF f, pdu, p, next
<1>9. delivered \in [Packet -> Seq(Addr)]
  BY WayTypes
<1>10. ASSUME p \in WellRouted, n # Dst[p]
       PROVE  /\ DecrementTtl(pdu.ttl) # 0
              /\ Rank(p)[n] <= DecrementTtl(pdu.ttl)
  <2>1. Rank(p)[n] \in 0..(MaxTtl + 1)
    BY <1>10, RankFacts
  <2>2. Rank(p)[n] \in Nat /\ Rank(p)[n] >= 1
    BY <1>10, <2>1, RankFacts, PacketAssumption
  <2>. QED
    BY <1>5, <1>7, <1>10, <2>2, DecrementNear
<1>11. Guided /\ NearQueues(route_queue)
  BY DEF OnTheWay, Guided
<1>12. CASE /\ Dst[p] \in {n, Broadcast}
            /\ delivered' = [delivered EXCEPT ![p] = Append(@, n)]
            /\ UNCHANGED route_queue
  <2>1. Guided'
    BY <1>1, <1>3, <1>11, <1>12 DEF Guided
  <2>2. \A q \in Packet : q # p => delivered'[q] = delivered[q]
    BY <1>9, <1>12
  <2>3. delivered'[p] # <<>>
    <3>1. delivered'[p] = Append(delivered[p], n) /\ delivered[p] \in Seq(Addr)
      BY <1>5, <1>9, <1>12
    <3>. QED
      BY <3>1, AppendFacts
  <2>4. ASSUME NEW q \in WellRouted, q \in sent', q \in sent => Here(q)
        PROVE  Here(q)'
    <3>1. q \in Packet /\ Here(q)
      BY <1>1, <2>4, RankFacts
    <3>2. CASE q = p
      BY <2>3, <3>2 DEF Here
    <3>3. CASE q # p
      <4>1. InFrames(frames, q) => InFrames(frames', q)
        BY <1>3, <1>4, <3>3
      <4>. QED
        BY <1>1, <1>12, <2>2, <3>1, <3>3, <4>1 DEF Here, Held
    <3>. QED
      BY <3>2, <3>3
  <2>. QED
    BY <2>1, <2>4 DEF Leading
<1>13. CASE /\ Dst[p] \notin {n, Broadcast} /\ DecrementTtl(pdu.ttl) = 0
            /\ UNCHANGED <<route_queue, delivered>>
  <2>1. Guided'
    BY <1>1, <1>3, <1>11, <1>13 DEF Guided
  <2>2. \A q \in WellRouted : q # p
    BY <1>10, <1>13
  <2>3. \A q \in WellRouted : q \in sent' /\ (q \in sent => Here(q)) => Here(q)'
    BY <1>1, <1>3, <1>4, <1>13, <2>2 DEF Here, Held
  <2>. QED
    BY <2>1, <2>3 DEF Leading
<1>14. CASE /\ Dst[p] \notin {n, Broadcast}
            /\ SendMipPacket(n, next)
            /\ UNCHANGED delivered
  <2>1. next \in Near(n) /\ next.id = p
    <3>1. p \in ToOneNode
      BY <1>5, <1>14 DEF ToOneNode
    <3>2. next \in QueuedPdu /\ next.id = p /\ next.ttl = DecrementTtl(pdu.ttl)
      BY <1>6, <1>8, <3>1 DEF QueuedPdu
    <3>. QED
      BY <1>10, <1>14, <3>2 DEF Near
  <2>2. /\ NearQueues(route_queue')
        /\ \A q : InRoutes(route_queue, q) => InRoutes(route_queue', q)
        /\ InRoutes(route_queue', p)
    BY <1>14, <2>1, SendWay
  <2>3. Guided'
    BY <1>1, <1>3, <1>11, <2>2 DEF Guided
  <2>4. \A q \in WellRouted : q \in sent' /\ (q \in sent => Here(q)) => Here(q)'
    BY <1>1, <1>3, <1>4, <1>14, <2>2 DEF Here, Held
  <2>. QED
    BY <2>3, <2>4 DEF Leading
<1>. QED
  BY <1>2, <1>12, <1>13, <1>14

LEMMA AnswerWay ==
    ASSUME OnTheWay, NEW n \in Addr, Answer(n)
    PROVE  Leading
<1>1. /\ requests[n] # <<>>
      /\ UNCHANGED <<route_queue, arp_queue, frames, sent, delivered>>
  BY DEF Answer, queues, record
<1>2. PICK hop \in Via[n][Head(requests[n])] :
        responses' = [responses EXCEPT
            ![n] = Append(@, [next_hop |-> hop, of |-> Head(requests[n])])]
  BY DEF Answer
<1> DEFINE a == [next_hop |-> hop, of |-> Head(requests[n])]
<1>3. responses \in [Addr -> Seq(Response)] /\ FromVias(responses)
      /\ requests[n] \in Seq(Addr)
  BY WayTypes
<1>4. a \in FromVia(n)
  <2>1. Head(requests[n]) \in Addr
    BY <1>1, <1>3, HeadTail
  <2>2. hop \in Addr \union {Unreachable}
    BY <1>2, <2>1, ViaAssumption DEF Neighbours
  <2>. QED
    BY <1>2, <2>1, <2>2 DEF FromVia, Response
<1>5. responses' = [responses EXCEPT ![n] = Append(responses[n], a)]
  BY <1>2
<1> HIDE DEF a
<1>6. FromVias(responses')
  <2>1. Append(responses[n], a) \in Seq(FromVia(n))
    BY <1>3, <1>4 DEF FromVias
  <2>. QED
    BY <1>3, <1>5, <2>1 DEF FromVias
<1>7. Guided'
  BY <1>1, <1>6 DEF OnTheWay, Guided
<1>8. \A p \in WellRouted : p \in sent' /\ (p \in sent => Here(p)) => Here(p)'
  BY <1>1 DEF Here, Held
<1>. QED
  BY <1>7, <1>8 DEF Leading

LEMMA QuietWay ==
    ASSUME OnTheWay,
           UNCHANGED <<route_queue, arp_queue, frames, responses, sent, delivered>>
    PROVE  Leading
<1>. QED
  BY DEF OnTheWay, Leading, Guided, Here, Held

\* A lost frame makes one packet disappear at most.
LEMMA LoseFrameWay ==
    ASSUME OnTheWay, NEW n \in Addr, NEW s \in Addr, LoseFrame(n, s)
    PROVE  /\ Guided'
           /\ \E lost : \A p \in WellRouted \ {lost} :
                  p \in sent' /\ (p \in sent => Here(p)) => Here(p)'
<1> DEFINE f == Head(frames[<<s, n>>])
<1>1. /\ <<s, n>> \in Links /\ frames[<<s, n>>] # <<>>
      /\ frames' = TakeFrame(n, s)
      /\ UNCHANGED <<route_queue, arp_queue, responses, sent, delivered>>
  BY DEF LoseFrame, queues, sockets, record
<1>2. /\ NearingFrames(frames')
      /\ \A p : InFrames(frames, p) => InFrames(frames', p) \/ f \in IsFrame(p)
  BY <1>1, WayTypes, FramesTake
<1> HIDE DEF f
<1>3. \A p : f \in IsFrame(p) => p = f.pdu.id
  BY DEF IsFrame
<1>4. Guided'
  BY <1>1, <1>2 DEF OnTheWay, Guided
<1>5. \A p \in WellRouted \ {f.pdu.id} :
          p \in sent' /\ (p \in sent => Here(p)) => Here(p)'
  BY <1>1, <1>2, <1>3 DEF Here, Held
<1>. QED
  BY <1>4, <1>5
---------------------------------------------------------------------------
(* Counting the packets that are gone.                                     *)

LEMMA WayStep ==
    ASSUME TypeInv, TypeInv', PairInv, WayInv, [Next]_vars
    PROVE  WayInv'
<1>1. losses \in Nat /\ losses' \in Nat /\ exits \in [Addr -> Nat]
  BY DEF TypeInv, RecordTypes
<1>2. CASE ~NoneHasExited'
  BY <1>2 DEF WayInv
<1>3. ASSUME NoneHasExited', exits' = exits, losses' >= losses, OnTheWay => Leading
      PROVE  WayInv'
  <2>1. OnTheWay /\ IsFiniteSet(Strays) /\ Cardinality(Strays) <= losses
    BY <1>3 DEF WayInv, OnTheWay, NoneHasExited
  <2>2. Guided' /\ Strays' \subseteq Strays
    BY <1>3, <2>1 DEF Leading, Strays
  <2>3. IsFiniteSet(Strays') /\ Cardinality(Strays') <= Cardinality(Strays)
    BY <2>1, <2>2, FS_Subset
  <2>4. Cardinality(Strays') \in Nat /\ Cardinality(Strays) \in Nat
    BY <2>1, <2>3, FS_CardinalityType
  <2>5. Cardinality(Strays') <= losses'
    BY <1>1, <1>3, <2>1, <2>3, <2>4
  <2>. QED
    BY <2>2, <2>3, <2>5 DEF WayInv
<1>4. ASSUME UNCHANGED vars, NoneHasExited' PROVE WayInv'
  <2>1. OnTheWay => Leading
    BY <1>4, QuietWay DEF vars
  <2>. QED
    BY <1>1, <1>3, <1>4, <2>1 DEF vars
<1>5. ASSUME NEW n \in Addr, NEW p \in Packet, HandleUsdEvent(n, p), NoneHasExited'
      PROVE  WayInv'
  <2>1. exits' = exits /\ losses' = losses
    BY <1>5 DEF HandleUsdEvent, faults
  <2>. QED
    BY <1>1, <1>3, <1>5, <2>1, HandleUsdEventWay
<1>6. ASSUME NEW n \in Addr, ReceiveRoutingResponse(n), NoneHasExited'
      PROVE  WayInv'
  <2>1. exits' = exits /\ losses' = losses
    BY <1>6 DEF ReceiveRoutingResponse, faults
  <2>. QED
    BY <1>1, <1>3, <1>6, <2>1, ReceiveRoutingResponseWay
<1>7. ASSUME NEW n \in Addr, NEW s \in Addr, HandleRsdEvent(n, s), NoneHasExited'
      PROVE  WayInv'
  <2>1. exits' = exits /\ losses' = losses
    BY <1>7 DEF HandleRsdEvent, HandleArpRequest, HandleArpResponse, ForwardMipPdu, faults
  <2>2. OnTheWay => Leading
    BY <1>7, HandleArpRequestWay, HandleArpResponseWay, ForwardMipPduWay
       DEF HandleRsdEvent
  <2>. QED
    BY <1>1, <1>3, <1>7, <2>1, <2>2
<1>8. ASSUME NEW n \in Addr, Answer(n), NoneHasExited'
      PROVE  WayInv'
  <2>1. exits' = exits /\ losses' = losses
    BY <1>8 DEF Answer, faults
  <2>. QED
    BY <1>1, <1>3, <1>8, <2>1, AnswerWay
<1>9. ASSUME NEW n \in Addr, RoutingdExit(n), NoneHasExited'
      PROVE  WayInv'
  <2>1. exits'[n] = exits[n] + 1 /\ exits[n] \in Nat
    BY <1>1, <1>9 DEF RoutingdExit
  <2>2. exits'[n] # 0
    BY <2>1
  <2>. QED
    BY <1>9, <2>2 DEF NoneHasExited
<1>10. ASSUME NEW n \in Addr, NoneHasExited',
              RoutingdConnect(n) \/ DescriptorReused(n) \/ ClientLeaves(n)
       PROVE  WayInv'
  <2>1. exits' = exits /\ losses' = losses
        /\ UNCHANGED <<route_queue, arp_queue, frames, responses, sent, delivered>>
    BY <1>10 DEF RoutingdConnect, DescriptorReused, ClientLeaves, faults, queues, record
  <2>. QED
    BY <1>1, <1>3, <1>10, <2>1, QuietWay
<1>11. ASSUME NEW n \in Addr, NEW s \in Addr, LoseFrame(n, s), NoneHasExited'
       PROVE  WayInv'
  <2>1. exits' = exits /\ losses' = losses + 1
    BY <1>11 DEF LoseFrame
  <2>2. OnTheWay /\ IsFiniteSet(Strays) /\ Cardinality(Strays) <= losses
    BY <1>11, <2>1 DEF WayInv, OnTheWay, NoneHasExited
  <2>3. PICK lost : \A p \in WellRouted \ {lost} :
                        p \in sent' /\ (p \in sent => Here(p)) => Here(p)'
    BY <1>11, <2>2, LoseFrameWay
  <2>4. Strays' \subseteq Strays \union {lost}
    BY <2>3 DEF Strays
  <2>5. IsFiniteSet(Strays \union {lost})
        /\ Cardinality(Strays \union {lost}) <= Cardinality(Strays) + 1
    <3>1. CASE lost \in Strays
      <4>1. Strays \union {lost} = Strays
        BY <3>1
      <4>2. Cardinality(Strays) \in Nat
        BY <2>2, FS_CardinalityType
      <4>3. Cardinality(Strays) <= Cardinality(Strays) + 1
        BY <4>2
      <4>. QED
        BY <2>2, <4>1, <4>3
    <3>2. CASE lost \notin Strays
      <4>1. IsFiniteSet(Strays \union {lost})
            /\ Cardinality(Strays \union {lost}) = Cardinality(Strays) + 1
            /\ Cardinality(Strays) \in Nat
        BY <2>2, <3>2, FS_AddElement, FS_CardinalityType
      <4>. QED
        BY <4>1
    <3>. QED
      BY <3>1, <3>2
  <2>6. IsFiniteSet(Strays') /\ Cardinality(Strays') <= Cardinality(Strays \union {lost})
    BY <2>4, <2>5, FS_Subset
  <2>7. /\ Cardinality(Strays') \in Nat /\ Cardinality(Strays) \in Nat
        /\ Cardinality(Strays \union {lost}) \in Nat
    BY <2>2, <2>5, <2>6, FS_CardinalityType
  <2>8. Cardinality(Strays') <= losses'
    BY <1>1, <2>1, <2>2, <2>5, <2>6, <2>7
  <2>9. Guided'
    BY <1>11, <2>2, LoseFrameWay
  <2>. QED
    BY <2>6, <2>8, <2>9 DEF WayInv
<1>12. ASSUME Next, NoneHasExited' PROVE WayInv'
  BY <1>5, <1>6, <1>7, <1>8, <1>9, <1>10, <1>11, <1>12 DEF Next
<1>. QED
  BY <1>2, <1>4, <1>12

LEMMA InitWay == Init => WayInv
<1> SUFFICES ASSUME Init PROVE WayInv
  OBVIOUS
<1>1. \A S : <<>> \in Seq(S)
  OBVIOUS
<1>2. Guided
  BY <1>1 DEF Init, Guided, NearQueues, NearWaiters, NearingFrames, FromVias
<1>3. Strays = {}
  BY DEF Init, Strays
<1>4. losses = 0 /\ IsFiniteSet({}) /\ Cardinality({}) = 0 /\ 0 <= 0
  BY FS_EmptySet DEF Init
<1>. QED
  BY <1>2, <1>3, <1>4 DEF WayInv

LEMMA HeldByHolders ==
    ASSUME TypeInv, NEW p \in ToOneNode, Held(p) PROVE Holders(p) # {}
<1>1. /\ route_queue \in [Addr -> Seq(QueuedPdu)]
      /\ arp_queue \in [Addr -> Seq(QueuedWaiting)]
      /\ frames \in [Links -> Seq(Frame)]
  BY DEF TypeInv, QueueTypes, FrameTypes
<1>2. CASE InRoutes(route_queue, p)
  <2>1. PICK n \in Addr : \E i \in 1..Len(route_queue[n]) : route_queue[n][i].id = p
    BY <1>2 DEF InRoutes, Carries, IsPdu
  <2>2. 1..Len(route_queue[n]) = DOMAIN route_queue[n]
    BY <1>1
  <2>. QED
    BY <2>1, <2>2 DEF Holders
<1>3. CASE InArps(arp_queue, p)
  <2>1. PICK n \in Addr : \E i \in 1..Len(arp_queue[n]) : arp_queue[n][i].pdu.id = p
    BY <1>3 DEF InArps, Carries, IsWaiting
  <2>2. 1..Len(arp_queue[n]) = DOMAIN arp_queue[n]
    BY <1>1
  <2>. QED
    BY <2>1, <2>2 DEF Holders
<1>4. CASE InFrames(frames, p)
  <2>1. PICK c \in Links : \E i \in 1..Len(frames[c]) :
            frames[c][i].kind = "data" /\ frames[c][i].pdu.id = p
    BY <1>4 DEF InFrames, Carries, IsFrame
  <2>2. 1..Len(frames[c]) = DOMAIN frames[c] /\ c[1] \in Addr
    BY <1>1, NetworkAssumption
  <2>. QED
    BY <2>1, <2>2 DEF Holders
<1>. QED
  BY <1>2, <1>3, <1>4 DEF Held

LEMMA AlwaysWay == Spec => [](TypeInv /\ PairInv /\ WayInv)
<1>1. Init => TypeInv /\ PairInv /\ WayInv
  BY InitTypes, InitInStep, InitWay
<1>2. TypeInv /\ PairInv /\ WayInv /\ [Next]_vars => (TypeInv /\ PairInv /\ WayInv)'
  <2> SUFFICES ASSUME TypeInv, PairInv, WayInv, [Next]_vars
               PROVE  TypeInv' /\ PairInv' /\ WayInv'
    OBVIOUS
  <2>1. TypeInv' /\ PairInv'
    BY Step DEF Keeps
  <2>. QED
    BY <2>1, WayStep
<1>. QED
  BY <1>1, <1>2, PTL DEF Spec

\* Until a routing daemon exits, as many packets whose way is sure disappear
\* as frames are lost, and no more: neither the queues nor ARP nor the routes
\* of others cost one (send_mip_packet, receive_routing_response,
\* check_arp_queue, forward_mip_pdu).
THEOREM LossesAreOfFrames == Spec => []LossPerFrame
<1>1. TypeInv /\ WayInv => LossPerFrame
  <2> SUFFICES ASSUME TypeInv, WayInv, NoneHasExited
               PROVE  Cardinality({p \in WellRouted : Gone(p)}) <= losses
    BY DEF LossPerFrame
  <2>1. IsFiniteSet(Strays) /\ Cardinality(Strays) <= losses /\ losses \in Nat
    BY DEF WayInv, TypeInv, RecordTypes
  <2>2. {p \in WellRouted : Gone(p)} \subseteq Strays
    <3> SUFFICES ASSUME NEW p \in WellRouted, Gone(p) PROVE p \in Strays
      OBVIOUS
    <3>1. p \in ToOneNode
      BY RankFacts
    <3>. QED
      BY <3>1, HeldByHolders DEF Gone, Strays, Here
  <2>3. /\ IsFiniteSet({p \in WellRouted : Gone(p)})
        /\ Cardinality({p \in WellRouted : Gone(p)}) <= Cardinality(Strays)
    BY <2>1, <2>2, FS_Subset
  <2>4. /\ Cardinality({p \in WellRouted : Gone(p)}) \in Nat
        /\ Cardinality(Strays) \in Nat
    BY <2>1, <2>3, FS_CardinalityType
  <2>. QED
    BY <2>1, <2>3, <2>4
<1>. QED
  BY <1>1, AlwaysWay, PTL
=============================================================================

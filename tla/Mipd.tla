-------------------------------- MODULE Mipd --------------------------------
(***************************************************************************)
(* The MIP daemons (mipd) of a network: how a packet is accepted from a    *)
(* client, routed, resolved, forwarded and delivered.                      *)
(*                                                                         *)
(* A packet waits twice at every node that sends it.  First in the route   *)
(* queue, until the routing daemon answers a request that names only its   *)
(* destination; the answer names only a next hop, and is taken for the     *)
(* packet at the front.  Then, if the next hop is not in the ARP cache, in *)
(* the ARP queue, until that next hop answers an ARP request; the packet   *)
(* then asks for its route once more, behind the packets that came later.  *)
(*                                                                         *)
(* A daemon is single threaded, and each of its event handlers is one      *)
(* action.  The cables are point to point and keep the order of frames.    *)
(* The routing daemon is external here: it answers a request with any next *)
(* hop in Via, and may exit and be followed by another one; in between its *)
(* descriptor may come to lead to another client.  Routingd.tla models the *)
(* routing daemons, Upper.tla the descriptors.                             *)
(***************************************************************************)
EXTENDS Integers, Sequences, FiniteSets, SequencesExt, FiniteSetsExt

CONSTANTS
    Addr,        \* MIP addresses of the nodes
    Links,       \* the cables: a symmetric set of pairs of addresses
    Packet,      \* the packets that clients send, each once
    Src, Dst,    \* where a packet is sent, and to whom: Dst may be Broadcast
    Asked,       \* the time to live that the client asks for
    Via,         \* Via[n][d]: the next hops the routing daemon of n may answer
    MaxTtl,      \* MIP_MAX_TTL, 15 in the code: the width of the ttl field
    CacheSize,   \* entries of the ARP cache, 256 in the code
    MaxLosses,   \* bound on the frames that are lost
    MaxExits     \* MaxExits[n]: bound on the exits of routing daemons of n

Broadcast == 255       \* MIP_BROADCAST_ADDR
Unreachable == 255     \* a routing daemon's answer when it has no route

Neighbours(n) == {m \in Addr : <<n, m>> \in Links}

ASSUME NetworkAssumption ==
    /\ Addr \subseteq Nat \ {Broadcast}
    /\ Links \subseteq Addr \X Addr
    /\ \A n, m \in Addr : <<n, m>> \in Links => <<m, n>> \in Links /\ n # m
ASSUME PacketAssumption ==
    /\ Src \in [Packet -> Addr]
    /\ Dst \in [Packet -> Addr \union {Broadcast}]
    /\ Asked \in [Packet -> 0..255]
    /\ MaxTtl \in Nat \ {0}
\* Routingd keeps no route to its own node, and only neighbours as next hops.
ASSUME ViaAssumption ==
    /\ DOMAIN Via = Addr
    /\ \A n \in Addr :
        /\ DOMAIN Via[n] = Addr
        /\ Via[n][n] = {Unreachable}
        /\ \A d \in Addr : /\ Via[n][d] # {}
                           /\ Via[n][d] \subseteq Neighbours(n) \union {Unreachable}
ASSUME BoundsAssumption ==
    /\ CacheSize \in Nat /\ Cardinality(Addr) <= CacheSize
    /\ MaxLosses \in Nat /\ MaxExits \in [Addr -> Nat]

VARIABLES
    sent,         \* packets that a client has handed to its daemon
    route_queue,  \* route_queue[n]: packets that wait for a route, in order
    arp_queue,    \* arp_queue[n]: packets that wait for an ARP response
    arp_cache,    \* arp_cache[n]: the resolved neighbours, as they were added
    requests,     \* requests[n]: destinations asked of the routing daemon
    responses,    \* responses[n]: its answers that mipd has not read yet
    late,         \* late[n]: unread answers of daemons that have exited
    routing_usd,  \* routing_usd[n]: what that descriptor of mipd leads to
    frames,       \* frames[<<s, n>>]: what is on the cable from s to n
    hops,         \* hops[p]: the cables p has crossed (not in the code)
    delivered,    \* delivered[p]: the nodes that handed p to a client
    losses,       \* number of frames lost so far
    exits         \* exits[n]: number of times a routing daemon of n has exited

queues == <<route_queue, arp_queue, arp_cache>>
sockets == <<requests, responses, late, routing_usd>>
record == <<sent, hops, delivered>>
faults == <<losses, exits>>

vars == <<sent, route_queue, arp_queue, arp_cache, requests, responses, late,
          routing_usd, frames, hops, delivered, losses, exits>>

Pdu == [id : Packet, ttl : 0..MaxTtl]
Waiting == [next_hop : Addr, pdu : Pdu]

\* The answer's destination is not in the code's message: it records which
\* request the answer was for.
Response == [next_hop : Addr \union {Unreachable}, of : Addr]

\* An answer of a daemon that was the by-th of its node to exit.  Each has its
\* own descriptor, which mipd reads to its end.
LateResponse == [next_hop : Addr \union {Unreachable}, of : Addr, by : Nat]

DataFrame == [kind : {"data"}, pdu : Pdu]
ArpFrame == [kind : {"request", "response"}, addr : Addr]
Frame == DataFrame \union ArpFrame

TypeOK ==
    /\ sent \in SUBSET Packet
    /\ route_queue \in [Addr -> Seq(Pdu)]
    /\ arp_queue \in [Addr -> Seq(Waiting)]
    /\ arp_cache \in [Addr -> Seq(Addr)]
    /\ \A n \in Addr : Len(arp_cache[n]) <= CacheSize
    /\ requests \in [Addr -> Seq(Addr)]
    /\ responses \in [Addr -> Seq(Response)]
    /\ late \in [Addr -> Seq(LateResponse)]
    /\ routing_usd \in [Addr -> {"routingd", "client", "closed"}]
    /\ frames \in [Links -> Seq(Frame)]
    /\ hops \in [Packet -> Nat]
    /\ delivered \in [Packet -> Seq(Addr)]
    /\ losses \in 0..MaxLosses
    /\ exits \in [Addr -> Nat] /\ \A n \in Addr : exits[n] <= MaxExits[n]

Init ==
    /\ sent = {}
    /\ route_queue = [n \in Addr |-> <<>>]
    /\ arp_queue = [n \in Addr |-> <<>>]
    /\ arp_cache = [n \in Addr |-> <<>>]
    /\ requests = [n \in Addr |-> <<>>]
    /\ responses = [n \in Addr |-> <<>>]
    /\ late = [n \in Addr |-> <<>>]
    /\ routing_usd = [n \in Addr |-> "routingd"]
    /\ frames = [c \in Links |-> <<>>]
    /\ hops = [p \in Packet |-> 0]
    /\ delivered = [p \in Packet |-> <<>>]
    /\ losses = 0 /\ exits = [n \in Addr |-> 0]
---------------------------------------------------------------------------
(* Sending.                                                                *)

\* The ttl field has four bits.  Zero from a client stands for the maximum.
AskedTtl(p) == IF Asked[p] = 0 THEN MaxTtl ELSE Asked[p] % (MaxTtl + 1)
\* Fault: the counter has no width.
DecrementUnbounded(ttl) == ttl - 1
DecrementTtl(ttl) == (ttl - 1) % (MaxTtl + 1)

Data(pdu) == [kind |-> "data", pdu |-> pdu]
ArpRequest(addr) == [kind |-> "request", addr |-> addr]
ArpResponse(addr) == [kind |-> "response", addr |-> addr]

\* The cables with one frame more on that from n to m, or on every one of n.
WithFrame(cables, n, m, frame) == [cables EXCEPT ![<<n, m>>] = Append(@, frame)]
WithBroadcast(cables, n, frame) ==
    [c \in Links |-> IF c[1] = n THEN Append(cables[c], frame) ELSE cables[c]]

SendRoutingRequest(n, d) == requests' = [requests EXCEPT ![n] = Append(@, d)]

\* Fault: the packet is put in front of those whose requests were sent before.
RouteEnqueueFirst(n, pdu) == route_queue' = [route_queue EXCEPT ![n] = <<pdu>> \o @]
RouteEnqueue(n, pdu) == route_queue' = [route_queue EXCEPT ![n] = Append(@, pdu)]
RouteDequeue(n) == route_queue' = [route_queue EXCEPT ![n] = Tail(@)]

\* Fault: the packet is queued though the request cannot be sent.
SendMipPacketUnasked(n, pdu) ==
    /\ RouteEnqueue(n, pdu)
    /\ IF routing_usd[n] = "routingd"
       THEN SendRoutingRequest(n, Dst[pdu.id])
       ELSE UNCHANGED requests

\* send_mip_packet to one node: ask for the route, then queue the packet.  A
\* client that has been given the descriptor is sent the request as well, and
\* does not answer it; the packet is dropped when nobody can be sent it.
SendMipPacket(n, pdu) ==
    \/ /\ routing_usd[n] = "routingd"
       /\ SendRoutingRequest(n, Dst[pdu.id])
       /\ RouteEnqueue(n, pdu)
    \/ /\ routing_usd[n] = "client"
       /\ RouteEnqueue(n, pdu)
       /\ UNCHANGED requests
    \/ /\ routing_usd[n] = "closed"
       /\ UNCHANGED <<requests, route_queue>>

\* A client of n hands p to its daemon.
HandleUsdEvent(n, p) ==
    /\ Src[p] = n
    /\ p \notin sent
    /\ sent' = sent \union {p}
    /\ LET pdu == [id |-> p, ttl |-> AskedTtl(p)]
       IN  IF Dst[p] = Broadcast
           THEN /\ frames' = WithBroadcast(frames, n, Data(pdu))
                /\ UNCHANGED <<requests, route_queue>>
           ELSE /\ SendMipPacket(n, pdu)
                /\ UNCHANGED frames
    /\ UNCHANGED <<arp_queue, arp_cache, responses, late, routing_usd, hops,
                   delivered, faults>>
---------------------------------------------------------------------------
(* The routing daemon's answers.                                           *)

IsCached(n, hop) == \E i \in DOMAIN arp_cache[n] : arp_cache[n][i] = hop

ArpEnqueue(n, hop, pdu) ==
    arp_queue' = [arp_queue EXCEPT
                     ![n] = Append(@, [next_hop |-> hop, pdu |-> pdu])]

\* An answer is taken for the packet at the front of the route queue; one that
\* finds the queue empty is only logged.
UseResponse(n, hop) ==
    IF route_queue[n] = <<>>
    THEN UNCHANGED <<route_queue, arp_queue, frames>>
    ELSE LET pdu == Head(route_queue[n])
         IN  /\ RouteDequeue(n)
             /\ \/ /\ hop = Unreachable
                   /\ UNCHANGED <<arp_queue, frames>>
                \/ /\ hop # Unreachable
                   /\ IsCached(n, hop)
                   /\ frames' = WithFrame(frames, n, hop, Data(pdu))
                   /\ UNCHANGED arp_queue
                \/ /\ hop # Unreachable
                   /\ ~IsCached(n, hop)
                   /\ frames' = WithBroadcast(frames, n, ArpRequest(hop))
                   /\ ArpEnqueue(n, hop, pdu)

\* The first unread answers of the daemons that have exited, one for each.
FirstLate(n) ==
    {i \in DOMAIN late[n] : \A j \in DOMAIN late[n] :
                                late[n][j].by = late[n][i].by => i <= j}

\* epoll reports every descriptor with an unread answer, in any order.
ReceiveRoutingResponse(n) ==
    /\ UNCHANGED <<arp_cache, requests, routing_usd, record, faults>>
    /\ \/ /\ responses[n] # <<>>
          /\ responses' = [responses EXCEPT ![n] = Tail(@)]
          /\ UseResponse(n, Head(responses[n]).next_hop)
          /\ UNCHANGED late
       \/ \E i \in FirstLate(n) :
          /\ late' = [late EXCEPT ![n] = RemoveAt(@, i)]
          /\ UseResponse(n, late[n][i].next_hop)
          /\ UNCHANGED responses
---------------------------------------------------------------------------
(* Frames from the cables: n handles the first frame that s sent it.       *)

\* Every sender is added again, until the cache is full.
ArpCacheAdd(cache, s) == IF Len(cache) < CacheSize THEN Append(cache, s) ELSE cache

\* The first packet that waits for hop, if there is one.
WaitsFor(queue, hop) == {i \in DOMAIN queue : queue[i].next_hop = hop}
\* Faults: the packet is only looked at; all packets for the hop are removed.
ArpPeek(queue, hop) == queue
ArpDequeueAll(queue, hop) == SelectSeq(queue, LAMBDA w : w.next_hop # hop)
ArpDequeue(queue, hop) == RemoveAt(queue, Min(WaitsFor(queue, hop)))

\* Fault: nobody is released.
CheckNobody(n, hop) == UNCHANGED <<arp_queue, requests, route_queue>>

\* check_arp_queue: one packet that waits for hop asks for its route again.
CheckArpQueue(n, hop) ==
    IF WaitsFor(arp_queue[n], hop) = {}
    THEN UNCHANGED <<arp_queue, requests, route_queue>>
    ELSE /\ arp_queue' = [arp_queue EXCEPT ![n] = ArpDequeue(@, hop)]
         /\ SendMipPacket(n, arp_queue[n][Min(WaitsFor(arp_queue[n], hop))].pdu)

Receives(n, s, kind) ==
    /\ <<s, n>> \in Links
    /\ frames[<<s, n>>] # <<>>
    /\ Head(frames[<<s, n>>]).kind = kind

TakeFrame(n, s) == [frames EXCEPT ![<<s, n>>] = Tail(@)]

\* An ARP request for another node is dropped.
HandleArpRequest(n, s) ==
    /\ Receives(n, s, "request")
    /\ UNCHANGED <<route_queue, arp_queue, sockets, record, faults>>
    /\ IF Head(frames[<<s, n>>]).addr = n
       THEN /\ arp_cache' = [arp_cache EXCEPT ![n] = ArpCacheAdd(@, s)]
            /\ frames' = WithFrame(TakeFrame(n, s), n, s, ArpResponse(n))
       ELSE /\ frames' = TakeFrame(n, s)
            /\ UNCHANGED arp_cache

HandleArpResponse(n, s) ==
    /\ Receives(n, s, "response")
    /\ frames' = TakeFrame(n, s)
    /\ arp_cache' = [arp_cache EXCEPT ![n] = ArpCacheAdd(@, s)]
    /\ CheckArpQueue(n, Head(frames[<<s, n>>]).addr)
    /\ UNCHANGED <<responses, late, routing_usd, record, faults>>

ForwardMipPdu(n, s) ==
    /\ Receives(n, s, "data")
    /\ frames' = TakeFrame(n, s)
    /\ UNCHANGED <<sent, arp_queue, arp_cache, responses, late, routing_usd, faults>>
    /\ LET pdu == Head(frames[<<s, n>>]).pdu
           p == pdu.id
       IN  /\ hops' = [hops EXCEPT ![p] = @ + 1]
           /\ \/ /\ Dst[p] \in {n, Broadcast}
                 /\ delivered' = [delivered EXCEPT ![p] = Append(@, n)]
                 /\ UNCHANGED <<requests, route_queue>>
              \/ /\ Dst[p] \notin {n, Broadcast}
                 /\ DecrementTtl(pdu.ttl) = 0
                 /\ UNCHANGED <<requests, route_queue, delivered>>
              \/ /\ Dst[p] \notin {n, Broadcast}
                 /\ DecrementTtl(pdu.ttl) # 0
                 /\ SendMipPacket(n, [pdu EXCEPT !.ttl = DecrementTtl(@)])
                 /\ UNCHANGED delivered

HandleRsdEvent(n, s) ==
    HandleArpRequest(n, s) \/ HandleArpResponse(n, s) \/ ForwardMipPdu(n, s)
---------------------------------------------------------------------------
(* The routing daemon at the other end of its socket, and the faults.      *)

Answer(n) ==
    /\ requests[n] # <<>>
    /\ requests' = [requests EXCEPT ![n] = Tail(@)]
    /\ \E hop \in Via[n][Head(requests[n])] :
        responses' = [responses EXCEPT
            ![n] = Append(@, [next_hop |-> hop, of |-> Head(requests[n])])]
    /\ UNCHANGED <<queues, late, routing_usd, frames, record, faults>>

\* The requests it has not read are gone; what it answered can still be read.
RoutingdExit(n) ==
    /\ exits[n] < MaxExits[n]
    /\ routing_usd[n] = "routingd"
    /\ routing_usd' = [routing_usd EXCEPT ![n] = "closed"]
    /\ exits' = [exits EXCEPT ![n] = @ + 1]
    /\ requests' = [requests EXCEPT ![n] = <<>>]
    /\ responses' = [responses EXCEPT ![n] = <<>>]
    /\ late' = [late EXCEPT ![n] = @ \o
            [i \in DOMAIN responses[n] |-> [next_hop |-> responses[n][i].next_hop,
                                           of |-> responses[n][i].of,
                                           by |-> exits'[n]]]]
    /\ UNCHANGED <<queues, frames, record, losses>>

\* mipd has read the last daemon to its end, closed the descriptor, and been
\* given it again for another client.
DescriptorReused(n) ==
    /\ routing_usd[n] = "closed"
    /\ \A i \in DOMAIN late[n] : late[n][i].by # exits[n]
    /\ routing_usd' = [routing_usd EXCEPT ![n] = "client"]
    /\ UNCHANGED <<queues, requests, responses, late, frames, record, faults>>

ClientLeaves(n) ==
    /\ routing_usd[n] = "client"
    /\ routing_usd' = [routing_usd EXCEPT ![n] = "closed"]
    /\ UNCHANGED <<queues, requests, responses, late, frames, record, faults>>

\* Another routing daemon, whatever mipd has not read of the last one.
RoutingdConnect(n) ==
    /\ routing_usd[n] # "routingd"
    /\ routing_usd' = [routing_usd EXCEPT ![n] = "routingd"]
    /\ UNCHANGED <<queues, requests, responses, late, frames, record, faults>>

LoseFrame(n, s) ==
    /\ losses < MaxLosses
    /\ <<s, n>> \in Links /\ frames[<<s, n>>] # <<>>
    /\ frames' = TakeFrame(n, s)
    /\ losses' = losses + 1
    /\ UNCHANGED <<queues, sockets, record, exits>>

Next ==
    \/ \E n \in Addr, p \in Packet : HandleUsdEvent(n, p)
    \/ \E n \in Addr : ReceiveRoutingResponse(n)
    \/ \E n, s \in Addr : HandleRsdEvent(n, s)
    \/ \E n \in Addr : Answer(n) \/ RoutingdExit(n) \/ RoutingdConnect(n)
    \/ \E n \in Addr : DescriptorReused(n) \/ ClientLeaves(n)
    \/ \E n, s \in Addr : LoseFrame(n, s)

Spec == Init /\ [][Next]_vars

\* A daemon that has an event handles it, in the order of each socket; the
\* routing daemon answers what it is asked.  Clients may stop at any time.
Fairness ==
    /\ \A n \in Addr : WF_vars(ReceiveRoutingResponse(n)) /\ WF_vars(Answer(n))
    /\ \A c \in Links : WF_vars(HandleRsdEvent(c[2], c[1]))

FairSpec == Spec /\ Fairness
---------------------------------------------------------------------------
(* Where a packet is.                                                      *)

PlacesIn(queue, p) == {i \in DOMAIN queue : queue[i].id = p}

InRouteQueue(p) ==
    UNION {{<<n, i>> : i \in PlacesIn(route_queue[n], p)} : n \in Addr}

InArpQueue(p) ==
    UNION {{<<n, i>> : i \in {j \in DOMAIN arp_queue[n] :
                                  arp_queue[n][j].pdu.id = p}} : n \in Addr}

OnCable(p) ==
    UNION {{<<c, i>> : i \in {j \in DOMAIN frames[c] :
                                  /\ frames[c][j].kind = "data"
                                  /\ frames[c][j].pdu.id = p}} : c \in Links}

Copies(p) ==
    Cardinality(InRouteQueue(p)) + Cardinality(InArpQueue(p)) + Cardinality(OnCable(p))

\* The nodes that hold p; a frame is held by its sender until it is received.
Holders(p) ==
    {n \in Addr :
        \/ \E i \in DOMAIN route_queue[n] : route_queue[n][i].id = p
        \/ \E i \in DOMAIN arp_queue[n] : arp_queue[n][i].pdu.id = p
        \/ \E c \in Links : /\ c[1] = n
                            /\ \E i \in DOMAIN frames[c] :
                                   /\ frames[c][i].kind = "data"
                                   /\ frames[c][i].pdu.id = p}

ToOneNode == {p \in Packet : Dst[p] # Broadcast}
---------------------------------------------------------------------------
\* However often a packet changes queues while other packets come and go, it
\* is never duplicated: not by the second request for a route that follows an
\* ARP response (check_arp_queue), nor by an answer read when a routing
\* daemon has come back.
AtMostOneCopy == \A p \in ToOneNode : Copies(p) + Len(delivered[p]) <= 1

\* What the routing daemon has answered and is still asked, in order, and how
\* many of the waiting packets nobody has been asked for who will answer.
Open(n) == [i \in DOMAIN responses[n] |-> responses[n][i].of] \o requests[n]
Lag(n) == Len(route_queue[n]) - Len(late[n]) - Len(responses[n]) - Len(requests[n])

\* A routing response does not say which destination it is for.  Until the
\* routing daemon exits, it is for the packet at the front of the route queue:
\* what has been answered and what is still asked are the destinations of the
\* waiting packets, in their order (send_mip_packet, receive_routing_response).
AnswersMatchQueue ==
    \A n \in Addr : exits[n] = 0 =>
        Open(n) = [i \in DOMAIN route_queue[n] |-> Dst[route_queue[n][i].id]]

\* Whatever exits, every answer finds a packet, also when mipd reads those of
\* several daemons in turn, and what the present daemon has answered and is
\* asked belongs to the last packets of the queue, in their order: its answers
\* are used too early by the Lag(n) and Len(late[n]) packets before them
\* (receive_routing_response after the exit of a routing daemon).
AnswersTrailQueue ==
    \A n \in Addr :
        LET before == Len(route_queue[n]) - Len(Open(n))
        IN  /\ Lag(n) >= 0
            /\ \A i \in DOMAIN Open(n) :
                    Open(n)[i] = Dst[route_queue[n][before + i].id]

\* A daemon that has fallen out of step stays so.  By how many packets its
\* answers are short is never made up for, and it changes only when a routing
\* daemon exits or a request is sent to a client that has its descriptor
\* (route_enqueue and route_dequeue, called together with the socket).
LagIsForever ==
    [][\A n \in Addr :
        /\ Lag(n)' >= Lag(n)
        /\ exits'[n] = exits[n] /\ routing_usd[n] # "client"
                => Lag(n)' = Lag(n)]_vars

\* The answers that mipd may read next.
NextAnswers(n) ==
    {late[n][i] : i \in FirstLate(n)}
    \union (IF responses[n] = <<>> THEN {} ELSE {Head(responses[n])})

\* The answer that is taken for the packet at the front is about the
\* destination of that packet, not about that of an earlier or a later one.
RoutedByOwnAnswer ==
    \A n \in Addr : \A answer \in NextAnswers(n) :
        route_queue[n] # <<>> => answer.of = Dst[Head(route_queue[n]).id]

\* A packet that waits for an ARP response is released by a response and by
\* nothing else, and a response releases only one (check_arp_queue).  No
\* response finds nobody waiting, and one exchange is under way for each
\* packet that waits, but for those that a lost frame has ended.
FramesOf(c, frame) == {i \in DOMAIN frames[c] : frames[c][i] = frame}
OneExchangePerWaiter ==
    \A c \in Links :
        LET waiters == Cardinality(WaitsFor(arp_queue[c[1]], c[2]))
            exchanges == Cardinality(FramesOf(c, ArpRequest(c[2])))
                         + Cardinality(FramesOf(<<c[2], c[1]>>, ArpResponse(c[2])))
        IN  exchanges <= waiters /\ waiters <= exchanges + losses

\* A packet crosses no more cables than its client asked for (the maximum for
\* zero), even when routes loop and when the number asked for does not fit
\* the ttl field and wraps (handle_usd_event, forward_mip_pdu).
Budget == [p \in ToOneNode |-> IF Asked[p] = 0 THEN MaxTtl ELSE Asked[p]]
WithinBudget == \A p \in ToOneNode : hops[p] <= Budget[p]

\* The daemons together implement the abstract network of Relay.tla.
Fate == [p \in ToOneNode |->
            IF p \notin sent THEN "unsent"
            ELSE IF Holders(p) # {} THEN "moving"
            ELSE IF delivered[p] # <<>> THEN "delivered" ELSE "lost"]
NodeAt == [p \in ToOneNode |-> LET holders == Holders(p)
                               IN  IF holders = {} THEN Broadcast
                                   ELSE CHOOSE n \in holders : TRUE]
Crossed == [p \in ToOneNode |-> hops[p]]
Network == INSTANCE Relay WITH
    Packet <- ToOneNode, fate <- Fate, at <- NodeAt, crossed <- Crossed,
    Nowhere <- Broadcast
Relays == Network!Spec

\* The packets whose way is sure: wherever they may come, every answer leads
\* closer to the destination, and the time to live suffices.  A node has a
\* rank above MaxTtl when nothing is said about the answers there.
Leads(rank, d) ==
    /\ rank[d] = 0
    /\ \A n \in Addr \ {d} :
        rank[n] <= MaxTtl => Via[n][d] \subseteq {m \in Addr : rank[m] < rank[n]}
LeadsFor(rank, p) == Leads(rank, Dst[p]) /\ rank[Src[p]] <= AskedTtl(p)
WellRouted ==
    {p \in ToOneNode : /\ Src[p] # Dst[p]
                       /\ \E rank \in [Addr -> 0..(MaxTtl + 1)] : LeadsFor(rank, p)}

\* No routing daemon of the network has exited yet.
NoneHasExited == \A n \in Addr : exits[n] = 0

\* Nothing but a lost frame makes such a packet disappear, and one lost frame
\* makes one packet disappear at most, though packets share queues and frames
\* of ARP with others whose routes loop or are missing; until a routing daemon
\* exits (send_mip_packet, receive_routing_response, check_arp_queue).
Gone(p) == p \in sent /\ Holders(p) = {} /\ delivered[p] = <<>>
LossPerFrame ==
    NoneHasExited => Cardinality({p \in WellRouted : Gone(p)}) <= losses

\* Whatever the routes are, loops included, every packet leaves the network:
\* it is delivered or given up, and no queue keeps it for ever; as long as no
\* frame is lost, no routing daemon exits, and the ARP caches are not full.
Settles == \A p \in ToOneNode : p \in sent ~> Holders(p) = {}

\* A packet whose way is sure is delivered once and at its destination, however
\* it is overtaken on the way and whatever the routes of other packets do; on
\* the same conditions.  Entries are never removed from an ARP cache and are
\* added again, so that in the long run they do not hold (ResponseIsCached).
Arrives == \A p \in WellRouted : p \in sent ~> delivered[p] = <<Dst[p]>>

\* Once a next hop is resolved, no packet keeps waiting for its address.
Released ==
    \A c \in Links :
        IsCached(c[1], c[2]) /\ WaitsFor(arp_queue[c[1]], c[2]) # {}
            ~> WaitsFor(arp_queue[c[1]], c[2]) = {}

\* An ARP response leaves its sender in the cache.
ResponseIsCached ==
    [][\A n, s \in Addr : HandleArpResponse(n, s) => IsCached(n, s)']_vars
=============================================================================

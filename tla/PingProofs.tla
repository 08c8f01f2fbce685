----------------------------- MODULE PingProofs -----------------------------
(***************************************************************************)
(* What a ping client may read, and that texts do not multiply, for every  *)
(* set of nodes and programs.                                              *)
(*                                                                         *)
(* The invariant follows a text on its way: without PONG: it goes from its *)
(* client to the host that is pinged, with one PONG: from that host to the *)
(* node of the client.  A program of a node is handed what was sent to     *)
(* that node from another one, and, after an exit of the routing daemon of *)
(* the node, routing messages.                                             *)
(***************************************************************************)
EXTENDS Ping, FiniteSetTheorems, TLAPS

\* A message on the way that its text has to go; of a routing message only
\* the answers of a server are on their way.
Sound == {m \in Message :
            IF m.of = Routingd THEN m.pongs # 0
            ELSE /\ m.pongs = 0 => m.from = Node[m.of] /\ m.to = Target[m.of]
                 /\ m.pongs = 1 => m.from = Target[m.of] /\ m.to = Node[m.of]}

\* What a program of node n may be handed after the exits e.
Strays(n, e) == IF n \in e THEN {RoutingMessage(n, m) : m \in Addr} ELSE {}
SoundAt(n, e) == {m \in Sound : m.to = n /\ m.from # m.to} \union Strays(n, e)

OutboxOK == \A p \in Program : outbox[p] \in Seq(Sound)
InboxOK == \A p \in Program : inbox[p] \in Seq(SoundAt(Node[p], exited))
FlightOK == \A m \in flight : m \in Sound /\ m.from # m.to
PingUsdOK == \A n \in Addr : ping_usd[n] # None => Node[ping_usd[n]] = n
RoutingUsdOK == \A n \in Addr :
    routing_usd[n] # Routingd =>
        n \in exited /\ (routing_usd[n] # None => Node[routing_usd[n]] = n)
ReadOKOf(c) ==
    /\ phase[c] \in {"idle", "running"} => read[c] = None
    /\ phase[c] = "match" =>
           Foreign(c) \/ (read[c] \in Sound /\ IsAnswer(c, read[c]))
    /\ phase[c] = "crash" =>
           \/ read[c] = None /\ Node[c] \in closed /\ c \notin registered
           \/ /\ read[c] \in SoundAt(Node[c], exited)
              /\ HasColon(read[c]) => read[c].of = Routingd /\ read[c].pongs = 0
ReadOK == \A c \in Client : ReadOKOf(c)

IInv == TypeOK /\ OutboxOK /\ InboxOK /\ FlightOK /\ PingUsdOK
        /\ RoutingUsdOK /\ ReadOK
---------------------------------------------------------------------------
LEMMA ProgramFacts ==
    /\ \A c \in Client : c \in Program /\ Node[c] \in Addr /\ Target[c] \in Addr
    /\ \A p \in Program : p # None /\ p # Routingd /\ Node[p] \in Addr
    /\ \A s \in Server : s \in Program /\ s \notin Client
    /\ \A m \in Message : /\ m.from \in Addr /\ m.to \in Addr
                          /\ m.of \in Client \union {Routingd} /\ m.pongs \in 0..2
    /\ None # Routingd /\ Routingd \notin Client
<1>. QED
  BY ProgramAssumption DEF Program, Message

LEMMA RoutingMessageFacts ==
    ASSUME NEW n \in Addr, NEW m \in Addr
    PROVE  /\ RoutingMessage(n, m) \in Message
           /\ RoutingMessage(n, m).of = Routingd /\ RoutingMessage(n, m).pongs = 0
<1>. QED
  BY DEF RoutingMessage, Message

LEMMA SoundAtFacts ==
    ASSUME NEW n \in Addr, NEW e
    PROVE  /\ SoundAt(n, e) \subseteq Message
           /\ n \in e => \A m \in Addr : RoutingMessage(n, m) \in SoundAt(n, e)
           /\ \A m \in SoundAt(n, e) :
                  \/ m \in Sound /\ m.to = n /\ m.from # m.to
                  \/ n \in e /\ m.of = Routingd /\ m.pongs = 0
           /\ \A f : e \subseteq f => SoundAt(n, e) \subseteq SoundAt(n, f)
<1>1. /\ Sound \subseteq Message
      /\ \A m \in Strays(n, e) : m \in Message /\ m.of = Routingd /\ m.pongs = 0
                                /\ n \in e
  BY RoutingMessageFacts DEF Strays, Sound
<1>2. n \in e => \A m \in Addr : RoutingMessage(n, m) \in Strays(n, e)
  BY DEF Strays
<1>3. \A f : e \subseteq f => Strays(n, e) \subseteq Strays(n, f)
  BY DEF Strays
<1>. QED
  BY <1>1, <1>2, <1>3 DEF SoundAt

\* What is taken from a queue, and what is left.
LEMMA HeadTail ==
    ASSUME NEW S, NEW box \in Seq(S), box # <<>>
    PROVE  Head(box) \in S /\ Tail(box) \in Seq(S)
<1>. QED
  OBVIOUS

\* What a program is sent is in its queue, and nothing else changes.
LEMMA HandedOK ==
    ASSUME IInv, NEW p, NEW m,
           Reads(p) => m \in SoundAt(Node[p], exited)
    PROVE  /\ Handed(p, m) \in [Program -> Seq(Message)]
           /\ \A q \in Program : Handed(p, m)[q] \in Seq(SoundAt(Node[q], exited))
<1>1. /\ inbox \in [Program -> Seq(Message)]
      /\ \A q \in Program : inbox[q] \in Seq(SoundAt(Node[q], exited))
  BY DEF IInv, TypeOK, InboxOK
<1>2. CASE Reads(p)
  <2>1. p \in Program /\ Handed(p, m) = [inbox EXCEPT ![p] = Append(inbox[p], m)]
    BY <1>2 DEF Reads, Handed
  <2>2. m \in Message /\ m \in SoundAt(Node[p], exited)
    BY <1>2, <2>1, ProgramFacts, SoundAtFacts
  <2>3. /\ Append(inbox[p], m) \in Seq(Message)
        /\ Append(inbox[p], m) \in Seq(SoundAt(Node[p], exited))
    BY <1>1, <2>1, <2>2
  <2>. QED
    BY <1>1, <2>1, <2>3
<1>3. CASE ~Reads(p)
  BY <1>1, <1>3 DEF Handed
<1>. QED
  BY <1>2, <1>3

\* An answer to a sound message is sound: it is the first PONG: just when the
\* message had none.
LEMMA ReplyIsSound ==
    ASSUME NEW s \in Server, NEW e, NEW m \in SoundAt(Node[s], e)
    PROVE  Reply(s, m) \in Message /\ Reply(s, m) \in Sound
<1> DEFINE k == Min({2, m.pongs + 1})
<1>1. /\ m \in Message
      /\ m.of # Routingd => m \in Sound /\ m.to = Node[s]
  BY ProgramFacts, SoundAtFacts
<1>2. /\ m.pongs \in 0..2 /\ m.from \in Addr /\ m.of \in Client \union {Routingd}
      /\ Node[s] \in Addr
  BY <1>1, ProgramFacts
<1>3. k \in {2, m.pongs + 1} /\ \A y \in {2, m.pongs + 1} : k <= y
  <2>1. \E x \in {2, m.pongs + 1} : \A y \in {2, m.pongs + 1} : x <= y
    <3>1. CASE m.pongs + 1 <= 2
      BY <3>1, <1>2
    <3>2. CASE m.pongs + 1 > 2
      BY <3>2, <1>2
    <3>. QED
      BY <3>1, <3>2, <1>2
  <2>. QED
    BY <2>1 DEF Min
<1>4. k \in 0..2 /\ k # 0 /\ (k = 1 => m.pongs = 0)
  BY <1>2, <1>3
<1> HIDE DEF k
<1>5. Reply(s, m) = [from |-> Node[s], to |-> m.from, of |-> m.of, pongs |-> k]
  BY DEF Reply, k
<1>6. Reply(s, m) \in Message
  BY <1>2, <1>4, <1>5 DEF Message
<1>7. k = 1 /\ m.of # Routingd => Node[s] = Target[m.of] /\ m.from = Node[m.of]
  BY <1>1, <1>4 DEF Sound
<1>. QED
  BY <1>4, <1>5, <1>6, <1>7 DEF Sound
---------------------------------------------------------------------------
LEMMA InitIInv == Init => IInv
<1> SUFFICES ASSUME Init PROVE IInv
  OBVIOUS
<1>1. TypeOK
  <2>1. <<>> \in Seq(Message)
    OBVIOUS
  <2>. QED
    BY <2>1 DEF Init, TypeOK
<1>2. OutboxOK /\ InboxOK
  <2>1. \A S : <<>> \in Seq(S)
    OBVIOUS
  <2>. QED
    BY <2>1 DEF Init, OutboxOK, InboxOK
<1>3. FlightOK /\ PingUsdOK /\ RoutingUsdOK
  BY DEF Init, FlightOK, PingUsdOK, RoutingUsdOK
<1>4. ReadOK
  BY ProgramFacts DEF Init, ReadOK, ReadOKOf
<1>. QED
  BY <1>1, <1>2, <1>3, <1>4 DEF IInv

LEMMA RegisterStep == ASSUME IInv, NEW p \in Program, Register(p) PROVE IInv'
<1>1. /\ registered' = registered \union {p} /\ Node[p] \notin closed
      /\ ping_usd' = [ping_usd EXCEPT ![Node[p]] = p]
      /\ \/ routing_usd' = routing_usd
         \/ /\ Unused(Node[p])
            /\ routing_usd' = [routing_usd EXCEPT ![Node[p]] = p]
      /\ UNCHANGED <<phase, exited, closed, outbox, inbox, flight, read>>
  BY DEF Register
<1>2. TypeOK'
  BY <1>1 DEF IInv, TypeOK
<1>3. PingUsdOK'
  BY <1>1 DEF IInv, TypeOK, PingUsdOK
<1>4. RoutingUsdOK'
  <2>1. Unused(Node[p]) => routing_usd[Node[p]] # Routingd
    BY ProgramFacts DEF Unused
  <2>. QED
    BY <1>1, <2>1 DEF IInv, TypeOK, RoutingUsdOK
<1>5. OutboxOK' /\ InboxOK' /\ FlightOK'
  BY <1>1 DEF IInv, OutboxOK, InboxOK, FlightOK
<1>6. ReadOK'
  BY <1>1 DEF IInv, ReadOK, ReadOKOf, Foreign
<1>. QED
  BY <1>2, <1>3, <1>4, <1>5, <1>6 DEF IInv

LEMMA TakeMessageStep ==
    ASSUME IInv, NEW p \in Program, TakeMessage(p) PROVE IInv'
<1> DEFINE m == Head(outbox[p])
           usd == routing_usd[Node[p]]
           stray == RoutingMessage(Node[p], Node[p])
<1>1. /\ outbox[p] \in Seq(Message) /\ outbox[p] \in Seq(Sound)
      /\ outbox[p] # <<>>
  BY DEF IInv, TypeOK, OutboxOK, TakeMessage
<1>2. /\ m \in Message /\ m \in Sound
      /\ Tail(outbox[p]) \in Seq(Message) /\ Tail(outbox[p]) \in Seq(Sound)
  BY <1>1, HeadTail
<1>3. /\ outbox' = [outbox EXCEPT ![p] = Tail(outbox[p])]
      /\ inbox' = Handed(usd, stray)
      /\ flight' = flight \/ (flight' = flight \union {m} /\ m.to # m.from)
      /\ UNCHANGED <<phase, registered, ping_usd, routing_usd, exited, closed, read>>
  BY DEF TakeMessage, daemons
<1>4. Reads(usd) => stray \in SoundAt(Node[usd], exited)
  <2> SUFFICES ASSUME Reads(usd) PROVE stray \in SoundAt(Node[usd], exited)
    OBVIOUS
  <2>1. usd \in Program /\ Node[p] \in Addr
    BY ProgramFacts DEF Reads
  <2>2. Node[p] \in exited /\ Node[usd] = Node[p]
    BY <2>1, ProgramFacts DEF IInv, RoutingUsdOK
  <2>. QED
    BY <2>1, <2>2, SoundAtFacts
<1> HIDE DEF m, usd, stray
<1>5. /\ inbox' \in [Program -> Seq(Message)]
      /\ \A q \in Program : inbox'[q] \in Seq(SoundAt(Node[q], exited))
  BY <1>3, <1>4, HandedOK
<1>6. TypeOK'
  BY <1>2, <1>3, <1>5 DEF IInv, TypeOK
<1>7. OutboxOK'
  BY <1>2, <1>3 DEF IInv, TypeOK, OutboxOK
<1>8. InboxOK'
  BY <1>3, <1>5 DEF InboxOK
<1>9. FlightOK'
  BY <1>2, <1>3 DEF IInv, FlightOK
<1>10. PingUsdOK' /\ RoutingUsdOK' /\ ReadOK'
  BY <1>3 DEF IInv, PingUsdOK, RoutingUsdOK, ReadOK, ReadOKOf, Foreign
<1>. QED
  BY <1>6, <1>7, <1>8, <1>9, <1>10 DEF IInv

LEMMA DeliverStep ==
    ASSUME IInv, NEW c \in Client \union {Routingd}, Deliver(c) PROVE IInv'
<1>1. PICK m \in flight :
          /\ flight' = flight \ {m}
          /\ inbox' = Handed(ping_usd[m.to], m)
          /\ UNCHANGED <<phase, registered, ping_usd, routing_usd, exited, closed,
                         outbox, read>>
  BY DEF Deliver, daemons
<1> DEFINE p == ping_usd[m.to]
<1>2. m \in Message /\ m \in Sound /\ m.from # m.to /\ m.to \in Addr
  BY ProgramFacts DEF IInv, TypeOK, FlightOK
<1>3. Reads(p) => m \in SoundAt(Node[p], exited)
  BY <1>2, ProgramFacts DEF IInv, PingUsdOK, Reads, SoundAt
<1>4. inbox' = Handed(p, m)
  BY <1>1
<1> HIDE DEF p
<1>5. /\ inbox' \in [Program -> Seq(Message)]
      /\ \A q \in Program : inbox'[q] \in Seq(SoundAt(Node[q], exited))
  BY <1>3, <1>4, HandedOK
<1>6. TypeOK'
  BY <1>1, <1>5 DEF IInv, TypeOK
<1>7. InboxOK'
  BY <1>1, <1>5 DEF InboxOK
<1>8. OutboxOK' /\ FlightOK' /\ PingUsdOK' /\ RoutingUsdOK' /\ ReadOK'
  BY <1>1 DEF IInv, OutboxOK, FlightOK, PingUsdOK, RoutingUsdOK, ReadOK, ReadOKOf, Foreign
<1>. QED
  BY <1>6, <1>7, <1>8 DEF IInv

LEMMA LoseStep ==
    ASSUME IInv, NEW c \in Client \union {Routingd}, Lose(c) PROVE IInv'
<1>1. flight' \subseteq flight
      /\ UNCHANGED <<phase, registered, ping_usd, routing_usd, exited, closed,
                     outbox, inbox, read>>
  BY DEF Lose, daemons
<1>2. TypeOK'
  BY <1>1 DEF IInv, TypeOK
<1>3. OutboxOK' /\ InboxOK' /\ FlightOK' /\ PingUsdOK' /\ RoutingUsdOK' /\ ReadOK'
  BY <1>1 DEF IInv, OutboxOK, InboxOK, FlightOK, PingUsdOK, RoutingUsdOK, ReadOK, ReadOKOf,
              Foreign
<1>. QED
  BY <1>2, <1>3 DEF IInv

\* After an exit a program may be handed more.
LEMMA RoutingdExitStep ==
    ASSUME IInv, NEW n \in Addr, RoutingdExit(n) PROVE IInv'
<1>1. /\ exited' = exited \union {n}
      /\ routing_usd' = [routing_usd EXCEPT ![n] = None]
      /\ UNCHANGED <<phase, registered, ping_usd, closed, outbox, inbox, flight, read>>
  BY DEF RoutingdExit
<1>2. TypeOK'
  BY <1>1 DEF IInv, TypeOK
<1>3. \A p \in Program : SoundAt(Node[p], exited) \subseteq SoundAt(Node[p], exited')
  <2> SUFFICES ASSUME NEW p \in Program
               PROVE  SoundAt(Node[p], exited) \subseteq SoundAt(Node[p], exited')
    OBVIOUS
  <2>1. Node[p] \in Addr /\ exited \subseteq exited'
    BY <1>1, ProgramFacts
  <2>. QED
    BY <2>1, SoundAtFacts
<1>4. InboxOK'
  <2> SUFFICES ASSUME NEW p \in Program
               PROVE  inbox'[p] \in Seq(SoundAt(Node[p], exited'))
    BY DEF InboxOK
  <2>1. inbox'[p] \in Seq(SoundAt(Node[p], exited))
    BY <1>1 DEF IInv, InboxOK
  <2>. QED
    BY <1>3, <2>1
<1>5. RoutingUsdOK'
  BY <1>1 DEF IInv, TypeOK, RoutingUsdOK
<1>6. ReadOK'
  BY <1>1, <1>3, ProgramFacts DEF IInv, ReadOK, ReadOKOf, Foreign
<1>7. OutboxOK' /\ FlightOK' /\ PingUsdOK'
  BY <1>1 DEF IInv, OutboxOK, FlightOK, PingUsdOK
<1>. QED
  BY <1>2, <1>4, <1>5, <1>6, <1>7 DEF IInv

LEMMA RoutingdConnectStep ==
    ASSUME IInv, NEW n \in Addr, RoutingdConnect(n) PROVE IInv'
<1>1. /\ routing_usd' = [routing_usd EXCEPT ![n] = Routingd]
      /\ UNCHANGED <<phase, registered, ping_usd, exited, closed, outbox, inbox,
                     flight, read>>
  BY DEF RoutingdConnect
<1>2. TypeOK'
  BY <1>1 DEF IInv, TypeOK
<1>3. RoutingUsdOK'
  BY <1>1 DEF IInv, TypeOK, RoutingUsdOK
<1>4. OutboxOK' /\ InboxOK' /\ FlightOK' /\ PingUsdOK' /\ ReadOK'
  BY <1>1 DEF IInv, OutboxOK, InboxOK, FlightOK, PingUsdOK, ReadOK, ReadOKOf, Foreign
<1>. QED
  BY <1>2, <1>3, <1>4 DEF IInv

LEMMA CloseListenerStep ==
    ASSUME IInv, NEW n \in Addr, CloseListener(n) PROVE IInv'
<1>1. /\ closed' = closed \union {n} /\ n \in Closing
      /\ \/ ping_usd' = ping_usd
         \/ \E p \in Program : /\ Node[p] = n
                               /\ ping_usd' = [ping_usd EXCEPT ![n] = p]
      /\ UNCHANGED <<phase, registered, routing_usd, exited, outbox, inbox, flight,
                     read>>
  BY DEF CloseListener
<1>2. TypeOK'
  BY <1>1 DEF IInv, TypeOK
<1>3. PingUsdOK'
  BY <1>1 DEF IInv, TypeOK, PingUsdOK
<1>4. OutboxOK' /\ InboxOK' /\ FlightOK' /\ RoutingUsdOK' /\ ReadOK'
  BY <1>1 DEF IInv, OutboxOK, InboxOK, FlightOK, RoutingUsdOK, ReadOK, ReadOKOf, Foreign
<1>. QED
  BY <1>2, <1>3, <1>4 DEF IInv

LEMMA StrayMessageStep ==
    ASSUME IInv, NEW n \in Addr, StrayMessage(n) PROVE IInv'
<1> DEFINE p == routing_usd[n]
<1>1. PICK m \in Near[n] \union {n} : inbox' = Handed(p, RoutingMessage(n, m))
  BY DEF StrayMessage
<1>2. UNCHANGED <<phase, registered, ping_usd, routing_usd, exited, closed, outbox,
                  flight, read>>
  BY DEF StrayMessage, daemons
<1>3. p \in Program /\ m \in Addr
  BY DaemonAssumption DEF StrayMessage, Reads
<1>4. n \in exited /\ Node[p] = n
  BY <1>3, ProgramFacts DEF IInv, RoutingUsdOK
<1>5. RoutingMessage(n, m) \in SoundAt(Node[p], exited)
  BY <1>3, <1>4, SoundAtFacts
<1> HIDE DEF p
<1>6. /\ inbox' \in [Program -> Seq(Message)]
      /\ \A q \in Program : inbox'[q] \in Seq(SoundAt(Node[q], exited))
  BY <1>1, <1>5, HandedOK
<1>7. TypeOK'
  BY <1>2, <1>6 DEF IInv, TypeOK
<1>8. InboxOK'
  BY <1>2, <1>6 DEF InboxOK
<1>9. OutboxOK' /\ FlightOK' /\ PingUsdOK' /\ RoutingUsdOK' /\ ReadOK'
  BY <1>2 DEF IInv, OutboxOK, FlightOK, PingUsdOK, RoutingUsdOK, ReadOK, ReadOKOf, Foreign
<1>. QED
  BY <1>7, <1>8, <1>9 DEF IInv
---------------------------------------------------------------------------
LEMMA StartClientStep ==
    ASSUME IInv, NEW c \in Client, StartClient(c) PROVE IInv'
<1> DEFINE m == [from |-> Node[c], to |-> Target[c], of |-> c, pongs |-> 0]
<1>1. c \in Program /\ m \in Message /\ m \in Sound
  BY ProgramFacts DEF Message, Sound
<1>2. /\ outbox' = [outbox EXCEPT ![c] = <<m>>]
      /\ phase[c] = "idle" /\ phase' = [phase EXCEPT ![c] = "running"]
      /\ UNCHANGED <<registered, ping_usd, routing_usd, exited, closed, inbox, flight,
                     read>>
  BY DEF StartClient, daemons
<1> HIDE DEF m
<1>3. <<m>> \in Seq(Message) /\ <<m>> \in Seq(Sound)
  BY <1>1
<1>4. TypeOK'
  BY <1>1, <1>2, <1>3 DEF IInv, TypeOK
<1>5. OutboxOK'
  BY <1>1, <1>2, <1>3 DEF IInv, TypeOK, OutboxOK
<1>6. ReadOK'
  BY <1>1, <1>2, ProgramFacts DEF IInv, TypeOK, ReadOK, ReadOKOf, Foreign
<1>7. InboxOK' /\ FlightOK' /\ PingUsdOK' /\ RoutingUsdOK'
  BY <1>2 DEF IInv, InboxOK, FlightOK, PingUsdOK, RoutingUsdOK
<1>. QED
  BY <1>4, <1>5, <1>6, <1>7 DEF IInv

\* A client ends with what it has read, or after a reset.
LEMMA ReadPongStep == ASSUME IInv, NEW c \in Client, ReadPong(c) PROVE IInv'
<1>1. /\ c \in Program /\ phase[c] = "running" /\ read[c] = None
      /\ Node[c] \in Addr
  BY ProgramFacts DEF IInv, ReadOK, ReadOKOf, ReadPong
<1>2. PICK end \in {"match", "mismatch", "crash"} :
          /\ phase' = [phase EXCEPT ![c] = end]
          /\ inbox' = [inbox EXCEPT ![c] = <<>>]
          /\ UNCHANGED <<registered, ping_usd, routing_usd, exited, closed, outbox,
                         flight>>
          /\ \/ /\ inbox[c] # <<>> /\ end \in Outcomes(c, Head(inbox[c]))
                /\ read' = [read EXCEPT ![c] = Head(inbox[c])]
             \/ IsReset(c) /\ UNCHANGED read
  <2>1. \A m : Outcomes(c, m) \subseteq {"match", "mismatch", "crash"}
    BY DEF Outcomes
  <2>. QED
    BY <2>1 DEF ReadPong, daemons
<1>3. \A S : <<>> \in Seq(S)
  OBVIOUS
<1>4. InboxOK'
  BY <1>1, <1>2, <1>3 DEF IInv, TypeOK, InboxOK
<1>5. OutboxOK' /\ FlightOK' /\ PingUsdOK' /\ RoutingUsdOK'
  BY <1>2 DEF IInv, OutboxOK, FlightOK, PingUsdOK, RoutingUsdOK
<1>6. CASE IsReset(c) /\ UNCHANGED read
  <2>1. Node[c] \in closed /\ c \notin registered
    BY <1>6 DEF IsReset
  <2>2. TypeOK'
    BY <1>1, <1>2, <1>3, <1>6 DEF IInv, TypeOK, Ended
  <2>3. ReadOK'
    <3> SUFFICES ASSUME NEW d \in Client PROVE ReadOKOf(d)'
      BY DEF ReadOK
    <3>1. CASE d = c
      BY <1>1, <1>2, <1>6, <2>1, <3>1 DEF IInv, TypeOK, Foreign, ReadOKOf
    <3>2. CASE d # c
      <4>1. d \in Program /\ phase'[d] = phase[d] /\ read'[d] = read[d]
        BY <1>2, <1>6, <3>2, ProgramFacts DEF IInv, TypeOK
      <4>. QED
        BY <1>2, <4>1 DEF IInv, ReadOK, ReadOKOf, Foreign
    <3>. QED
      BY <3>1, <3>2
  <2>. QED
    BY <1>4, <1>5, <2>2, <2>3 DEF IInv
<1>7. CASE /\ inbox[c] # <<>> /\ end \in Outcomes(c, Head(inbox[c]))
           /\ read' = [read EXCEPT ![c] = Head(inbox[c])]
  <2> DEFINE m == Head(inbox[c])
  <2>1. m \in Message /\ m \in SoundAt(Node[c], exited)
    <3>1. inbox[c] \in Seq(Message) /\ inbox[c] \in Seq(SoundAt(Node[c], exited))
      BY <1>1 DEF IInv, TypeOK, InboxOK
    <3>. QED
      BY <1>7, <3>1, HeadTail
  <2>2. m # None
    BY <2>1, NoneAssumption
  <2>3. /\ end = "match" => Unwritten(m) \/ IsAnswer(c, m)
        /\ end = "crash" => Unwritten(m) \/ ~HasColon(m)
    BY <1>7 DEF Outcomes
  <2>4. read' = [read EXCEPT ![c] = m]
    BY <1>7
  <2> HIDE DEF m
  <2>5. TypeOK'
    BY <1>1, <1>2, <1>3, <2>1, <2>4 DEF IInv, TypeOK, Ended
  <2>6. IsAnswer(c, m) => m \in Sound
    <3>1. IsAnswer(c, m) => m.of # Routingd
      BY ProgramFacts DEF IsAnswer
    <3>. QED
      BY <1>1, <2>1, <3>1, SoundAtFacts
  <2>7. Unwritten(m) => m.of = Routingd /\ m.pongs = 0
    BY DEF Unwritten
  <2>8. ReadOK'
    <3> SUFFICES ASSUME NEW d \in Client PROVE ReadOKOf(d)'
      BY DEF ReadOK
    <3>1. CASE d = c
      <4>1. phase'[c] = end /\ read'[c] = m
        BY <1>1, <1>2, <2>4 DEF IInv, TypeOK
      <4>. QED
        BY <1>2, <2>1, <2>3, <2>6, <2>7, <3>1, <4>1 DEF Foreign, ReadOKOf
    <3>2. CASE d # c
      <4>1. d \in Program /\ phase'[d] = phase[d] /\ read'[d] = read[d]
        BY <1>2, <2>4, <3>2, ProgramFacts DEF IInv, TypeOK
      <4>. QED
        BY <1>2, <4>1 DEF IInv, ReadOK, ReadOKOf, Foreign
    <3>. QED
      BY <3>1, <3>2
  <2>. QED
    BY <1>4, <1>5, <2>5, <2>8 DEF IInv
<1>. QED
  BY <1>2, <1>6, <1>7

LEMMA TimeoutStep == ASSUME IInv, NEW c \in Client, Timeout(c) PROVE IInv'
<1>1. /\ phase' = [phase EXCEPT ![c] = "timeout"]
      /\ inbox' = [inbox EXCEPT ![c] = <<>>]
      /\ UNCHANGED <<registered, ping_usd, routing_usd, exited, closed, outbox, flight,
                     read>>
  BY DEF Timeout, daemons
<1>2. \A S : <<>> \in Seq(S)
  OBVIOUS
<1>3. c \in Program
  BY ProgramFacts
<1>4. TypeOK'
  BY <1>1, <1>2, <1>3 DEF IInv, TypeOK, Ended
<1>5. InboxOK'
  BY <1>1, <1>2, <1>3 DEF IInv, TypeOK, InboxOK
<1>6. ReadOK'
  BY <1>1, <1>3, ProgramFacts DEF IInv, TypeOK, ReadOK, ReadOKOf, Foreign
<1>7. OutboxOK' /\ FlightOK' /\ PingUsdOK' /\ RoutingUsdOK'
  BY <1>1 DEF IInv, OutboxOK, FlightOK, PingUsdOK, RoutingUsdOK
<1>. QED
  BY <1>4, <1>5, <1>6, <1>7 DEF IInv

LEMMA StartServerStep ==
    ASSUME IInv, NEW s \in Server, StartServer(s) PROVE IInv'
<1>1. /\ phase' = [phase EXCEPT ![s] = "running"]
      /\ UNCHANGED <<registered, ping_usd, routing_usd, exited, closed, outbox, inbox,
                     flight, read>>
  BY DEF StartServer, daemons
<1>2. TypeOK'
  BY <1>1, ProgramFacts DEF IInv, TypeOK
<1>3. ReadOK'
  BY <1>1, ProgramFacts DEF IInv, TypeOK, ReadOK, ReadOKOf, Foreign
<1>4. OutboxOK' /\ InboxOK' /\ FlightOK' /\ PingUsdOK' /\ RoutingUsdOK'
  BY <1>1 DEF IInv, OutboxOK, InboxOK, FlightOK, PingUsdOK, RoutingUsdOK
<1>. QED
  BY <1>2, <1>3, <1>4 DEF IInv

LEMMA AnswerStep == ASSUME IInv, NEW s \in Server, Answer(s) PROVE IInv'
<1> DEFINE reply == Reply(s, Head(inbox[s]))
<1>1. /\ s \in Program /\ inbox[s] # <<>>
      /\ inbox[s] \in Seq(Message) /\ inbox[s] \in Seq(SoundAt(Node[s], exited))
      /\ outbox[s] \in Seq(Message) /\ outbox[s] \in Seq(Sound)
  BY ProgramFacts DEF IInv, TypeOK, InboxOK, OutboxOK, Answer
<1>2. /\ Head(inbox[s]) \in SoundAt(Node[s], exited)
      /\ Tail(inbox[s]) \in Seq(Message)
      /\ Tail(inbox[s]) \in Seq(SoundAt(Node[s], exited))
  BY <1>1, HeadTail
<1>3. reply \in Message /\ reply \in Sound
  BY <1>2, ReplyIsSound
<1>4. /\ inbox' = [inbox EXCEPT ![s] = Tail(inbox[s])]
      /\ outbox' = [outbox EXCEPT ![s] = Append(outbox[s], reply)]
      /\ UNCHANGED <<phase, registered, ping_usd, routing_usd, exited, closed, flight,
                     read>>
  BY DEF Answer, Received, daemons
<1> HIDE DEF reply
<1>5. Append(outbox[s], reply) \in Seq(Message) /\ Append(outbox[s], reply) \in Seq(Sound)
  BY <1>1, <1>3
<1>6. TypeOK'
  BY <1>1, <1>2, <1>4, <1>5 DEF IInv, TypeOK
<1>7. InboxOK' /\ OutboxOK'
  BY <1>1, <1>2, <1>4, <1>5 DEF IInv, TypeOK, InboxOK, OutboxOK
<1>8. FlightOK' /\ PingUsdOK' /\ RoutingUsdOK' /\ ReadOK'
  BY <1>4 DEF IInv, FlightOK, PingUsdOK, RoutingUsdOK, ReadOK, ReadOKOf, Foreign
<1>. QED
  BY <1>6, <1>7, <1>8 DEF IInv
---------------------------------------------------------------------------
LEMMA StepIInv == ASSUME IInv, [Next]_vars PROVE IInv'
<1>1. ASSUME NEW p \in Program, Register(p) \/ TakeMessage(p) PROVE IInv'
  BY <1>1, RegisterStep, TakeMessageStep
<1>2. ASSUME NEW c \in Client \union {Routingd}, Deliver(c) \/ Lose(c) PROVE IInv'
  BY <1>2, DeliverStep, LoseStep
<1>3. ASSUME NEW n \in Addr, RoutingdExit(n) \/ RoutingdConnect(n) \/ StrayMessage(n)
      PROVE  IInv'
  BY <1>3, RoutingdExitStep, RoutingdConnectStep, StrayMessageStep
<1>4. ASSUME NEW n \in Addr, CloseListener(n) PROVE IInv'
  BY <1>4, CloseListenerStep
<1>5. ASSUME NEW c \in Client, StartClient(c) \/ ReadPong(c) \/ Timeout(c)
      PROVE  IInv'
  BY <1>5, StartClientStep, ReadPongStep, TimeoutStep
<1>6. ASSUME NEW s \in Server, StartServer(s) \/ Answer(s) PROVE IInv'
  BY <1>6, StartServerStep, AnswerStep
<1>7. CASE UNCHANGED vars
  BY <1>7 DEF IInv, TypeOK, OutboxOK, InboxOK, FlightOK, PingUsdOK, RoutingUsdOK,
              ReadOK, ReadOKOf, Foreign, vars
<1>. QED
  BY <1>1, <1>2, <1>3, <1>4, <1>5, <1>6, <1>7 DEF Next

LEMMA Invariance == Spec => []IInv
<1>. QED
  BY InitIInv, StepIInv, PTL DEF Spec

\* The type invariant of the ping programs and of what is between them.
THEOREM TypeCorrect == Spec => []TypeOK
<1>1. IInv => TypeOK
  BY DEF IInv
<1>. QED
  BY <1>1, Invariance, PTL

\* A client whose text nobody else sends takes nothing for its answer but the
\* answer of the host it has pinged (main of ping_client, at memcmp).
THEOREM MatchIsOwnAnswer == Spec => []OwnAnswer
<1>1. IInv => OwnAnswer
  <2> SUFFICES ASSUME IInv, NEW c \in Client, phase[c] = "match", ~Foreign(c),
                      \A d \in Client \ {c} : Text[d] # Text[c]
               PROVE  read[c] = [from |-> Target[c], to |-> Node[c],
                                 of |-> c, pongs |-> 1]
    BY DEF OwnAnswer
  <2>1. read[c] \in Sound /\ IsAnswer(c, read[c])
    BY DEF IInv, ReadOK, ReadOKOf
  <2>2. read[c] \in Message
    BY <2>1 DEF Sound
  <2>3. read[c].pongs = 1 /\ read[c].of = c /\ read[c].of # Routingd
    BY <2>1, <2>2, ProgramFacts DEF IsAnswer
  <2>4. read[c].from = Target[c] /\ read[c].to = Node[c]
    BY <2>1, <2>3 DEF Sound
  <2>. QED
    BY <2>2, <2>3, <2>4 DEF Message
<1>. QED
  BY <1>1, Invariance, PTL

\* A client compares at NULL + 1 only for a reason: another client that pings
\* its node, a host with address zero, a routing message after an exit of its
\* routing daemon, or a socket that mipd closed before it took the client
\* (main of ping_client, at recv and strstr).
THEOREM CrashNeedsCause == Spec => []CrashHasCause
<1>1. IInv => CrashHasCause
  <2> SUFFICES ASSUME IInv, NEW c \in Client, phase[c] = "crash",
                      ~(read[c] = None /\ Node[c] \in closed /\ c \notin registered)
               PROVE  /\ read[c] # None
                      /\ \/ read[c].from = 0
                         \/ Foreign(c) /\ Node[c] \in exited
                         \/ /\ read[c].pongs = 0 /\ read[c].of \in Client \ {c}
                            /\ Target[read[c].of] = Node[c]
    BY DEF CrashHasCause
  <2> DEFINE m == read[c]
  <2>1. /\ m \in SoundAt(Node[c], exited) /\ Node[c] \in Addr
        /\ HasColon(m) => m.of = Routingd /\ m.pongs = 0
    BY ProgramFacts DEF IInv, ReadOK, ReadOKOf
  <2>2. m \in Message /\ m # None
    BY <2>1, SoundAtFacts, NoneAssumption
  <2>3. CASE Node[c] \in exited /\ m.of = Routingd /\ m.pongs = 0
    BY <2>2, <2>3 DEF Foreign
  <2>4. CASE m \in Sound /\ m.to = Node[c] /\ m.from # m.to
    <3>1. ~(m.of = Routingd /\ m.pongs = 0)
      BY <2>4 DEF Sound
    <3>2. m.from = 0 \/ m.pongs = 0
      BY <2>1, <2>2, <3>1, ProgramFacts DEF HasColon
    <3>3. m.pongs = 0 => /\ m.of \in Client /\ m.from = Node[m.of]
                         /\ Target[m.of] = Node[c]
      BY <2>2, <2>4, <3>1, ProgramFacts DEF Sound
    <3>4. m.pongs = 0 => m.of # c
      BY <2>4, <3>3
    <3>. QED
      BY <2>2, <3>2, <3>3, <3>4
  <2>. QED
    BY <2>1, <2>3, <2>4, SoundAtFacts
<1>. QED
  BY <1>1, Invariance, PTL
---------------------------------------------------------------------------
(* At most one copy of a text.                                             *)

HasText(box, c) == \E i \in 1..Len(box) : box[i].of = c
OnceIn(box, c) ==
    \A i, j \in 1..Len(box) : box[i].of = c /\ box[j].of = c => i = j

\* Where the text of c is.
PlacesIn(out, in, fly, c) ==
    {<<"outbox", p>> : p \in {q \in Program : HasText(out[q], c)}}
    \union {<<"inbox", p>> : p \in {q \in Program : HasText(in[q], c)}}
    \union {<<"flight", m>> : m \in {k \in fly : k.of = c}}
Places(c) == PlacesIn(outbox, inbox, flight, c)

TextOnce(c) ==
    /\ \A x, y \in Places(c) : x = y
    /\ \A p \in Program : OnceIn(outbox[p], c) /\ OnceIn(inbox[p], c)
    /\ phase[c] = "idle" => Places(c) = {}
TextInv == \A c \in Client : TextOnce(c)

LEMMA TailOnce ==
    ASSUME NEW box \in Seq(Message), box # <<>>, NEW c, OnceIn(box, c)
    PROVE  /\ OnceIn(Tail(box), c)
           /\ HasText(Tail(box), c) => HasText(box, c) /\ Head(box).of # c
           /\ Head(box).of = c => HasText(box, c)
<1>1. /\ Len(box) \in Nat /\ Len(box) >= 1 /\ Len(Tail(box)) = Len(box) - 1
      /\ Head(box) = box[1]
      /\ \A i \in 1..Len(Tail(box)) : i + 1 \in 1..Len(box) /\ Tail(box)[i] = box[i + 1]
  OBVIOUS
<1>2. 1 \in 1..Len(box)
  BY <1>1
<1>3. ASSUME NEW i \in 1..Len(Tail(box)), NEW j \in 1..Len(Tail(box)),
             Tail(box)[i].of = c, Tail(box)[j].of = c
      PROVE  i = j
  <2>1. i + 1 = j + 1
    BY <1>1, <1>3 DEF OnceIn
  <2>. QED
    BY <1>1, <2>1
<1>4. ASSUME NEW i \in 1..Len(Tail(box)), Tail(box)[i].of = c
      PROVE  HasText(box, c) /\ Head(box).of # c
  <2>1. i + 1 \in 1..Len(box) /\ box[i + 1].of = c /\ i + 1 # 1
    BY <1>1, <1>4
  <2>. QED
    BY <1>1, <1>2, <2>1 DEF HasText, OnceIn
<1>. QED
  BY <1>1, <1>2, <1>3, <1>4 DEF HasText, OnceIn

LEMMA AppendOnce ==
    ASSUME NEW box \in Seq(Message), NEW m \in Message, NEW c, OnceIn(box, c),
           m.of = c => ~HasText(box, c)
    PROVE  /\ OnceIn(Append(box, m), c)
           /\ HasText(Append(box, m), c) => HasText(box, c) \/ m.of = c
<1>1. /\ Len(box) \in Nat /\ Len(Append(box, m)) = Len(box) + 1
      /\ Append(box, m)[Len(box) + 1] = m
      /\ \A i \in 1..Len(box) : Append(box, m)[i] = box[i]
  OBVIOUS
<1>2. ASSUME NEW i \in 1..Len(Append(box, m)), Append(box, m)[i].of = c
      PROVE  \/ i \in 1..Len(box) /\ box[i].of = c
             \/ i = Len(box) + 1 /\ m.of = c
  BY <1>1, <1>2
<1>3. ASSUME NEW i \in 1..Len(Append(box, m)), NEW j \in 1..Len(Append(box, m)),
             Append(box, m)[i].of = c, Append(box, m)[j].of = c
      PROVE  i = j
  <2>1. CASE m.of = c
    <3>1. \A k \in 1..Len(box) : box[k].of # c
      BY <2>1 DEF HasText
    <3>. QED
      BY <1>2, <1>3, <3>1
  <2>2. CASE m.of # c
    <3>1. /\ i \in 1..Len(box) /\ box[i].of = c
          /\ j \in 1..Len(box) /\ box[j].of = c
      BY <1>2, <1>3, <2>2
    <3>. QED
      BY <3>1 DEF OnceIn
  <2>. QED
    BY <2>1, <2>2
<1>4. HasText(Append(box, m), c) => HasText(box, c) \/ m.of = c
  BY <1>2 DEF HasText
<1>. QED
  BY <1>3, <1>4 DEF OnceIn

LEMMA PlacesFacts ==
    ASSUME NEW out, NEW in, NEW fly, NEW c
    PROVE  LET S == PlacesIn(out, in, fly, c)
           IN  /\ \A p \in Program : <<"outbox", p>> \in S <=> HasText(out[p], c)
               /\ \A p \in Program : <<"inbox", p>> \in S <=> HasText(in[p], c)
               /\ \A m \in fly : <<"flight", m>> \in S <=> m.of = c
               /\ \A x \in S :
                      \/ \E p \in Program : x = <<"outbox", p>> /\ HasText(out[p], c)
                      \/ \E p \in Program : x = <<"inbox", p>> /\ HasText(in[p], c)
                      \/ \E m \in fly : x = <<"flight", m>> /\ m.of = c
<1>. QED
  BY DEF PlacesIn

\* A step that brings the text of c nowhere.
LEMMA TextStays ==
    ASSUME NEW c, TextOnce(c), phase'[c] = "idle" => phase[c] = "idle",
           \A p \in Program : /\ HasText(outbox'[p], c) => HasText(outbox[p], c)
                              /\ OnceIn(outbox'[p], c)
                              /\ HasText(inbox'[p], c) => HasText(inbox[p], c)
                              /\ OnceIn(inbox'[p], c),
           \A m \in flight' : m.of = c => m \in flight
    PROVE  TextOnce(c)'
<1>1. Places(c)' \subseteq Places(c)
  <2> SUFFICES ASSUME NEW x \in PlacesIn(outbox', inbox', flight', c)
               PROVE  x \in PlacesIn(outbox, inbox, flight, c)
    BY DEF Places
  <2>1. \/ \E p \in Program : x = <<"outbox", p>> /\ HasText(outbox'[p], c)
        \/ \E p \in Program : x = <<"inbox", p>> /\ HasText(inbox'[p], c)
        \/ \E m \in flight' : x = <<"flight", m>> /\ m.of = c
    BY PlacesFacts
  <2>2. \/ \E p \in Program : x = <<"outbox", p>> /\ HasText(outbox[p], c)
        \/ \E p \in Program : x = <<"inbox", p>> /\ HasText(inbox[p], c)
        \/ \E m \in flight : x = <<"flight", m>> /\ m.of = c
    BY <2>1
  <2>. QED
    BY <2>2, PlacesFacts
<1>. QED
  BY <1>1 DEF TextOnce

\* A step that takes the text of c from x, its only place, to y, if anywhere.
LEMMA TextMoves ==
    ASSUME NEW c, TextOnce(c), NEW x \in Places(c), NEW y, UNCHANGED phase,
           \A z \in Places(c)' : z = y \/ (z # x /\ z \in Places(c)),
           \A p \in Program : OnceIn(outbox'[p], c) /\ OnceIn(inbox'[p], c)
    PROVE  TextOnce(c)'
<1>1. \A z \in Places(c)' : z = y
  BY DEF TextOnce
<1>2. phase'[c] # "idle"
  BY DEF TextOnce
<1>. QED
  BY <1>1, <1>2 DEF TextOnce
---------------------------------------------------------------------------
LEMMA InitText == Init => TextInv
<1> SUFFICES ASSUME Init, NEW c \in Client PROVE TextOnce(c)
  BY DEF TextInv
<1>1. \A p \in Program : outbox[p] = <<>> /\ inbox[p] = <<>>
  BY DEF Init
<1>2. Len(<<>>) = 0
  OBVIOUS
<1>3. \A p \in Program : /\ ~HasText(outbox[p], c) /\ ~HasText(inbox[p], c)
                         /\ OnceIn(outbox[p], c) /\ OnceIn(inbox[p], c)
  BY <1>1, <1>2 DEF HasText, OnceIn
<1>4. Places(c) = {}
  BY <1>3, PlacesFacts DEF Places, Init
<1>. QED
  BY <1>3, <1>4 DEF TextOnce

LEMMA QuietText ==
    ASSUME TextInv, UNCHANGED <<outbox, inbox, flight>>,
           \A c \in Client : phase'[c] = "idle" => phase[c] = "idle"
    PROVE  TextInv'
<1> SUFFICES ASSUME NEW c \in Client PROVE TextOnce(c)'
  BY DEF TextInv
<1>1. TextOnce(c) /\ outbox' = outbox /\ inbox' = inbox /\ flight' = flight
  BY DEF TextInv
<1>2. \A p \in Program : OnceIn(outbox[p], c) /\ OnceIn(inbox[p], c)
  BY <1>1 DEF TextOnce
<1>. QED
  BY <1>1, <1>2, TextStays

\* A program is handed a message that is not the text of c.
LEMMA HandedOther ==
    ASSUME IInv, NEW p, NEW m \in Message, NEW c \in Client, m.of # c,
           \A q \in Program : OnceIn(inbox[q], c)
    PROVE  \A q \in Program : /\ OnceIn(Handed(p, m)[q], c)
                              /\ HasText(Handed(p, m)[q], c) => HasText(inbox[q], c)
<1>1. CASE Reads(p)
  <2>1. /\ p \in Program /\ m \in Message
        /\ Handed(p, m) = [inbox EXCEPT ![p] = Append(inbox[p], m)]
    BY <1>1 DEF Reads, Handed
  <2>2. inbox \in [Program -> Seq(Message)]
    BY DEF IInv, TypeOK
  <2> DEFINE b == Append(inbox[p], m)
  <2>3. OnceIn(b, c) /\ (HasText(b, c) => HasText(inbox[p], c))
    BY <2>1, <2>2, AppendOnce
  <2>4. Handed(p, m)[p] = b /\ \A q \in Program : q # p => Handed(p, m)[q] = inbox[q]
    BY <2>1, <2>2
  <2> HIDE DEF b
  <2>. QED
    BY <2>3, <2>4
<1>2. CASE ~Reads(p)
  BY <1>2 DEF Handed
<1>. QED
  BY <1>1, <1>2

\* A routing message brings no text.
LEMMA StrayText ==
    ASSUME IInv, TextInv, NEW n \in Addr, StrayMessage(n) PROVE TextInv'
<1>1. PICK m \in Near[n] \union {n} :
          inbox' = Handed(routing_usd[n], RoutingMessage(n, m))
  BY DEF StrayMessage
<1>2. phase' = phase /\ outbox' = outbox /\ flight' = flight
  BY DEF StrayMessage
<1>3. m \in Addr
  BY DaemonAssumption
<1> SUFFICES ASSUME NEW c \in Client PROVE TextOnce(c)'
  BY DEF TextInv
<1>4. /\ TextOnce(c)
      /\ \A q \in Program : OnceIn(outbox[q], c) /\ OnceIn(inbox[q], c)
  BY DEF TextInv, TextOnce
<1>5. \A q \in Program : /\ OnceIn(inbox'[q], c)
                         /\ HasText(inbox'[q], c) => HasText(inbox[q], c)
  <2>1. RoutingMessage(n, m) \in Message /\ RoutingMessage(n, m).of # c
    BY <1>3, RoutingMessageFacts, ProgramFacts
  <2> DEFINE u == routing_usd[n]
             k == RoutingMessage(n, m)
  <2>2. inbox' = Handed(u, k) /\ k \in Message /\ k.of # c
    BY <1>1, <2>1
  <2> HIDE DEF u, k
  <2>. QED
    BY <1>4, <2>2, HandedOther
<1>. QED
  BY <1>2, <1>4, <1>5, TextStays

LEMMA TakeMessageText ==
    ASSUME IInv, TextInv, NEW p \in Program, TakeMessage(p) PROVE TextInv'
<1> DEFINE m == Head(outbox[p])
           b == Tail(outbox[p])
<1>1. /\ outbox[p] \in Seq(Message) /\ outbox[p] # <<>>
      /\ \A q \in Program : q # p => outbox'[q] = outbox[q]
      /\ outbox'[p] = b /\ phase' = phase
      /\ flight' \subseteq flight \union {m}
      /\ inbox' = Handed(routing_usd[Node[p]], RoutingMessage(Node[p], Node[p]))
  BY DEF IInv, TypeOK, TakeMessage
<1> SUFFICES ASSUME NEW c \in Client PROVE TextOnce(c)'
  BY DEF TextInv
<1>2. /\ TextOnce(c)
      /\ \A q \in Program : OnceIn(outbox[q], c) /\ OnceIn(inbox[q], c)
  BY DEF TextInv, TextOnce
<1>3. /\ OnceIn(b, c) /\ (HasText(b, c) => HasText(outbox[p], c) /\ m.of # c)
      /\ m.of = c => HasText(outbox[p], c)
  BY <1>1, <1>2, TailOnce
<1> HIDE DEF m, b
<1>4. \A q \in Program : /\ OnceIn(inbox'[q], c)
                         /\ HasText(inbox'[q], c) => HasText(inbox[q], c)
  <2>1. /\ RoutingMessage(Node[p], Node[p]) \in Message
        /\ RoutingMessage(Node[p], Node[p]).of # c
    BY RoutingMessageFacts, ProgramFacts
  <2> DEFINE u == routing_usd[Node[p]]
             k == RoutingMessage(Node[p], Node[p])
  <2>2. inbox' = Handed(u, k) /\ k \in Message /\ k.of # c
    BY <1>1, <2>1
  <2> HIDE DEF u, k
  <2>. QED
    BY <1>2, <2>2, HandedOther
<1>5. \A q \in Program : /\ OnceIn(outbox'[q], c)
                         /\ HasText(outbox'[q], c) => HasText(outbox[q], c)
  BY <1>1, <1>2, <1>3
<1>6. CASE m.of # c
  <2>1. \A k \in flight' : k.of = c => k \in flight
    BY <1>1, <1>6
  <2>. QED
    BY <1>1, <1>2, <1>4, <1>5, <2>1, TextStays
<1>7. CASE m.of = c
  <2>1. <<"outbox", p>> \in Places(c)
    BY <1>3, <1>7, PlacesFacts DEF Places
  <2>2. ASSUME NEW z \in Places(c)'
        PROVE  z = <<"flight", m>> \/ (z # <<"outbox", p>> /\ z \in Places(c))
    <3>1. \/ \E q \in Program : z = <<"outbox", q>> /\ HasText(outbox'[q], c)
          \/ \E q \in Program : z = <<"inbox", q>> /\ HasText(inbox'[q], c)
          \/ \E k \in flight' : z = <<"flight", k>> /\ k.of = c
      BY PlacesFacts DEF Places
    <3>2. CASE \E q \in Program : z = <<"outbox", q>> /\ HasText(outbox'[q], c)
      <4>1. PICK q \in Program : z = <<"outbox", q>> /\ HasText(outbox'[q], c)
        BY <3>2
      <4>2. q # p
        BY <1>1, <1>3, <1>7, <4>1
      <4>. QED
        BY <1>5, <4>1, <4>2, PlacesFacts DEF Places
    <3>3. CASE \E q \in Program : z = <<"inbox", q>> /\ HasText(inbox'[q], c)
      BY <1>4, <3>3, PlacesFacts DEF Places
    <3>4. CASE \E k \in flight' : z = <<"flight", k>> /\ k.of = c
      BY <1>1, <3>4, PlacesFacts DEF Places
    <3>. QED
      BY <3>1, <3>2, <3>3, <3>4
  <2>. QED
    BY <1>1, <1>2, <1>4, <1>5, <2>1, <2>2, TextMoves
<1>. QED
  BY <1>6, <1>7

LEMMA DeliverText ==
    ASSUME IInv, TextInv, NEW d \in Client \union {Routingd}, Deliver(d)
    PROVE  TextInv'
<1>1. PICK m \in flight : /\ flight' = flight \ {m}
                          /\ inbox' = Handed(ping_usd[m.to], m)
                          /\ phase' = phase /\ outbox' = outbox
  BY DEF Deliver
<1> SUFFICES ASSUME NEW c \in Client PROVE TextOnce(c)'
  BY DEF TextInv
<1>2. /\ TextOnce(c)
      /\ \A q \in Program : OnceIn(outbox[q], c) /\ OnceIn(inbox[q], c)
  BY DEF TextInv, TextOnce
<1>3. m \in Message
  BY DEF IInv, TypeOK
<1>4. CASE inbox' = inbox
  BY <1>1, <1>2, <1>4, TextStays
<1>5. CASE m.of # c
  <2>1. \A q \in Program : /\ OnceIn(inbox'[q], c)
                           /\ HasText(inbox'[q], c) => HasText(inbox[q], c)
    <3> DEFINE u == ping_usd[m.to]
    <3>1. inbox' = Handed(u, m)
      BY <1>1
    <3> HIDE DEF u
    <3>. QED
      BY <1>2, <1>3, <1>5, <3>1, HandedOther
  <2>. QED
    BY <1>1, <1>2, <2>1, TextStays
<1>6. CASE inbox' # inbox /\ m.of = c
  <2> DEFINE p == ping_usd[m.to]
             b == Append(inbox[p], m)
  <2>1. p \in Program /\ inbox' = [inbox EXCEPT ![p] = b]
    BY <1>1, <1>6 DEF Handed, Reads
  <2>2. inbox[p] \in Seq(Message)
    BY <2>1 DEF IInv, TypeOK
  <2>3. inbox'[p] = b /\ \A q \in Program : q # p => inbox'[q] = inbox[q]
    BY <2>1 DEF IInv, TypeOK
  <2>4. /\ <<"flight", m>> \in Places(c)
        /\ \A q \in Program : ~HasText(inbox[q], c)
    <3>1. <<"flight", m>> \in Places(c)
      BY <1>6, PlacesFacts DEF Places
    <3>2. ASSUME NEW q \in Program, HasText(inbox[q], c) PROVE FALSE
      <4>1. <<"inbox", q>> \in Places(c)
        BY <3>2, PlacesFacts DEF Places
      <4>2. <<"inbox", q>> = <<"flight", m>>
        BY <1>2, <3>1, <4>1 DEF TextOnce
      <4>. QED
        BY <4>2
    <3>. QED
      BY <3>1, <3>2
  <2>5. OnceIn(b, c)
    BY <1>2, <1>3, <2>1, <2>2, <2>4, AppendOnce
  <2> HIDE DEF p, b
  <2>6. \A q \in Program : OnceIn(outbox'[q], c) /\ OnceIn(inbox'[q], c)
    BY <1>1, <1>2, <2>3, <2>5
  <2>7. ASSUME NEW z \in Places(c)'
        PROVE  z = <<"inbox", p>> \/ (z # <<"flight", m>> /\ z \in Places(c))
    <3>1. \/ \E q \in Program : z = <<"outbox", q>> /\ HasText(outbox'[q], c)
          \/ \E q \in Program : z = <<"inbox", q>> /\ HasText(inbox'[q], c)
          \/ \E k \in flight' : z = <<"flight", k>> /\ k.of = c
      BY PlacesFacts DEF Places
    <3>2. CASE \E q \in Program : z = <<"outbox", q>> /\ HasText(outbox'[q], c)
      BY <1>1, <3>2, PlacesFacts DEF Places
    <3>3. CASE \E q \in Program : z = <<"inbox", q>> /\ HasText(inbox'[q], c)
      BY <2>3, <2>4, <3>3
    <3>4. CASE \E k \in flight' : z = <<"flight", k>> /\ k.of = c
      BY <1>1, <3>4, PlacesFacts DEF Places
    <3>. QED
      BY <3>1, <3>2, <3>3, <3>4
  <2>. QED
    BY <1>1, <1>2, <2>4, <2>6, <2>7, TextMoves
<1>. QED
  BY <1>4, <1>5, <1>6

LEMMA LoseText ==
    ASSUME TextInv, NEW d \in Client \union {Routingd}, Lose(d) PROVE TextInv'
<1> SUFFICES ASSUME NEW c \in Client PROVE TextOnce(c)'
  BY DEF TextInv
<1>1. flight' \subseteq flight /\ outbox' = outbox /\ inbox' = inbox /\ phase' = phase
  BY DEF Lose
<1>2. /\ TextOnce(c)
      /\ \A q \in Program : OnceIn(outbox[q], c) /\ OnceIn(inbox[q], c)
  BY DEF TextInv, TextOnce
<1>. QED
  BY <1>1, <1>2, TextStays

LEMMA StartClientText ==
    ASSUME IInv, TextInv, NEW d \in Client, StartClient(d) PROVE TextInv'
<1> DEFINE m == [from |-> Node[d], to |-> Target[d], of |-> d, pongs |-> 0]
<1>1. /\ d \in Program /\ phase[d] = "idle" /\ phase' = [phase EXCEPT ![d] = "running"]
      /\ outbox' = [outbox EXCEPT ![d] = <<m>>]
      /\ inbox' = inbox /\ flight' = flight /\ m.of = d
  BY ProgramFacts DEF StartClient
<1> HIDE DEF m
<1>2. /\ phase'[d] = "running" /\ outbox'[d] = <<m>>
      /\ \A q \in Program : q # d => phase'[q] = phase[q] /\ outbox'[q] = outbox[q]
  BY <1>1 DEF IInv, TypeOK
<1> SUFFICES ASSUME NEW c \in Client PROVE TextOnce(c)'
  BY DEF TextInv
<1>3. /\ TextOnce(c) /\ c \in Program
      /\ \A q \in Program : OnceIn(outbox[q], c) /\ OnceIn(inbox[q], c)
  BY ProgramFacts DEF TextInv, TextOnce
<1>4. OnceIn(<<m>>, c) /\ (HasText(<<m>>, c) => d = c)
  <2>1. Len(<<m>>) = 1 /\ <<m>>[1] = m
    OBVIOUS
  <2>2. \A i \in 1..1 : i = 1
    OBVIOUS
  <2>. QED
    BY <1>1, <2>1, <2>2 DEF OnceIn, HasText
<1>5. \A q \in Program : OnceIn(outbox'[q], c) /\ OnceIn(inbox'[q], c)
  BY <1>1, <1>2, <1>3, <1>4
<1>6. CASE c # d
  <2>1. /\ phase'[c] = phase[c]
        /\ \A q \in Program : HasText(outbox'[q], c) => HasText(outbox[q], c)
    BY <1>2, <1>3, <1>4, <1>6
  <2>. QED
    BY <1>1, <1>3, <1>5, <2>1, TextStays
<1>7. CASE c = d
  <2>1. Places(c) = {}
    BY <1>1, <1>3, <1>7 DEF TextOnce
  <2>2. /\ \A q \in Program : ~HasText(outbox[q], c) /\ ~HasText(inbox[q], c)
        /\ \A k \in flight : k.of # c
    BY <2>1, PlacesFacts DEF Places
  <2>3. ASSUME NEW z \in Places(c)' PROVE z = <<"outbox", d>>
    <3>1. \/ \E q \in Program : z = <<"outbox", q>> /\ HasText(outbox'[q], c)
          \/ \E q \in Program : z = <<"inbox", q>> /\ HasText(inbox'[q], c)
          \/ \E k \in flight' : z = <<"flight", k>> /\ k.of = c
      BY PlacesFacts DEF Places
    <3>. QED
      BY <1>1, <1>2, <2>2, <3>1
  <2>4. phase'[c] # "idle"
    BY <1>2, <1>7
  <2>. QED
    BY <1>5, <2>3, <2>4 DEF TextOnce
<1>. QED
  BY <1>6, <1>7

\* A client that ends drops what it has not read.
LEMMA EndText ==
    ASSUME IInv, TextInv, NEW d \in Client, ReadPong(d) \/ Timeout(d) PROVE TextInv'
<1>1. /\ d \in Program /\ inbox' = [inbox EXCEPT ![d] = <<>>]
      /\ outbox' = outbox /\ flight' = flight
      /\ \A c \in Client : phase'[c] = "idle" => phase[c] = "idle"
  <2>1. PICK end \in Ended : phase' = [phase EXCEPT ![d] = end]
    BY DEF ReadPong, Timeout, Outcomes, Ended
  <2>. QED
    BY <2>1, ProgramFacts DEF IInv, TypeOK, ReadPong, Timeout, Ended
<1>2. inbox'[d] = <<>> /\ \A q \in Program : q # d => inbox'[q] = inbox[q]
  BY <1>1 DEF IInv, TypeOK
<1> SUFFICES ASSUME NEW c \in Client PROVE TextOnce(c)'
  BY DEF TextInv
<1>3. /\ TextOnce(c)
      /\ \A q \in Program : OnceIn(outbox[q], c) /\ OnceIn(inbox[q], c)
  BY DEF TextInv, TextOnce
<1>4. OnceIn(<<>>, c) /\ ~HasText(<<>>, c)
  <2>1. 1..Len(<<>>) = {}
    OBVIOUS
  <2>. QED
    BY <2>1 DEF OnceIn, HasText
<1>5. \A q \in Program : /\ OnceIn(inbox'[q], c)
                         /\ HasText(inbox'[q], c) => HasText(inbox[q], c)
  BY <1>2, <1>3, <1>4
<1>. QED
  BY <1>1, <1>3, <1>5, TextStays

\* The answer has the text that was taken.
LEMMA AnswerText ==
    ASSUME IInv, TextInv, NEW s \in Server, Answer(s) PROVE TextInv'
<1> DEFINE m == Head(inbox[s])
           r == Reply(s, m)
           b == Tail(inbox[s])
           a == Append(outbox[s], r)
<1>1. /\ s \in Program /\ inbox[s] # <<>>
      /\ inbox[s] \in Seq(Message) /\ inbox[s] \in Seq(SoundAt(Node[s], exited))
      /\ outbox[s] \in Seq(Message)
  BY ProgramFacts DEF IInv, TypeOK, InboxOK, Answer
<1>2. /\ inbox' = [inbox EXCEPT ![s] = b] /\ outbox' = [outbox EXCEPT ![s] = a]
      /\ flight' = flight /\ phase' = phase
  BY DEF Answer, Received
<1>3. m \in SoundAt(Node[s], exited)
  BY <1>1, HeadTail
<1>4. r \in Message /\ r.of = m.of
  BY <1>3, ReplyIsSound DEF Reply
<1> SUFFICES ASSUME NEW c \in Client PROVE TextOnce(c)'
  BY DEF TextInv
<1>5. /\ TextOnce(c)
      /\ \A q \in Program : OnceIn(outbox[q], c) /\ OnceIn(inbox[q], c)
  BY DEF TextInv, TextOnce
<1>6. /\ OnceIn(b, c) /\ (HasText(b, c) => HasText(inbox[s], c) /\ m.of # c)
      /\ m.of = c => HasText(inbox[s], c)
  BY <1>1, <1>5, TailOnce
<1> HIDE DEF m, b
<1>7. m.of = c => <<"inbox", s>> \in Places(c) /\ ~HasText(outbox[s], c)
  <2> SUFFICES ASSUME m.of = c
               PROVE  <<"inbox", s>> \in Places(c) /\ ~HasText(outbox[s], c)
    OBVIOUS
  <2>1. <<"inbox", s>> \in Places(c)
    BY <1>1, <1>6, PlacesFacts DEF Places
  <2>2. ASSUME HasText(outbox[s], c) PROVE FALSE
    <3>1. <<"outbox", s>> \in Places(c)
      BY <1>1, <2>2, PlacesFacts DEF Places
    <3>2. <<"outbox", s>> = <<"inbox", s>>
      BY <1>5, <2>1, <3>1 DEF TextOnce
    <3>. QED
      BY <3>2
  <2>. QED
    BY <2>1, <2>2
<1> HIDE DEF r
<1>8. OnceIn(a, c) /\ (HasText(a, c) => HasText(outbox[s], c) \/ m.of = c)
  BY <1>1, <1>4, <1>5, <1>7, AppendOnce
<1> HIDE DEF a
<1>9. /\ inbox'[s] = b /\ outbox'[s] = a
      /\ \A q \in Program : q # s => inbox'[q] = inbox[q] /\ outbox'[q] = outbox[q]
  BY <1>1, <1>2 DEF IInv, TypeOK
<1>10. \A q \in Program : OnceIn(outbox'[q], c) /\ OnceIn(inbox'[q], c)
  BY <1>5, <1>6, <1>8, <1>9
<1>11. CASE m.of # c
  <2>1. \A q \in Program : /\ HasText(outbox'[q], c) => HasText(outbox[q], c)
                           /\ HasText(inbox'[q], c) => HasText(inbox[q], c)
    BY <1>6, <1>8, <1>9, <1>11
  <2>. QED
    BY <1>2, <1>5, <1>10, <2>1, TextStays
<1>12. CASE m.of = c
  <2>1. ASSUME NEW z \in Places(c)'
        PROVE  z = <<"outbox", s>> \/ (z # <<"inbox", s>> /\ z \in Places(c))
    <3>1. \/ \E q \in Program : z = <<"outbox", q>> /\ HasText(outbox'[q], c)
          \/ \E q \in Program : z = <<"inbox", q>> /\ HasText(inbox'[q], c)
          \/ \E k \in flight' : z = <<"flight", k>> /\ k.of = c
      BY PlacesFacts DEF Places
    <3>2. CASE \E q \in Program : z = <<"outbox", q>> /\ HasText(outbox'[q], c)
      BY <1>9, <3>2, PlacesFacts DEF Places
    <3>3. CASE \E q \in Program : z = <<"inbox", q>> /\ HasText(inbox'[q], c)
      <4>1. PICK q \in Program : z = <<"inbox", q>> /\ HasText(inbox'[q], c)
        BY <3>3
      <4>2. q # s
        BY <1>6, <1>9, <1>12, <4>1
      <4>. QED
        BY <1>9, <4>1, <4>2, PlacesFacts DEF Places
    <3>4. CASE \E k \in flight' : z = <<"flight", k>> /\ k.of = c
      BY <1>2, <3>4, PlacesFacts DEF Places
    <3>. QED
      BY <3>1, <3>2, <3>3, <3>4
  <2>. QED
    BY <1>2, <1>5, <1>7, <1>10, <1>12, <2>1, TextMoves
<1>. QED
  BY <1>11, <1>12

LEMMA StepText == ASSUME IInv, TextInv, [Next]_vars PROVE TextInv'
<1>1. ASSUME NEW p \in Program, Register(p) PROVE TextInv'
  BY <1>1, QuietText DEF Register
<1>3. ASSUME NEW n \in Addr, RoutingdExit(n) \/ RoutingdConnect(n) \/ CloseListener(n)
      PROVE  TextInv'
  BY <1>3, QuietText DEF RoutingdExit, RoutingdConnect, CloseListener
<1>2. ASSUME NEW s \in Server, StartServer(s) PROVE TextInv'
  <2>1. \A c \in Client : phase'[c] = phase[c]
    BY <1>2, ProgramFacts DEF StartServer, IInv, TypeOK
  <2>. QED
    BY <1>2, <2>1, QuietText DEF StartServer
<1>4. CASE UNCHANGED vars
  BY <1>4, QuietText DEF vars
<1>. QED
  BY <1>1, <1>2, <1>3, <1>4, TakeMessageText, DeliverText, LoseText,
     StartClientText, EndText, AnswerText, StrayText DEF Next

LEMMA AtMostOne ==
    ASSUME NEW S, \A u, v \in S : u = v
    PROVE  Cardinality(S) = IF S = {} THEN 0 ELSE 1
<1>1. CASE S = {}
  BY <1>1, FS_EmptySet
<1>2. CASE S # {}
  <2>1. PICK u : S = {u}
    BY <1>2
  <2>. QED
    BY <1>2, <2>1, FS_Singleton
<1>. QED
  BY <1>1, <1>2

\* Servers that answer each other's answers, clients that are handed foreign
\* messages and daemons that forget a program make no second copy of a text
\* (main of ping_server, send_ping_message).
THEOREM NeverTwo == Spec => []OneCopy
<1>1. IInv /\ TextInv => OneCopy
  <2> SUFFICES ASSUME IInv, TextInv, NEW c \in Client PROVE Copies(c) <= 1
    BY DEF OneCopy
  <2> DEFINE O == Queued(outbox, c)
             I == Queued(inbox, c)
             F == Flying(c)
  <2>1. /\ \A x, y \in Places(c) : x = y
        /\ \A p \in Program : OnceIn(outbox[p], c) /\ OnceIn(inbox[p], c)
    BY DEF TextInv, TextOnce
  <2>2. \A p \in Program : /\ DOMAIN outbox[p] = 1..Len(outbox[p])
                           /\ DOMAIN inbox[p] = 1..Len(inbox[p])
    BY DEF IInv, TypeOK
  <2>3. \A u \in O : \E p \in Program : \E i \in 1..Len(outbox[p]) :
            u = <<p, i>> /\ outbox[p][i].of = c /\ <<"outbox", p>> \in Places(c)
    BY <2>2, PlacesFacts DEF Queued, Places, HasText
  <2>4. \A u \in I : \E p \in Program : \E i \in 1..Len(inbox[p]) :
            u = <<p, i>> /\ inbox[p][i].of = c /\ <<"inbox", p>> \in Places(c)
    BY <2>2, PlacesFacts DEF Queued, Places, HasText
  <2>5. \A m \in F : <<"flight", m>> \in Places(c)
    BY PlacesFacts DEF Flying, Places
  <2> HIDE DEF O, I, F
  <2>6. ASSUME NEW u \in O, NEW v \in O PROVE u = v
    <3>1. PICK p \in Program :
              \E i \in 1..Len(outbox[p]) : /\ u = <<p, i>> /\ outbox[p][i].of = c
                                        /\ <<"outbox", p>> \in Places(c)
      BY <2>3
    <3>2. PICK q \in Program :
              \E j \in 1..Len(outbox[q]) : /\ v = <<q, j>> /\ outbox[q][j].of = c
                                        /\ <<"outbox", q>> \in Places(c)
      BY <2>3
    <3>3. <<"outbox", p>> = <<"outbox", q>>
      BY <2>1, <3>1, <3>2
    <3>4. p = q /\ OnceIn(outbox[p], c)
      BY <2>1, <3>3
    <3>. QED
      BY <3>1, <3>2, <3>4 DEF OnceIn
  <2>7. ASSUME NEW u \in I, NEW v \in I PROVE u = v
    <3>1. PICK p \in Program :
              \E i \in 1..Len(inbox[p]) : /\ u = <<p, i>> /\ inbox[p][i].of = c
                                        /\ <<"inbox", p>> \in Places(c)
      BY <2>4
    <3>2. PICK q \in Program :
              \E j \in 1..Len(inbox[q]) : /\ v = <<q, j>> /\ inbox[q][j].of = c
                                        /\ <<"inbox", q>> \in Places(c)
      BY <2>4
    <3>3. <<"inbox", p>> = <<"inbox", q>>
      BY <2>1, <3>1, <3>2
    <3>4. p = q /\ OnceIn(inbox[p], c)
      BY <2>1, <3>3
    <3>. QED
      BY <3>1, <3>2, <3>4 DEF OnceIn
  <2>8. \A u, v \in F : u = v
    <3> SUFFICES ASSUME NEW u \in F, NEW v \in F PROVE u = v
      OBVIOUS
    <3>1. <<"flight", u>> = <<"flight", v>>
      BY <2>1, <2>5
    <3>. QED
      BY <3>1
  <2>9. /\ O = {} \/ I = {}
        /\ O = {} \/ F = {}
        /\ I = {} \/ F = {}
    <3>1. \A p, q : /\ <<"outbox", p>> # <<"inbox", q>>
                    /\ <<"outbox", p>> # <<"flight", q>>
                    /\ <<"inbox", p>> # <<"flight", q>>
      OBVIOUS
    <3>2. ASSUME NEW u \in O, NEW v \in I PROVE FALSE
      <4>1. PICK p \in Program : <<"outbox", p>> \in Places(c)
        BY <2>3
      <4>2. PICK q \in Program : <<"inbox", q>> \in Places(c)
        BY <2>4
      <4>. QED
        BY <2>1, <3>1, <4>1, <4>2
    <3>3. O = {} \/ F = {}
      BY <2>1, <2>3, <2>5, <3>1
    <3>4. I = {} \/ F = {}
      BY <2>1, <2>4, <2>5, <3>1
    <3>5. O = {} \/ I = {}
      BY <3>2
    <3>. QED
      BY <3>3, <3>4, <3>5
  <2>10. /\ Cardinality(O) = IF O = {} THEN 0 ELSE 1
         /\ Cardinality(I) = IF I = {} THEN 0 ELSE 1
         /\ Cardinality(F) = IF F = {} THEN 0 ELSE 1
    BY <2>6, <2>7, <2>8, AtMostOne
  <2>11. Copies(c) = Cardinality(O) + Cardinality(I) + Cardinality(F)
    BY DEF Copies, O, I, F
  <2>. QED
    BY <2>9, <2>10, <2>11
<1>. QED
  BY <1>1, InitIInv, StepIInv, InitText, StepText, PTL DEF Spec
=============================================================================

-------------------------------- MODULE Ping --------------------------------
(***************************************************************************)
(* The ping programs.  A client sends one text to a host and waits a       *)
(* second for the answer; a server answers whatever it is handed with      *)
(* PONG: in front, to the host that it came from.                          *)
(*                                                                         *)
(* Nothing but the text ties an answer to a client: mipd hands what        *)
(* arrives for ping to the program of its node that registered last,       *)
(* client or server, and forgets the others.  A client sends its text      *)
(* without a mark that it is a PING.                                       *)
(*                                                                         *)
(* Two things of mipd reach the ping programs.  When the routing daemon of *)
(* a node exits, its descriptor may be given to a ping program, which then *)
(* is handed the messages that are meant for routing.  And mipd may close  *)
(* the socket it listens on, with programs in the line.                    *)
(*                                                                         *)
(* The network between two nodes is what Relay.tla promises: a message     *)
(* arrives at most once, in any order, or is lost.                         *)
(***************************************************************************)
EXTENDS Integers, FiniteSets, SequencesExt

CONSTANTS
    Addr,            \* MIP addresses of the nodes
    Client, Server,  \* the ping programs, each started at most once
    Node,            \* the node on which a program runs
    Target,          \* the host that a client pings
    Text,            \* what it sends: none begins another one, PONG: or a
                     \* routing message, and none has a colon in it
    Punctual,        \* clients whose messages come in time and are not lost
    Exiting,         \* the nodes whose routing daemon may exit, once
    Closing,         \* the nodes that may close the socket they listen on
    Near,            \* Near[n]: whose routing messages reach n
    MaxStarted,      \* bound: clients that are started
    MaxStrays,       \* bound: routing messages with programs or in answers
    Routingd,        \* a routing daemon
    None             \* no program, no message

Program == Client \union Server

ASSUME ProgramAssumption ==
    /\ Client \intersect Server = {} /\ {None, Routingd} \intersect Program = {}
    /\ None # Routingd
    /\ Node \in [Program -> Addr]
    /\ Target \in [Client -> Addr]
    /\ DOMAIN Text = Client
    /\ Punctual \subseteq Client
ASSUME DaemonAssumption ==
    /\ Exiting \subseteq Addr /\ Closing \subseteq Addr
    /\ Near \in [Addr -> SUBSET Addr]

\* A text with pongs times PONG: in front; 2 stands for all greater numbers.
\* What mipd adds is the address of the sender.  A routing message is one of
\* Routingd, and is a request for a route when it is from the node it is at.
Message == [from : Addr, to : Addr, of : Client \union {Routingd}, pongs : 0..2]
RoutingMessage(n, m) == [from |-> m, to |-> n, of |-> Routingd, pongs |-> 0]
ASSUME NoneAssumption == None \notin Message

VARIABLES
    phase,       \* phase[p]: idle, running, or how a client has ended
    registered,  \* the programs that mipd has accepted
    ping_usd,    \* ping_usd[n]: the program that mipd of n hands messages to
    routing_usd, \* routing_usd[n]: the one it hands routing messages to
    exited,      \* the nodes whose routing daemon has exited (not in the code)
    closed,      \* the nodes that do not listen for programs any more
    outbox,      \* outbox[p]: what p has sent and mipd has not read yet
    inbox,       \* inbox[p]: what p has been sent and has not read yet
    flight,      \* messages that are between nodes
    read         \* read[c]: the message that client c has read

daemons == <<routing_usd, exited, closed>>

vars == <<phase, registered, ping_usd, routing_usd, exited, closed, outbox, inbox,
          flight, read>>

Ended == {"match", "mismatch", "crash", "timeout"}

TypeOK ==
    /\ phase \in [Program -> {"idle", "running"} \union Ended]
    /\ registered \in SUBSET Program
    /\ ping_usd \in [Addr -> Program \union {None}]
    /\ routing_usd \in [Addr -> Program \union {Routingd, None}]
    /\ exited \in SUBSET Addr /\ closed \in SUBSET Addr
    /\ outbox \in [Program -> Seq(Message)]
    /\ inbox \in [Program -> Seq(Message)]
    /\ flight \in SUBSET Message
    /\ read \in [Client -> Message \union {None}]

\* ping_usd is not initialised in the code; until a ping program registers it
\* leads to none, whatever it holds.
Init ==
    /\ phase = [p \in Program |-> "idle"]
    /\ registered = {}
    /\ ping_usd = [n \in Addr |-> None]
    /\ routing_usd = [n \in Addr |-> Routingd]
    /\ exited = {} /\ closed = {}
    /\ outbox = [p \in Program |-> <<>>]
    /\ inbox = [p \in Program |-> <<>>]
    /\ flight = {}
    /\ read = [c \in Client |-> None]

\* Where the text of c is.
Queued(boxes, c) ==
    UNION {{p} \X {i \in DOMAIN boxes[p] : boxes[p][i].of = c} : p \in Program}
Flying(c) == {m \in flight : m.of = c}
Copies(c) == Cardinality(Queued(outbox, c)) + Cardinality(Queued(inbox, c))
             + Cardinality(Flying(c))
---------------------------------------------------------------------------
(* The daemons.                                                            *)

\* What the descriptor led to is gone, and mipd has read it to its end.
Unused(n) ==
    \/ routing_usd[n] = None
    \/ /\ routing_usd[n] \in Client
       /\ phase[routing_usd[n]] \in Ended /\ outbox[routing_usd[n]] = <<>>

\* mipd accepts p and learns that it is a ping program.  The kernel may give
\* it the descriptor of the routing daemon, which mipd goes on using.
Register(p) ==
    /\ phase[p] # "idle" /\ p \notin registered /\ Node[p] \notin closed
    /\ registered' = registered \union {p}
    /\ ping_usd' = [ping_usd EXCEPT ![Node[p]] = p]
    /\ \/ UNCHANGED routing_usd
       \/ /\ Unused(Node[p])
          /\ routing_usd' = [routing_usd EXCEPT ![Node[p]] = p]
    /\ UNCHANGED <<phase, exited, closed, outbox, inbox, flight, read>>

\* send_usd_message, which ignores that nobody is there.
Reads(p) == p \in Program /\ phase[p] = "running"
Handed(p, m) == IF Reads(p) THEN [inbox EXCEPT ![p] = Append(@, m)] ELSE inbox

\* mipd reads what p has sent, even if p has ended, and asks for a route.  It
\* has none to its own node.  What a ping program is asked is not answered:
\* the message waits for another routing daemon, or for ever.
TakeMessage(p) ==
    /\ p \in registered
    /\ outbox[p] # <<>>
    /\ Reads(routing_usd[Node[p]]) =>
           Copies(Routingd) < IF Head(outbox[p]).of = Routingd
                              THEN MaxStrays + 1 ELSE MaxStrays
    /\ outbox' = [outbox EXCEPT ![p] = Tail(@)]
    /\ LET m == Head(outbox[p])
           usd == routing_usd[Node[p]]
       IN  /\ inbox' = Handed(usd, RoutingMessage(Node[p], Node[p]))
           /\ \/ /\ usd = Routingd \/ Reads(usd)
                 /\ m.to # m.from
                 /\ flight' = flight \union {m}
              \/ /\ usd # Routingd \/ m.to = m.from
                 /\ UNCHANGED flight
    /\ UNCHANGED <<phase, registered, ping_usd, daemons, read>>

Deliver(c) ==
    \E m \in flight :
        /\ m.of = c
        /\ flight' = flight \ {m}
        /\ inbox' = Handed(ping_usd[m.to], m)
        /\ UNCHANGED <<phase, registered, ping_usd, daemons, outbox, read>>

Lose(c) ==
    /\ c \notin Punctual
    /\ \E m \in flight : m.of = c /\ flight' = flight \ {m}
    /\ UNCHANGED <<phase, registered, ping_usd, daemons, outbox, inbox, read>>

\* The routing daemon is gone, and mipd has closed its descriptor.
RoutingdExit(n) ==
    /\ n \in Exiting \ exited
    /\ exited' = exited \union {n}
    /\ routing_usd' = [routing_usd EXCEPT ![n] = None]
    /\ UNCHANGED <<phase, registered, ping_usd, closed, outbox, inbox, flight, read>>

RoutingdConnect(n) ==
    /\ routing_usd[n] # Routingd
    /\ n \notin closed
    /\ routing_usd' = [routing_usd EXCEPT ![n] = Routingd]
    /\ UNCHANGED <<phase, registered, ping_usd, exited, closed, outbox, inbox,
                   flight, read>>

\* A client is rejected and the listening socket closed in its place.  A ping
\* program that is one too many is not heard, but is handed what arrives.
CloseListener(n) ==
    /\ n \in Closing \ closed
    /\ closed' = closed \union {n}
    /\ \/ UNCHANGED ping_usd
       \/ \E p \in Program \ registered :
              /\ Node[p] = n /\ phase[p] # "idle"
              /\ ping_usd' = [ping_usd EXCEPT ![n] = p]
    /\ UNCHANGED <<phase, registered, routing_usd, exited, outbox, inbox, flight, read>>
---------------------------------------------------------------------------
(* The client, up to its end, and the server.                              *)

StartClient(c) ==
    /\ phase[c] = "idle" /\ Node[c] \notin closed
    /\ Cardinality({d \in Client : phase[d] # "idle"}) < MaxStarted
    /\ phase' = [phase EXCEPT ![c] = "running"]
    /\ outbox' = [outbox EXCEPT
           ![c] = <<[from |-> Node[c], to |-> Target[c], of |-> c, pongs |-> 0]>>]
    /\ UNCHANGED <<registered, ping_usd, daemons, inbox, flight, read>>

\* The address is the first byte of what is searched for a colon: zero ends
\* the string, 58 is a colon.  The time to live comes next, which is zero in a
\* request for a route.  Without a colon the comparison is at NULL + 1.
HasColon(m) == m.from # 0 /\ (m.from = 58 \/ m.pongs > 0)

\* A routing message of another node is followed by what was in memory.
Unwritten(m) ==
    m.of = Routingd /\ m.pongs = 0 /\ m.from # m.to /\ m.from \notin {0, 58}

\* What follows the first colon begins with the text of c.
\* Fault: nothing is compared.
AnyAnswer(c, m) == TRUE
IsAnswer(c, m) ==
    m.from # 58 /\ m.pongs = 1 /\ m.of \in Client /\ Text[m.of] = Text[c]

Outcomes(c, m) ==
    IF Unwritten(m) THEN {"match", "mismatch", "crash"}
    ELSE IF ~HasColon(m) THEN {"crash"}
    ELSE IF IsAnswer(c, m) THEN {"match"} ELSE {"mismatch"}

\* c was in the line when the listening socket was closed.
IsReset(c) ==
    Node[c] \in closed /\ c \notin registered /\ ping_usd[Node[c]] # c

\* The result of recv is not looked at: after a reset memory is searched that
\* nobody has written.
ReadPong(c) ==
    /\ phase[c] = "running"
    /\ \/ /\ inbox[c] # <<>>
          /\ read' = [read EXCEPT ![c] = Head(inbox[c])]
          /\ \E end \in Outcomes(c, Head(inbox[c])) : phase' = [phase EXCEPT ![c] = end]
       \/ /\ IsReset(c)
          /\ \E end \in {"match", "mismatch", "crash"} :
                 phase' = [phase EXCEPT ![c] = end]
          /\ UNCHANGED read
    /\ inbox' = [inbox EXCEPT ![c] = <<>>]
    /\ UNCHANGED <<registered, ping_usd, daemons, outbox, flight>>

\* The second may end at any time, but for a client whose answer is punctual.
Timeout(c) ==
    /\ phase[c] = "running"
    /\ c \in Punctual => Copies(c) = 0
    /\ phase' = [phase EXCEPT ![c] = "timeout"]
    /\ inbox' = [inbox EXCEPT ![c] = <<>>]
    /\ UNCHANGED <<registered, ping_usd, daemons, outbox, flight, read>>

StartServer(s) ==
    /\ phase[s] = "idle" /\ Node[s] \notin closed
    /\ phase' = [phase EXCEPT ![s] = "running"]
    /\ UNCHANGED <<registered, ping_usd, daemons, outbox, inbox, flight, read>>

\* Faults: the address of the answer is not set; it is the host that was
\* pinged; the answer has no PONG: in front.  What has been answered is not
\* removed.
ReplyUnaddressed(s, m) == [from |-> Node[s], to |-> None, of |-> m.of, pongs |-> 1]
ReplyToTarget(s, m) == [from |-> Node[s], to |-> m.to, of |-> m.of, pongs |-> 1]
ReplyUnmarked(s, m) == [from |-> Node[s], to |-> m.from, of |-> m.of, pongs |-> m.pongs]
Reply(s, m) == [from |-> Node[s], to |-> m.from, of |-> m.of,
                pongs |-> Min({2, m.pongs + 1})]
Peek(box) == box
Received(box) == Tail(box)

Answer(s) ==
    /\ inbox[s] # <<>>
    /\ inbox' = [inbox EXCEPT ![s] = Received(@)]
    /\ outbox' = [outbox EXCEPT ![s] = Append(@, Reply(s, Head(inbox[s])))]
    /\ UNCHANGED <<phase, registered, ping_usd, daemons, flight, read>>

\* A program on the descriptor of the routing daemon is handed a request for a
\* route or the message of a neighbour.
StrayMessage(n) ==
    /\ Reads(routing_usd[n])
    /\ Copies(Routingd) < MaxStrays
    /\ \E m \in Near[n] \union {n} :
           inbox' = Handed(routing_usd[n], RoutingMessage(n, m))
    /\ UNCHANGED <<phase, registered, ping_usd, daemons, outbox, flight, read>>

Next ==
    \/ \E p \in Program : Register(p) \/ TakeMessage(p)
    \/ \E c \in Client \union {Routingd} : Deliver(c) \/ Lose(c)
    \/ \E n \in Addr : RoutingdExit(n) \/ RoutingdConnect(n) \/ StrayMessage(n)
    \/ \E n \in Addr : CloseListener(n)
    \/ \E c \in Client : StartClient(c) \/ ReadPong(c) \/ Timeout(c)
    \/ \E s \in Server : StartServer(s) \/ Answer(s)

Spec == Init /\ [][Next]_vars

\* mipd and the programs handle what they can read; the network delivers
\* what it does not lose.
Fairness ==
    /\ \A p \in Program : WF_vars(Register(p)) /\ WF_vars(TakeMessage(p))
    /\ \A c \in Client : WF_vars(Deliver(c)) /\ WF_vars(ReadPong(c))
    /\ \A s \in Server : WF_vars(Answer(s))

FairSpec == Spec /\ Fairness
---------------------------------------------------------------------------
\* What c has searched was not sent by a ping program, or was not sent at all.
Foreign(c) == read[c] = None \/ (read[c].of = Routingd /\ read[c].pongs = 0)

\* A client that takes what it has read for its answer has read the answer
\* of the host it pinged to its own text, unless another client has sent the
\* same text or it has not read a message of a ping program: late answers,
\* PINGs and PONGs of PONGs that the daemon hands to it are never mistaken
\* for it (main of ping_client, at memcmp).
OwnAnswer ==
    \A c \in Client :
        /\ phase[c] = "match" /\ ~Foreign(c)
        /\ \A d \in Client \ {c} : Text[d] # Text[c]
        => read[c] = [from |-> Target[c], to |-> Node[c], of |-> c, pongs |-> 1]

\* However servers answer each other's answers, a text is in one place at a
\* time: nothing multiplies it (main of ping_server).
OneCopy == \A c \in Client : Copies(c) <= 1

\* A client ends in the comparison at NULL + 1 only when another client has
\* pinged its node, when it was answered by the host with address zero, when
\* it was handed a routing message after an exit of the routing daemon of its
\* node, or when mipd has closed its listening socket before it took the
\* client (main of ping_client, at recv and strstr).
CrashHasCause ==
    \A c \in Client : phase[c] = "crash" =>
        \/ read[c] = None /\ Node[c] \in closed /\ c \notin registered
        \/ /\ read[c] # None
           /\ \/ read[c].from = 0
              \/ Foreign(c) /\ Node[c] \in exited
              \/ /\ read[c].pongs = 0 /\ read[c].of \in Client \ {c}
                 /\ Target[read[c].of] = Node[c]

\* A client that is alone on its node and pings a node with a server, where
\* no client runs, gets its answer, as long as nothing of it is late or lost
\* and nobody pings its own node; where the daemons of both nodes stay as they
\* are, and no exit elsewhere hands a server their routing messages.
Undisturbed(c) ==
    /\ Target[c] # Node[c] /\ Target[c] \notin {0, 58}
    /\ \A p \in Program \ {c} : Node[p] # Node[c]
    /\ \A d \in Client : Target[d] # Node[c] /\ Node[d] # Target[c]
    /\ {Node[c], Target[c]} \intersect (Exiting \union Closing) = {}
    /\ \A n \in Exiting : Node[c] \notin Near[n]
Listens(n) == \E s \in Server : ping_usd[n] = s
Answered ==
    \A c \in Punctual :
        Undisturbed(c) /\ Listens(Target[c])
            /\ phase[c] = "running" /\ outbox[c] # <<>>
        ~> phase[c] = "match"
=============================================================================

------------------------------- MODULE Upper -------------------------------
(***************************************************************************)
(* The upper interface of one MIP daemon: how mipd accepts the programs    *)
(* that use it, learns their type, hears them and notices that they have   *)
(* gone.                                                                   *)
(*                                                                         *)
(* mipd has one thread.  It accepts a connection, waits for the first      *)
(* message of that client, which says its type, and does nothing else      *)
(* meanwhile.  A client that is not admitted is not closed: what main      *)
(* closes is the listening socket.  routing_usd is set when a type is      *)
(* read, whatever comes of the client, and never cleared, while the kernel *)
(* gives the lowest free descriptor to the next connection.  ping_usd is   *)
(* set in the same way; Ping.tla has what follows from that.               *)
(***************************************************************************)
EXTENDS Integers, FiniteSets, SequencesExt

CONSTANTS
    Client,      \* the programs that connect to this daemon
    Kind,        \* Kind[c]: the type that c says it has
    Silent,      \* the clients that may exit before they say their type
    MaxUsds,     \* MAX_ACCEPTED_USDS, 10 in the code
    Backlog,     \* connections that wait to be accepted: 2 for listen(usd, 1)
    MaxUnread,   \* bound on the messages that wait in a socket
    None         \* no client, no descriptor, no value

Type == {"ping", "routing", "other"}

\* Descriptors for connections: one more than can be admitted, for the one
\* that is being identified.
Fd == 1..(MaxUsds + 1)

ASSUME ClientAssumption ==
    /\ Kind \in [Client -> Type]
    /\ Silent \subseteq Client
    /\ None \notin Client /\ None \notin Fd
ASSUME BoundsAssumption ==
    MaxUsds \in Nat /\ Backlog \in Nat /\ MaxUnread \in Nat

VARIABLES
    running,      \* the clients that hold their end of a connection
    told,         \* the clients that have sent their type on it
    unread,       \* unread[c]: messages after the type that mipd has not read
    queue,        \* the connections that wait to be accepted, in order
    listening,    \* usd, the listening socket, is open
    socket,       \* socket[f]: the client that mipd's descriptor f leads to
    identifying,  \* the descriptor whose first message mipd waits for
    accepted,     \* accepted_usds, as far as num_accepted_usds
    routing_usd,  \* where routing requests are sent
    mistaken      \* the last client taken for a routing daemon had said
                  \* nothing (not in the code)

clients == <<running, told, unread>>
pointer == <<routing_usd, mistaken>>
vars == <<running, told, unread, queue, listening, socket, identifying,
          accepted, routing_usd, mistaken>>

AcceptedUsd == [usd : Fd, type : {"ping", "routing"}]

TypeOK ==
    /\ running \in SUBSET Client
    /\ told \in SUBSET Client
    /\ unread \in [Client -> 0..MaxUnread]
    /\ queue \in Seq(Client)
    /\ listening \in BOOLEAN
    /\ socket \in [Fd -> Client \union {None}]
    /\ identifying \in Fd \union {None}
    /\ accepted \in Seq(AcceptedUsd)
    /\ Len(accepted) <= MaxUsds
    /\ routing_usd \in Fd \union {None}
    /\ mistaken \in BOOLEAN

\* routing_usd is not initialised in the code: None stands for whatever it
\* holds before a routing daemon has come.
Init ==
    /\ running = {} /\ told = {}
    /\ unread = [c \in Client |-> 0]
    /\ queue = <<>>
    /\ listening = TRUE
    /\ socket = [f \in Fd |-> None]
    /\ identifying = None
    /\ accepted = <<>>
    /\ routing_usd = None
    /\ mistaken = FALSE
---------------------------------------------------------------------------
(* The clients and the kernel between them and mipd.                       *)

Waits(c) == c \in ToSet(queue)
IsOpen(c) == \E f \in Fd : socket[f] = c

\* A client connects again only when nothing is left of its last connection.
Connect(c) ==
    /\ listening
    /\ c \notin running /\ ~Waits(c) /\ ~IsOpen(c)
    /\ Len(queue) < Backlog
    /\ running' = running \union {c}
    /\ queue' = Append(queue, c)
    /\ UNCHANGED <<told, unread, listening, socket, identifying, accepted, pointer>>

SayType(c) ==
    /\ c \in running \ told
    /\ told' = told \union {c}
    /\ UNCHANGED <<running, unread, queue, listening, socket, identifying,
                   accepted, pointer>>

Send(c) ==
    /\ c \in running \intersect told
    /\ unread[c] < MaxUnread
    /\ unread' = [unread EXCEPT ![c] = @ + 1]
    /\ UNCHANGED <<running, told, queue, listening, socket, identifying,
                   accepted, pointer>>

\* What has been sent can still be read.
Exit(c) ==
    /\ c \in running
    /\ c \in told \/ c \in Silent
    /\ running' = running \ {c}
    /\ UNCHANGED <<told, unread, queue, listening, socket, identifying,
                   accepted, pointer>>
---------------------------------------------------------------------------
(* The handlers of mipd, which run when no client is being identified.     *)

\* handle_usd_request up to its recv.
AcceptUsd ==
    /\ listening
    /\ identifying = None
    /\ queue # <<>>
    /\ \E f \in Fd :
        /\ socket[f] = None
        /\ \A g \in 1..(f - 1) : socket[g] # None
        /\ socket' = [socket EXCEPT ![f] = Head(queue)]
        /\ identifying' = f
    /\ queue' = Tail(queue)
    /\ UNCHANGED <<clients, listening, accepted, pointer>>

\* The first message can be read; at end of file recv returns 0 as well.
\* Fault: only a message is waited for.
ToldOnly(c) == c \in told
Readable(c) == c \in told \/ c \notin running

\* After an end of file the buffer holds anything.
TypesRead(c) == IF c \in told THEN {Kind[c]} ELSE Type

\* Fault: the case of the ping programs falls through.
SetUsdFallThrough(f, type) ==
    routing_usd' = IF type # "other" THEN f ELSE routing_usd
SetUsd(f, type) ==
    routing_usd' = IF type = "routing" THEN f ELSE routing_usd

\* Fault: one client too many.
IsFullLate == Len(accepted) > MaxUsds
IsFull == Len(accepted) >= MaxUsds

\* The clients that wait are cut off when the listening socket is closed.
\* Fault: it stays open.
RejectAndListen == UNCHANGED <<clients, queue, listening>>
Reject ==
    /\ listening' = FALSE
    /\ queue' = <<>>
    /\ running' = running \ ToSet(queue)
    /\ told' = told \ ToSet(queue)
    /\ unread' = [c \in Client |-> IF Waits(c) THEN 0 ELSE unread[c]]

\* handle_usd_request from its recv on, and what main makes of the result.
\* The descriptor of a client that is not admitted stays open and unheard.
HandleUsdRequest ==
    /\ identifying # None
    /\ Readable(socket[identifying])
    /\ \E type \in TypesRead(socket[identifying]) :
        /\ SetUsd(identifying, type)
        /\ mistaken' = IF type = "routing" THEN socket[identifying] \notin told
                                           ELSE mistaken
        /\ \/ /\ type = "other" \/ IsFull
              /\ Reject
              /\ UNCHANGED accepted
           \/ /\ type # "other" /\ ~IsFull
              /\ accepted' = Append(accepted, [usd |-> identifying, type |-> type])
              /\ UNCHANGED <<clients, queue, listening>>
    /\ identifying' = None
    /\ UNCHANGED socket

\* Faults: the table loses its last entry instead of entry i; main's loop
\* over the table stops one short.
DropLast(usds, i) == Front(usds)
CloseUsd(usds, i) == RemoveAt(usds, i)
AllButLast == 1..(Len(accepted) - 1)
Polled == DOMAIN accepted

\* handle_usd_event for entry i: a message, or the end of file, upon which
\* main closes the descriptor.  What becomes of a message is in Mipd.tla.
HandleUsdEvent(i) ==
    /\ identifying = None
    /\ LET f == accepted[i].usd
           c == socket[f]
       IN  \/ /\ unread[c] > 0
              /\ unread' = [unread EXCEPT ![c] = @ - 1]
              /\ UNCHANGED <<told, socket, accepted>>
           \/ /\ unread[c] = 0 /\ c \notin running
              /\ socket' = [socket EXCEPT ![f] = None]
              /\ accepted' = CloseUsd(accepted, i)
              /\ told' = told \ {c}
              /\ UNCHANGED unread
    /\ UNCHANGED <<running, queue, listening, identifying, pointer>>

HearUsd(c) == \E i \in Polled : socket[accepted[i].usd] = c /\ HandleUsdEvent(i)

Next ==
    \/ \E c \in Client : Connect(c) \/ SayType(c) \/ Send(c) \/ Exit(c)
    \/ AcceptUsd
    \/ HandleUsdRequest
    \/ \E c \in Client : HearUsd(c)

Spec == Init /\ [][Next]_vars

\* A client says its type as soon as it is connected, or goes away.  epoll
\* reports the ready descriptors in turn, so that none is passed over for
\* ever, but mipd may be busy identifying a client in between.
Fairness ==
    /\ \A c \in Client : WF_vars(SayType(c)) /\ SF_vars(HearUsd(c))
    /\ WF_vars(HandleUsdRequest)
    /\ SF_vars(AcceptUsd)

FairSpec == Spec /\ Fairness
---------------------------------------------------------------------------
Admitted == {accepted[i].usd : i \in DOMAIN accepted}

\* The table and the descriptors agree although descriptors are used again:
\* each entry is the only one of its descriptor, which leads to a client, and
\* its type is the one that this client has said (handle_usd_request, and the
\* removal of a closed entry by main).
AcceptedAsSaid ==
    /\ \A i, j \in DOMAIN accepted : accepted[i].usd = accepted[j].usd => i = j
    /\ \A i \in DOMAIN accepted :
        LET c == socket[accepted[i].usd]
        IN  c # None /\ (c \in told => accepted[i].type = Kind[c])

\* An open descriptor that mipd never reads is what is left of a client that
\* was not admitted.  There is at most one, and it costs the listening
\* socket: as long as mipd listens it hears everybody (main, at close(usd)).
Unheard == {f \in Fd : socket[f] # None /\ f # identifying /\ f \notin Admitted}
LostWithListener ==
    /\ listening => Unheard = {}
    /\ ~listening => \E f \in Fd : Unheard = {f}

\* Where only one client is a routing daemon, routing requests reach it as
\* long as it is admitted, through exits, new connections and descriptors
\* used again; unless a client that said nothing was taken for another one.
OnlyDaemonIsReached ==
    \A r \in Client :
        /\ {c \in Client : Kind[c] = "routing"} = {r}
        /\ \E f \in Admitted : socket[f] = r /\ r \in told
        => mistaken \/ (routing_usd # None /\ socket[routing_usd] = r)

\* Every client that waits to be accepted is, or is told that nobody listens,
\* although mipd waits for others to say their type.
Attended == \A c \in Client : Waits(c) ~> ~Waits(c)

\* mipd hears every client that it has admitted: a full socket is emptied,
\* and the descriptor of one that has gone is given back.
IsAdmitted(c) == \E f \in Admitted : socket[f] = c
Heard ==
    \A c \in Client :
        /\ IsAdmitted(c) /\ unread[c] = MaxUnread ~> unread[c] < MaxUnread
        /\ IsAdmitted(c) /\ c \notin running ~> ~IsAdmitted(c)

\* "The unix-socket file-descriptor that is used for routing"
\* (mipd_common.h:41): what it leads to is a routing daemon.
RoutingUsdIsRouting ==
    routing_usd # None /\ socket[routing_usd] # None
        => Kind[socket[routing_usd]] = "routing"
=============================================================================

# Specifications of MIP routing and forwarding

TLA+ specifications of the programs in this repository: `mipd`, the MIP daemon
that queues, resolves, forwards and delivers packets and serves the programs of
its node, `routingd`, the distance-vector routing daemon it asks for next hops,
and the ping programs. TLC checks the specifications on small networks; TLAPS
proves the main safety properties of all these programs, and that the MIP
daemons implement an abstract network, for every network and every set of
programs and packets.

Paths below are relative to `src/src/`.

## The system

| Component | State | Operations | Interaction |
|---|---|---|---|
| Routing table, `routingd/table/` | for each destination a list of routes (next hop, cost), in the order they were learnt | add or update, delete, mark a hop unreachable, fastest route, vectors with poisoned reverse | called by the handlers of routingd only |
| Routing daemon, `routingd/main.c`, `hello/`, `update/` | the table, check-ins, two timers | handle HELLO, handle UPDATE, send HELLO every 5 s, look for silent neighbours every 10 s | messages through mipd over one Unix socket |
| Routing requests, `routingd/request/`, `mipd/upper/routing/` | none of their own | REQUEST for a destination, RESPONSE with a next hop or 255 | same socket, in order; the response does not say what it answers |
| Forwarding and queues, `mipd/lower/mip/`, `forwarding/`, `lower.c` | route queue, ARP queue | accept, ask, send, forward, deliver | raw socket, routing daemon, clients |
| ARP, `mipd/lower/arp/` | a cache of 256 entries | request, response, release a waiting packet | raw socket |
| Upper interface, `mipd/upper/upper.c`, `mipd/main.c` | accepted sockets, `ping_usd`, `routing_usd` | accept a client, read a message, end of file | Unix sockets |
| Ping client and server, `ping_client/`, `ping_server/` | one message | send a text, answer it with `PONG:` in front, timeout of one second | Unix socket; nothing but the text ties an answer to a client |

Every program has one thread and one `epoll` loop, and runs each handler to its
end. The concurrency is between the programs and between the nodes.

Hard, and hardly reachable by a test:

* UPDATEs that are late, lost or overtake each other while timers fire, daemons
  restart and cables are pulled: stale costs, loops, routes through dead
  neighbours, check-ins that vouch for the wrong period;
* the pairing of routing responses with packets, which rests only on the order
  of one queue and one socket;
* packets that change queues twice at every hop, while others pass them;
* the four-bit time to live, costs of eight bits, the addresses 0 and 255;
* caches and tables at their limits, and what is left behind by a program that
  exits: descriptors that are used again, answers that come too late;
* a client that connects and says nothing, while mipd waits for it alone;
* messages for ping that are handed to whichever program registered last.

`PROJECT.json` lists each hazard at its line with the properties that cover it.

## Modules

| Module | What it is |
|---|---|
| `RoutingTable` | the table's operations as operators on sequences of routes, and the parts of the handlers that are functions of a table |
| `Routingd` | all routing daemons of a network with the HELLOs and UPDATEs between them; each handler and timer an action; time is free |
| `RoutingdTree` | what holds of costs in a network without cycles |
| `RoutingdPaced` | the same daemons with their timers paced: liveness, and what holds as long as nothing is lost, cut, crashed or overtaken |
| `Relay` | what a network of MIP daemons promises for a packet, without queues, ARP and requests |
| `Mipd` | all MIP daemons of a network: both queues, ARP, forwarding, delivery; a stub for routingd; the mapping to `Relay` |
| `Upper` | the upper interface of one mipd: backlog, listening socket, descriptors, the table of accepted clients, `routing_usd` |
| `Ping` | ping clients and servers of a network, with `ping_usd`, `routing_usd` and the listening socket of each node; between nodes what `Relay` promises |
| `RoutingTableProofs`, `RoutingdProofs`, `RoutingdTreeProofs`, `MipdProofs`, `MipdRelayProofs`, `MipdLossProofs`, `UpperProofs`, `PingProofs` | lemmas and theorems |
| `MCRoutingd`, `MCRoutingdPaced`, `MCMipd`, `MCUpper`, `MCPing` | constants and definitions for TLC |

Definitions have the names of the C functions they stand for, in capitals:
`handle_update_message` is `HandleUpdate`, with `ApplyVector` for its loop and
`FastestRouteChanged` for its flag. The map from definitions to lines is in
`PROJECT.json`. Definitions that begin with "Fault:" in their comment are wrong
on purpose: each replaces the definition below it to see that a property fails.

### Routingd

`table[n]`, `checkins[n]` are the globals of the daemon of `n`. `hellos` and
`updates` are messages in flight; between two neighbours UPDATEs are in order,
unless `Overtake` swaps them, as mipd does when one waits for ARP. That is no
fault: any cold start with an empty ARP cache can produce it. It has a bound of
its own, `MaxOvertakes`, counted by `overtakes`. `Start` is `main` up to its
first HELLO. `CheckTimeouts` is the whole check of the loop,
for all neighbours, with the UPDATEs that follow. What mipd does to messages on
the way is the action `Environment`: `Discard` (no daemon connected),
`Unroutable` (the answer for the UPDATE's destination is no longer the
destination), losses and cut cables. An UPDATE has time to live one, so an
answer that names a third node has it dropped there.

HELLO and timeout timers may fire at any time. The invariants therefore hold
for every choice of intervals and delays, spurious timeouts included.

In `RoutingdPaced` a check waits for the HELLOs of the live neighbours (see
Fairness), and so never takes one of them for silent. Whoever is up has to
be heard for that to be enough: `ColdSpec` begins with no daemon, and each is
started when it likes. `ConvergeSpec` of `MCRoutingdPaced` begins with running
daemons, of which only a pair has faults.

The `valid` flag is left out: every stored route has it set. Costs are kept
modulo `MaxCost + 1`, as in a `uint8_t`.

### Mipd

`route_queue`, `arp_queue` and `arp_cache` are the globals of mipd; `requests`
and `responses` are the socket to the routing daemon; `routing_usd` says what
that descriptor leads to: a routing daemon, another client, or nobody. `frames`
are the cables, point to point and in order. `ReceiveRoutingResponse`,
`HandleArpRequest`, `HandleArpResponse`, `ForwardMipPdu` and `HandleUsdEvent`
are the handlers with every call they make. A packet is a model value with a
source, a destination and the time to live its client asks for. `hops`,
`delivered` and the field `of` of a response record what happened and are not in the code.

The routing daemon answers with any member of `Via[n][d]`; that these are
neighbours, and that there is none for `n` itself, is what `Routingd` shows
(`AnswerIsUsable`, `NoRouteToSelf`; both are proved). It may exit
(`RoutingdExit`), at most `MaxExits[n]` times at node `n`, which loses the
requests it has not read. The answers it has sent stay on its own descriptor, in
`late`. Another one may connect before mipd has read them (`RoutingdConnect`
waits for nothing), and then `ReceiveRoutingResponse` reads the first answer of
any descriptor that has one, as epoll reports them in any order.

mipd does not forget `routing_usd` when the routing daemon exits. As long as
nobody has the descriptor, `send` fails and the packet is dropped
(`routing.c:39`, `mip.c:97`). Once mipd has read the old answers to their end
the descriptor may be given to another client (`DescriptorReused`, until
`ClientLeaves`): then `send` succeeds, and the packet is queued though nobody
will answer. There is one routing daemon at a time at each node.

### Upper

`accepted`, `listening` and `routing_usd` are `accepted_usds`, `usd` and
`routing_usd` of `struct fds`; `queue` is the backlog of `listen(usd, 1)`, which
Linux fills with two; `socket[f]` is the client that descriptor `f` of mipd
leads to, and the lowest free one is given out next, as by the kernel.
`handle_usd_request` is two actions, because it waits in `recv` between them:
`AcceptUsd`, after which `identifying` stops every other handler, and
`HandleUsdRequest` when there is a message or an end of file. At end of file the
buffer has not been written, so that the type is any. `Reject` is what `main`
does with every failure: it closes the listening socket, not the client.
`HandleUsdEvent` reads one message, or closes and removes an entry. Clients
connect, say their type, send and exit at any moment, and may come back;
those in `Silent` may go before they have said their type. `mistaken` records
that a client that said nothing was taken for a routing daemon.

### Ping

A message has the client whose text it carries and the number of `PONG:` in
front; 2 stands for more. `Register` is `handle_usd_request` as far as
`ping_usd` and `routing_usd` go, `TakeMessage` is `handle_usd_event`, `Handed` is
what `send_usd_message` does to the buffer of a program; `Deliver` and `Lose` are
the network. `ReadPong` and `Timeout` are the two ends of a client: `HasColon` and
`IsAnswer` are its `strstr` and `memcmp`, the address as the first byte of the
string included. `Answer` is one turn of the server's loop. A client sends its
text without `PING:`: the `ping_message` it makes is never sent, so that a PING
that is handed to another client has no colon.

Two more things of mipd end clients. After `RoutingdExit` the descriptor of the
routing daemon may be given to a ping program (`Register`), which is then handed
what is meant for routing, until `RoutingdConnect`: the request of a client's
packet (`TakeMessage`), and requests and messages of the neighbours
(`StrayMessage`, from the nodes in `Near`). A server answers them like anything
else. `CloseListener` closes the listening socket of a node instead of a rejected
client, possibly after the client's type has been stored in `ping_usd`
(`upper.c:47`). A client that is still in the line then is reset.

`ReadPong` does not look at the result of `recv`, nor does `ping_client.c:169`.
After a reset it searches a buffer that nobody has written, and any of the three
outcomes (`Outcomes`) is possible. The second byte of a request for a route is
zero and ends the string, so that it has no colon unless the address is one
(58); the message of a neighbour may be followed by what was in memory before
(`Unwritten`).

Assumed of texts: none begins another one, `PONG:` or a routing message, none has
a colon, and all are short enough for the buffers. Each program is started once.
In `Punctual` are clients whose messages are neither lost nor late; the routing
daemons of the nodes in `Exiting` may exit, once, and those in `Closing` may close
their listening socket.

## Properties and runs

Safety of routingd (`line_safety`, three nodes in a line, one fault and one
overtaking, costs up to 4, two UPDATEs per direction and two messages in flight
at once):

* `NoRouteToSelf`, `UsableHopIsNeighbour`, `NeighbourIsDirect`,
  `CheckedInIsNeighbour`: nothing in one daemon ensures these; they hold because
  of what the others send and when the timers read it.
* `AnswerIsUsable`: an answer names a neighbour of the moment, and is
  "unreachable" only when no usable route is known. It needs that no node has
  the address zero: such a neighbour is in the table at cost one, and
  `request.c:49` takes it for no route.
* `NoShortcut`: no usable cost falls below the distance over all cables: neither
  an overflow nor a vector that comes late makes a node seem closer than it
  can be. In this run it follows from the next property; with cycles it is
  covered by its theorem.
* `TreeCostsExact`, `LoopFree` (without cycles): no stale vector ever makes a
  route that is too short, too long or bounces back.

A line of three has an end node, a middle one that learns from both sides, and a
cost above one; two messages in flight let a stale vector meet a timeout and
overtake another one. `MaxCost` 4 is larger than any distance and small enough
for costs to reach it. The theorems need none of these bounds.

A calm network (`ring_calm`, a ring or a line of three that is started node by
node, no fault, three messages in flight in the whole network at once). The
properties hold as long as the network is `Orderly`: nothing has been lost, cut
or crashed, and no UPDATE has been read before one that was sent earlier.

* `CalmLoopFree`: the answers lead nobody round a loop, though the ring has
  cycles and most of the tables are incomplete. With a fault they may: costs then
  count up, as in every protocol of this kind.
* `CalmCostsFall`: no cost rises. It is not obvious: a neighbour that begins to
  route through a node sends it infinite costs, which delete routes.
* `SilenceIsExact`: when no message is under way all costs are exact, in
  whatever order the daemons were started: what `unannounced_change` leaves out
  does not matter here. Distances are the greatest numbers that are zero at the
  destination and differ by one at most over a cable (`LiveBounds`).

`Orderly` is more than the absence of faults. At a cold start an UPDATE may wait for
ARP while the next one passes it. On a line of three an older vector that is read
after a newer one deletes the route to the far end, and nothing announces it: the
network is silent and a node does not know a destination. Costs have risen and
silence is not exact, until a HELLO moves the sender to send its vector again.
`network_converges` begins in that state, too.

A ring of three has a direct way, a detour and ties between them, a line has
news that must be passed on; three
messages let a vector that was made before a change arrive after it on one
cable while a HELLO travels on another. The theorems have no such bound.

Convergence (`network_converges`): `Converges` says that from some moment on
every table has the exact cost of every node. The run begins

* with a cold line of three;
* with a pair, where up to three faults of any kind happen;
* with a ring that has converged when a cable or a daemon is gone: it has cycles,
  so costs may count up to `MaxCost`, 3, first. One check-in of the broken ring is
  taken already, so that its two ends notice the break at different moments;
* with a line of three that is silent and not exact, because an UPDATE was
  overtaken (`LineOvertaken`).

One UPDATE fits into a channel here, so that `Overtake` itself never happens in
this run; its result is an initial state instead. UPDATEs in a full channel are
lost, which only makes convergence harder. Faults while the run goes on are those
of the pair only. A check waits for the HELLOs of the live neighbours (see
Fairness), so no live neighbour is timed out because a HELLO was lost.

Packets (`mipd_faults`, `mipd_settles`, three nodes in a line):

* `AtMostOneCopy`, `WithinBudget`, `OneExchangePerWaiter` and the refinement
  `Relays`, with one lost frame, two exits of the routing daemon of the first
  node, whose descriptor may be used again by a client and whose answers may
  come late, routes of one packet that bounce between the middle node and an end
  while the ways of the two others are sure, and a time to live that wraps.
* `LossPerFrame`: a packet whose way is sure disappears only with a frame that
  is lost, one packet for one frame, until a routing daemon exits. A packet that is
  released by ARP asks again and is behind others then, a lost ARP frame keeps a
  packet for ever (as `stuck_in_arp_queue` shows), but neither makes one disappear.
* `AnswersTrailQueue` and `LagIsForever`: what an exit of the routing daemon
  does. Every answer finds a packet, also when mipd reads those of several daemons
  in turn, and what the present daemon was asked belongs to the last packets
  of the queue in their order. `Lag` is the number of waiting packets without
  an answer to come. It is never negative, never falls, and grows only by an exit
  or a request that is sent to a client on the daemon's descriptor.
* `AnswersMatchQueue`: until a routing daemon exits, what is asked and answered
  are the destinations of the waiting packets in order; and `Settles`: whatever
  the routes, loops and missing routes included, every packet leaves.
* `Arrives`: a packet whose way is sure (all routes lead on wherever it may come,
  and its time to live suffices: `WellRouted`) is delivered once, although the
  routes of other packets loop or are missing and share its queues.

`Settles` and `Arrives` hold without losses and exits, and as long as no ARP cache
is full: the packets of the run cannot fill one. The code adds an entry
for every response, never removes one, and a full cache forgets the next
neighbour (`arp_cache_full`), so in the long run they do not hold.

`MaxTtl` is 3, so that a packet may bounce and run out, and 4 wraps to 0 as 16
does in the code. Three or four packets share queues, cross each other, and
include a broadcast. The ARP cache has four entries for three nodes, as the
code has 256 for 255 addresses.

Clients of mipd (`upper_serves`: a routing daemon, a ping program and one of
another type that may also leave before it says anything; a table of two, so
that it fills when the first two are admitted with a third to come; a backlog
of two and two unread messages):

* `AcceptedAsSaid`: the table and the descriptors agree although entries move
  and descriptors are used again.
* `LostWithListener`: the client that is lost and the listening socket go
  together; before that mipd hears everybody.
* `OnlyDaemonIsReached`: nobody else displaces the routing daemon, but for a
  client that said nothing and was taken for one.
* `Attended`, `Heard`: who waits is attended to, who is admitted is heard, and a
  client that goes gives its descriptor back, although mipd waits for others
  to say their type. `Attended` includes being told that nobody listens.

Ping (`ping_answers`: four clients of which any two are started, two on one node
and one sharing its node with a server; two servers; two clients with the same
text; one node whose routing daemon may exit and one that may close its
listening socket; one routing message with the programs or in answers):

* `OwnAnswer`: no late, foreign or doubly marked message is taken for an answer,
  unless the client searched something that no ping program sent it.
* `OneCopy`: servers that answer each other's answers for ever multiply nothing.
* `CrashHasCause`: a client compares at `NULL + 1` only for one of four reasons:
  another client pings its node, the host it pinged has the address zero, it was
  handed a routing message after the routing daemon of its node had exited, or
  mipd closed its listening socket before it took the client.
* `Answered`: a client alone on its node, whose server's node has no client, is
  answered; where the daemons of both nodes stay as they are, and none of the
  neighbours' routing messages come after an exit.

Late messages need a second client on the node, PONGs for a server need a
client that shares its node, and both are there; the third node has the
undisturbed client. Messages of two of the clients may be lost or late. Two clients
suffice for every cause of a crash; a server may bring the routing messages of
another node to a client, hence answers count among them.

Five runs expect a violation, of something a comment of the code says:

* `unannounced_change`: an UPDATE that adds an alternative route changes the
  table and is not passed on (`update.c:135`, comment at 72).
* `stuck_in_arp_queue`: one lost frame leaves a packet in the ARP queue for ever
  although the next hop is in the cache (`mip.c:201`, comment at 189). Fair.
* `restart_misroutes`: the answers of a restarted routing daemon are used one
  packet too early (`mip.c:244`, comments at 218 and 222).
* `arp_cache_full`: duplicates fill the cache and a response is not recorded
  (`arp.c:121`, comment at 57).
* `descriptor_reused`: `routing_usd` is not cleared when the routing daemon
  exits, and its descriptor is given to the next client, which is then sent
  routing requests (`mipd/main.c:215`, comment at `mipd_common.h:41`).

## Fairness

`RoutingdPaced!Fairness`: the loop of a running daemon polls its socket and both
timers every 100 ms (`routingd/main.c:160-219`), so each timer fires again and
again and a message that stays is read. The clock is replaced by one guard: a
check waits for the HELLOs of the live neighbours to be read, as 10 s cover two HELLO
intervals of 5 s. Nothing is assumed of `Start`, of cables or of faults; their
number is bounded, so that they cease.

`Mipd!Fairness`: mipd handles an event that stays, for each socket and cable in
order (`mipd/main.c:148-231`), and the routing daemon answers. Clients need not send.

`Upper!Fairness`: a client says its type, as all programs of the repository do
right after `connect`, or goes. epoll reports ready descriptors in turn, so none
is passed over for ever; but they wait whenever mipd identifies a client, which
interrupts what is enabled, hence strong fairness of `AcceptUsd` and of hearing
each client. Nobody need connect, send or exit.

`Ping!Fairness`: mipd and the programs read what is there, and the network
delivers what it does not lose. No program need be started or time out.

`CHECK_DEADLOCK FALSE` is set for the runs of `MCMipd`, `MCUpper` and `MCPing`:
the network rests when all packets have been delivered, a mipd that no longer
listens rests when its clients have gone, and so do the ping programs when all
clients have ended. The routing daemons never rest, and are checked for deadlock.

## Proofs

The theorems about `Routingd!Spec` are for every set of addresses, every
symmetric set of cables, every `MaxCost` of at least 2 and every bound on
channels and faults; the named assumptions of the modules say no more.

`RoutingTableProofs` has the facts about the operators: what adding, deleting
and marking preserve, that the walk of `find_fastest_route` finds a cheapest
usable route and that it finds one if there is one (a cheapest one exists by the
well-foundedness of the naturals), that the vector made for a neighbour offers it
no way to itself.

`RoutingdProofs` proves `TypeCorrect`, `NeverRouteToSelf`,
`UsableHopsAreNeighbours`, `NeighboursReachedDirectly` and
`CheckinsAreOfNeighbours` from the invariant `IInv`. It strengthens them by
what each needs to be inductive:
every list has one route per next hop, no route has cost zero, cost one is only
held by the direct route, a usable route needs a usable direct route to its
hop, whoever checked in has one, and no vector in flight offers its receiver a
way to itself or a cost of zero. The last part is about messages: without it a
late UPDATE could break everything else. There is one step for each action.
`AnswersAreUsable` follows where no node has the address zero. With
`NeverRouteToSelf` it is what `Mipd` assumes of `Via`.

`NeverAShortcut` has distances in the form of numbers that differ by one at most
from one end of a cable to the other and are zero at the destination
(`LowerBounds`): any such number is a lower bound of every cost in the tables and,
in its invariant `ShortInv`, of every cost on the way.

`CalmNetworkLoopFree` and `CalmNetworkImproves` are about `ColdSpec`, for
networks with any cycles, as long as they are `Orderly`. Three facts about a
table and the vectors under way to it, `Calm`, are inductive as long. `Descending`: the next hop
of every route, used or not, takes its way for cheaper than the route says.
`InOrder`: the sender of a vector does what it offers, and a vector makes
nothing dearer, neither than the vectors before it nor than what its receiver
has through the sender. A poisoned entry stands for the cost its receiver has
itself, which is lower than the route it deletes (`Offer`). And a live
neighbour is never marked unreachable. Following the answers of `Descending`
tables costs fall at every hop, so nothing comes back.

`SilentNetworkIsExact` says that silence is exact as long as the network is
`Orderly`. It adds two facts (`SilentInv`), where no address is zero and no
channel is full (`Roomy`; a full one loses vectors in the model only).
`Told`: the newest vector on a cable says what its sender would say now, or its
receiver has the destination no dearer, and once all have been read the receiver
is at most one dearer. A poisoned entry is of the second kind, by `Descending`.
`Met`: of two running neighbours each has the other as neighbour or will hear
of it by what is under way. So in silence costs differ by one at most over a
cable, and as each of them is the length of some way (`Descending` again), they
are the distances. `PacedIsSafe` says that
the paced daemons are daemons of `Routingd`, so all other theorems hold for them.

`RoutingdTreeProofs` adds, for trees, that every usable cost in a table and in
every vector in flight is exact and leads closer (`TreeInv`), and proves
`TreeCosts`. `TreeLoopFree` follows by choosing, in a set that traps a packet,
a node closest to the destination: its answer is closer still.

`UpperProofs` is for every set of clients, every size of the table and of the
backlog. `AcceptedAsSaid`, `LostWithListener` and `OnlyDaemonIsReached` are
inductive only with two facts about the moments in between: an admitted client
that has not said its type has gone (it was admitted at its end of file), so it
never says another one on the same descriptor; and whoever is identified is so
while mipd listens, on a descriptor that is not in the table. `CloseUsdFacts`
says what the loop at `main.c:217` leaves of the table. The theorems are
`TypeCorrect`, `EntriesAreAsSaid`, `OneLostWithListener` and `DaemonIsReached`.

`PingProofs` is for every placement of programs, all texts as assumed, and any
exits and closed sockets. Its invariant follows a text: without `PONG:` it goes
from its client to the host that is pinged, with one back to the node of the
client, and what a program is handed was sent to its node from another one, as
mipd has no route to itself. A routing message without `PONG:` is only where a
routing daemon has exited, and only with the program on its descriptor.
The theorems are `TypeCorrect`, `MatchIsOwnAnswer` and `CrashNeedsCause`.
A second invariant, `TextInv`, has the places of a text, of which there is one
at most, and in it one copy: each step takes a text nowhere or from its place to
the next. From it follows `NeverTwo`.

`MipdProofs` is for every network, all packets, every `MaxTtl` and every bound
on losses and exits. `TypeCorrect` needs that whatever waits in a queue is for
one node: a broadcast is sent at once. The invariant `PairInv` says by position
that what the present routing daemon is asked and has answered are the
destinations of the last packets in the route queue, behind one packet for each
late answer and `Lag` more; that `Lag` is not negative; and that there are no late
answers and no `Lag` until a routing daemon exits (`InStep`). From it follow
`AnswersMatch`, `AnswersTrail` and, until the first exit, `OwnAnswers`; and with
one step for each action `LagStays`. So an exit of the routing daemon is the only
cause of what `restart_misroutes` shows: lost frames and packets that enter the
queue a second time after ARP do no harm. And nothing the programs do repairs it.

`MipdRelayProofs` proves `NeverBeyondBudget`, `NeverTwice` and `Refinement`,
with any losses and exits. All queues and cables are seen as one function,
`Contents`, from places to sequences of packets. `CopyInv` says of each packet
that it is at one place at most, once; that the cables left to its copy
(`CablesLeft`: the time to live, or `MaxTtl + 1` for zero, which the next
decrement turns into `MaxTtl`) and those crossed are within its budget; and
that what is delivered is nowhere else. One lemma for each action says what it
does to `Contents`: one packet enters, vanishes, shifts at its node or crosses
a cable, and all others keep their places (`Outcome`). The three theorems
follow from `Outcome`: a crossing is a `Cross` of `Relay`, to shift is to
stutter. With `AnswersAreUsable` of the routing daemons below and `OwnAnswer`
of the ping programs above, the layers rest on each other's proved properties.

`MipdLossProofs` proves what lost frames cost, with any number of them.
`NoneIsForgotten`: for every cable it counts the requests for the neighbour at
its end, the responses on their way back, and the packets that wait (`Asking`,
`Answering`, `Waiters`): the first two together never exceed the third, and fall
short of it by no more than the frames lost (`Even`). That is inductive only
together with `Honest`: a response on a cable is about the node that sent it. So
it releases a packet of the same count; a response that is handled is itself
one of those counted, so there is one. The ARP cache plays no part.

`LossesAreOfFrames`: a packet is in `WellRouted` when some rank of the nodes
falls with every answer and begins within its time to live. `Guided` says of
every such packet that it waits where its rank is within the time to live left
to it, and is on cables only to nodes of a rank below. So no handler has
a reason to drop it: the time to live does not run out, and the answer is not
255, provided that it is the answer for its own destination, which is `PairInv`
again; hence "until a routing daemon exits". `Strays` are the packets that are
nowhere, and each step adds to them at most one, and only when it loses a
frame (`WayInv`).

Only model-checked: the liveness properties (`Converges`, `Settles`, `Arrives`,
`Attended`, `Heard`, `Answered`), which need fairness and `ENABLED`, and the findings,
which are counterexamples.

## Not modelled

* Failures of `accept`, `recv`, `sendmsg`, `epoll` and `malloc`; a broadcast that
  fails on one interface. Where the code goes on it only logs them, and a failed
  `accept` ends like a rejection.
* A descriptor that `ping_usd` still names and that a program of another type is
  given; `routing_usd` is treated in `Upper`, `Mipd` and `Ping`. Several routing
  daemons at once at a node in `Mipd` and `Ping`. A ping server that exits, texts
  that do not fit the buffers, several servers on one node in the run.
* `SIGPIPE`: a `send` to a routing daemon that has gone, before mipd has read its
  end of file (`routing.c:39`), ends mipd.
* Opening the raw socket, reading the interfaces (with the missing test for
  `MAX_IFS`) and debug output: done once, or without effect on state.
* Shared Ethernet segments: cables join two nodes, so the filter on MAC
  addresses in `handle_rsd_event` never drops a frame.
* Restart of mipd.
* The capacity of the Unix sockets, and so the two daemons blocking each other:
  the bound is the kernel's, in bytes, and nothing in the repository refers to it.
* Payloads and the contents of debug messages.

## Plan

Done, in this order: `RoutingTable`, `Routingd`, its invariants and proofs,
`RoutingdTree`, `RoutingdPaced`, `Relay`, `Mipd`, `Upper`, `Ping`, their proofs,
those of `Mipd` last. Every invariant of a passing run is proved, those about
trees for every tree and the others for every network.

Left: `MipNode`, `Mipd` and the tables of `Routingd` together, instead of the stub
and of `Environment`; that each stands for the other. `AnswersAreUsable` and
`NeverRouteToSelf` are its half about `Via`.

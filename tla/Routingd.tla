------------------------------ MODULE Routingd ------------------------------
(***************************************************************************)
(* The routing daemons (routingd) of a network of MIP nodes: HELLO and     *)
(* UPDATE messages, check-ins, timeouts, and the distance vectors with     *)
(* poisoned reverse by which the nodes learn routes to each other.         *)
(*                                                                         *)
(* A daemon is single threaded: its main loop receives one message, runs   *)
(* its handler to the end, and then looks at its two timers.  Each handler *)
(* and each timer is one action.  Time is not modelled here: the HELLO     *)
(* timer and the timeout timer may fire at any moment, so that what is     *)
(* invariant below holds for every choice of the intervals and of delays.  *)
(*                                                                         *)
(* The MIP daemons and the links between two daemons are what they do to   *)
(* the messages: they deliver an UPDATE, lose it, let it be overtaken by   *)
(* the next one, drop it because the sender no longer has a direct route   *)
(* to its destination, or throw it away because no routing daemon is       *)
(* connected where it arrives.  To be overtaken is no fault: a packet that *)
(* waits for an ARP reply does not hold back those behind it, as long as   *)
(* the ARP caches are filled.  Mipd.tla models the MIP daemons in detail.  *)
(***************************************************************************)
EXTENDS RoutingTable, FiniteSets

CONSTANTS
    Links,        \* the cables: a symmetric set of pairs of addresses
    UpdateCap,    \* bound on the UPDATEs in flight from one node to another
    MaxFaults,    \* bound on crashes, cut links and losses
    MaxOvertakes  \* bound on the UPDATEs that are overtaken

ASSUME LinksAssumption ==
    /\ Links \subseteq Addr \X Addr
    /\ \A n, m \in Addr : <<n, m>> \in Links => <<m, n>> \in Links /\ n # m
ASSUME BoundsAssumption ==
    UpdateCap \in Nat \ {0} /\ MaxFaults \in Nat /\ MaxOvertakes \in Nat

VARIABLES
    running,     \* running[n]: the routing daemon of n is up
    table,       \* table[n]: its routing table
    checkins,    \* checkins[n]: the nodes that have checked in at n
    hellos,      \* HELLOs in flight, as pairs <<sender, receiver>>
    updates,     \* updates[<<s, n>>]: vectors in flight from s to n, in order
    links,       \* the cables that are plugged in
    faults,      \* number of faults so far
    overtakes    \* number of UPDATEs that have been overtaken so far

counts == <<faults, overtakes>>
vars == <<running, table, checkins, hellos, updates, links, faults, overtakes>>

Vector == [Addr -> Cost]

TypeOK ==
    /\ running \in [Addr -> BOOLEAN]
    /\ table \in [Addr -> [Addr -> Seq(Route)]]
    /\ checkins \in [Addr -> SUBSET Addr]
    /\ hellos \in SUBSET Links
    /\ updates \in [Links -> Seq(Vector)]
    /\ links \in SUBSET Links
    /\ faults \in Nat /\ overtakes \in Nat

Init ==
    /\ running = [n \in Addr |-> FALSE]
    /\ table = [n \in Addr |-> EmptyTable]
    /\ checkins = [n \in Addr |-> {}]
    /\ hellos = {}
    /\ updates = [c \in Links |-> <<>>]
    /\ links = Links
    /\ faults = 0 /\ overtakes = 0
---------------------------------------------------------------------------
\* A vector is on its way from s to n.
Pending(s, n) == <<s, n>> \in Links /\ updates[<<s, n>>] # <<>>

(* Sending.  A HELLO is a MIP broadcast with time to live one: it reaches  *)
(* the nodes at the other end of the cables.                               *)

\* Fault: a node hears its own broadcast.
HellosWithEcho(n) == {link \in links : link[1] = n} \union {<<n, n>>}

HellosFrom(n) == {link \in links : link[1] = n}

\* updates with one vector more from n to each of its neighbours, each made
\* for that neighbour; what is sent over a cut cable or a full channel is lost.
WithUpdates(n, routes, channels) ==
    [c \in Links |->
        IF /\ c[1] = n
           /\ c \in links
           /\ c[2] \in GetAllNeighbours(routes)
           /\ Len(channels[c]) < UpdateCap
        THEN Append(channels[c], GetAllFastestRoutesForNeighbour(routes, c[2]))
        ELSE channels[c]]
---------------------------------------------------------------------------
(* The daemon.                                                             *)

Start(n) ==
    /\ ~running[n]
    /\ running' = [running EXCEPT ![n] = TRUE]
    /\ table' = [table EXCEPT ![n] = EmptyTable]
    /\ checkins' = [checkins EXCEPT ![n] = {}]
    /\ hellos' = hellos \union HellosFrom(n)
    /\ UNCHANGED <<updates, links, counts>>

SendHello(n) ==
    /\ running[n]
    /\ hellos' = hellos \union HellosFrom(n)
    /\ UNCHANGED <<running, table, checkins, updates, links, counts>>

HandleHello(n, s) ==
    /\ running[n]
    /\ <<s, n>> \in hellos
    /\ UNCHANGED <<running, links, counts>>
    /\ hellos' = hellos \ {<<s, n>>}
    /\ checkins' = [checkins EXCEPT ![n] = @ \union {s}]
    /\ table' = [table EXCEPT ![n] = LearnNeighbour(@, s)]
    /\ updates' = WithUpdates(n, table'[n], updates)

HandleUpdate(n, s) ==
    /\ running[n]
    /\ Pending(s, n)
    /\ UNCHANGED <<running, checkins, hellos, links, counts>>
    /\ LET received == Head(updates[<<s, n>>])
           rest == [updates EXCEPT ![<<s, n>>] = Tail(@)]
       IN  /\ table' = [table EXCEPT
                           ![n] = ApplyVector(@, s, received)]
           /\ updates' = IF FastestRouteChanged(table[n], table'[n], s, received)
                         THEN WithUpdates(n, table'[n], rest)
                         ELSE rest

\* Fault: nobody is found to have fallen silent.
NobodyTimedOut(n) == {}

TimedOut(n) == GetAllNeighbours(table[n]) \ checkins[n]

CheckTimeouts(n) ==
    /\ running[n]
    /\ UNCHANGED <<running, hellos, links, counts>>
    /\ table' = [table EXCEPT ![n] = SetHopsUnreachable(@, TimedOut(n))]
    /\ checkins' = [checkins EXCEPT ![n] = @ \ GetAllNeighbours(table[n])]
    /\ updates' = IF TimedOut(n) # {} THEN WithUpdates(n, table'[n], updates)
                  ELSE updates
---------------------------------------------------------------------------
(* What happens to the messages between two daemons.                       *)

\* No routing daemon is connected to the MIP daemon of n.
Discard(n, s) ==
    /\ ~running[n]
    /\ \/ /\ <<s, n>> \in hellos
          /\ hellos' = hellos \ {<<s, n>>}
          /\ UNCHANGED updates
       \/ /\ Pending(s, n)
          /\ updates' = [updates EXCEPT ![<<s, n>>] = Tail(@)]
          /\ UNCHANGED hellos
    /\ UNCHANGED <<running, table, checkins, links, counts>>

\* The MIP daemon of s asks its routing daemon for the way to n, and the
\* answer is no longer n itself.
Unroutable(n, s) ==
    /\ Pending(s, n)
    /\ ~running[s] \/ AnswerRequest(table[s], n) # n
    /\ updates' = [updates EXCEPT ![<<s, n>>] = Tail(@)]
    /\ UNCHANGED <<running, table, checkins, hellos, links, counts>>

LoseHello(n, s) ==
    /\ faults < MaxFaults
    /\ <<s, n>> \in hellos
    /\ hellos' = hellos \ {<<s, n>>}
    /\ faults' = faults + 1
    /\ UNCHANGED <<running, table, checkins, updates, links, overtakes>>

LoseUpdate(n, s) ==
    /\ faults < MaxFaults
    /\ Pending(s, n)
    /\ updates' = [updates EXCEPT ![<<s, n>>] = Tail(@)]
    /\ faults' = faults + 1
    /\ UNCHANGED <<running, table, checkins, hellos, links, overtakes>>

\* The first vector waits for an ARP response, or asks for its route again
\* after it, while later ones find the neighbour in the cache.
Overtake(n, s) ==
    /\ overtakes < MaxOvertakes
    /\ Pending(s, n) /\ Len(updates[<<s, n>>]) > 1
    /\ updates' = [updates EXCEPT ![<<s, n>>] = Append(Tail(@), Head(@))]
    /\ overtakes' = overtakes + 1
    /\ UNCHANGED <<running, table, checkins, hellos, links, faults>>

Crash(n) ==
    /\ faults < MaxFaults
    /\ running[n]
    /\ running' = [running EXCEPT ![n] = FALSE]
    /\ table' = [table EXCEPT ![n] = EmptyTable]
    /\ checkins' = [checkins EXCEPT ![n] = {}]
    /\ faults' = faults + 1
    /\ UNCHANGED <<hellos, updates, links, overtakes>>

LinkDown(n, m) ==
    /\ faults < MaxFaults
    /\ <<n, m>> \in links
    /\ links' = links \ {<<n, m>>, <<m, n>>}
    /\ faults' = faults + 1
    /\ UNCHANGED <<running, table, checkins, hellos, updates, overtakes>>

LinkUp(n, m) ==
    /\ <<n, m>> \in Links \ links
    /\ links' = links \union {<<n, m>>, <<m, n>>}
    /\ UNCHANGED <<running, table, checkins, hellos, updates, counts>>

Environment(n, m) ==
    \/ Discard(n, m)
    \/ Unroutable(n, m)
    \/ LoseHello(n, m)
    \/ LoseUpdate(n, m)
    \/ Overtake(n, m)
    \/ LinkDown(n, m)
    \/ LinkUp(n, m)

Receive(n, s) == HandleHello(n, s) \/ HandleUpdate(n, s)

Next ==
    \/ \E n \in Addr : Start(n) \/ SendHello(n) \/ CheckTimeouts(n) \/ Crash(n)
    \/ \E n, s \in Addr : Receive(n, s) \/ Environment(n, s)

Spec == Init /\ [][Next]_vars
---------------------------------------------------------------------------
\* A daemon does not know its own address and never discards itself from the
\* vectors it receives: only the poisoned reverse of its neighbours keeps a
\* node from learning a route to itself (get_all_fastest_routes_for_neighbour).
NoRouteToSelf == \A n \in Addr : table[n][n] = <<>>

\* A route is offered only through a next hop that is itself a neighbour now:
\* a neighbour that timed out takes every route through it along
\* (set_hop_unreachable), whatever late UPDATEs arrive afterwards.
UsableHopIsNeighbour ==
    \A n \in Addr :
        LET neighbours == GetAllNeighbours(table[n])
        IN  \A d \in Addr : \A i \in DOMAIN table[n][d] :
                table[n][d][i].cost < MaxCost
                    => table[n][d][i].next_hop \in neighbours

\* An answer can be acted upon: it names a neighbour of the moment, or says
\* that there is no route when there is none, whatever timeouts and late
\* UPDATEs have left in the list (handle_request_message).  Not for the
\* address zero, which as a next hop means that there is no route.
AnswerIsUsable ==
    \A n, d \in Addr :
        LET answer == AnswerRequest(table[n], d)
        IN  \/ /\ answer = Unreachable
               /\ \A i \in DOMAIN table[n][d] : table[n][d][i].cost = MaxCost
            \/ /\ answer # Unreachable
               /\ answer \in GetAllNeighbours(table[n])

\* A neighbour is reached directly: the daemon sends UPDATEs, with time to
\* live one, to exactly the nodes at cost one (send_update_messages), which
\* no route through a third node may stand for.
NeighbourIsDirect ==
    \A n, d \in Addr :
        d \in GetAllNeighbours(table[n])
            => FindFastestRoute(table[n][d]).next_hop = d

\* A vector that changes the table is followed by one to every neighbour, so
\* that the last they hear is what the table holds now (handle_update_message).
ChangeIsAnnounced ==
    [][\A n, s \in Addr :
        HandleUpdate(n, s) /\ table'[n] # table[n] =>
            \A m \in GetAllNeighbours(table'[n]) :
                <<n, m>> \in links /\ Len(updates[<<n, m>>]) < UpdateCap
                    => /\ updates'[<<n, m>>] # <<>>
                       /\ Last(updates'[<<n, m>>])
                            = GetAllFastestRoutesForNeighbour(table'[n], m)]_vars

\* Whoever has checked in is examined by the next timeout check, so no
\* check-in outlives the check that should have consumed it and vouches for
\* a neighbour that has fallen silent (uncheckin_node in main).
CheckedInIsNeighbour ==
    \A n \in Addr : checkins[n] \subseteq GetAllNeighbours(table[n])

\* What is certain about the way to a node: a number that is zero there and
\* differs by one at most from one end of a cable to the other, so that no
\* path is shorter, and MaxCost where there is none.
LowerBounds ==
    {bound \in [Addr -> Cost] :
        \A link \in Links : bound[link[1]] <= bound[link[2]] + 1}

\* No node takes a path for shorter than the cables allow, or one for usable
\* that no cables make, in any network: whatever is late, lost, overtaken or
\* counted up in a cycle, no cost is understated (update.c:127).
NoShortcut ==
    \A bound \in LowerBounds : \A n, d \in Addr :
        bound[d] = 0 => \A i \in DOMAIN table[n][d] : table[n][d][i].cost >= bound[n]

\* A packet that follows the answers of the routing daemons never comes back
\* to a node it has left: in no set of nodes does every answer for some
\* destination stay within the set (handle_request_message).
LoopFree ==
    \A d \in Addr : \A S \in (SUBSET Addr) \ {{}} :
        \E n \in S : AnswerRequest(table[n], d) \notin S
===========================================================================

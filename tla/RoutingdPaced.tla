---------------------------- MODULE RoutingdPaced ----------------------------
(***************************************************************************)
(* The routing daemons with the timers of routingd/main.c: every daemon    *)
(* sends a HELLO each 5 seconds and looks for silent neighbours each 10    *)
(* seconds.  Between two checks each live neighbour has therefore sent at  *)
(* least one HELLO, and with delays well below the intervals it has been   *)
(* handled.  The clock is abstracted to that: a check waits for the HELLO  *)
(* of every neighbour that is up and connected.                            *)
(***************************************************************************)
EXTENDS Routingd

LiveNeighbours(n) == {m \in Addr : <<n, m>> \in links /\ running[m]}

PacedCheck(n) == LiveNeighbours(n) \subseteq checkins[n] /\ CheckTimeouts(n)

\* The daemons have just been started: the initial HELLOs are on their way.
PacedInit ==
    /\ running = [n \in Addr |-> TRUE]
    /\ table = [n \in Addr |-> EmptyTable]
    /\ checkins = [n \in Addr |-> {}]
    /\ hellos = Links
    /\ updates = [c \in Links |-> <<>>]
    /\ links = Links
    /\ faults = 0 /\ overtakes = 0

\* The daemons by themselves, when nothing is cut, plugged in or restarted.
QuietNext ==
    \/ \E n \in Addr : SendHello(n) \/ PacedCheck(n)
    \/ \E n, s \in Addr : Receive(n, s)

PacedNext ==
    \/ QuietNext
    \/ \E n \in Addr : Start(n) \/ Crash(n)
    \/ \E n, s \in Addr : Environment(n, s)

\* The main loop of a running daemon polls its socket and its timers for ever.
Fairness ==
    /\ \A n \in Addr : WF_vars(SendHello(n)) /\ WF_vars(PacedCheck(n))
    /\ \A link \in Links :
        /\ WF_vars(HandleHello(link[1], link[2]))
        /\ WF_vars(HandleUpdate(link[1], link[2]))

PacedSpec == PacedInit /\ [][PacedNext]_vars /\ Fairness

\* The same, with each daemon started when it likes.
ColdSpec == Init /\ [][PacedNext]_vars

\* No channel is full: no vector is lost to the bound on them, which is the
\* model's.
Roomy == \A c \in Links : Len(updates[c]) < UpdateCap
---------------------------------------------------------------------------
\* The nodes within k live links of n.
Within(n, k) ==
    LET ball[i \in 0..k] ==
            IF i = 0 THEN {n}
            ELSE ball[i - 1] \union
                 UNION {LiveNeighbours(m) : m \in ball[i - 1]}
    IN  ball[k]

\* What the table of n should hold for d in the network as it is now.
Distance(n, d) ==
    CHOOSE k \in Cost :
        /\ k = MaxCost \/ d \in Within(n, k)
        /\ \A j \in 0..(k - 1) : d \notin Within(n, j)

Converged ==
    \A n \in Addr : running[n] =>
        \A d \in Addr \ {n} :
            FindFastestRoute(table[n][d]).cost = Distance(n, d)

\* Once faults cease, every daemon ends up with the exact cost of every node
\* it can reach, for good, and with no route to a node that is gone: the
\* periodic HELLO makes its receivers announce their vectors again, which
\* repairs whatever a lost, late or overtaken UPDATE left behind.
Converges == <>[]Converged

\* What n takes the way to d to cost.
CostTo(n, d) == IF n = d THEN 0 ELSE FindFastestRoute(table[n][d]).cost

\* Nothing has been lost, cut or crashed, and every UPDATE was read after those
\* that had been sent before it.
Orderly == faults = 0 /\ overtakes = 0

\* As long as that is so no cost ever rises, in any network: a neighbour that
\* begins to route through this node poisons only routes that this node does
\* not use, because its own cost was higher (delete_route in update.c:122).
\* An UPDATE that is overtaken at a cold ARP cache may make a cost rise.
CalmCostsFall ==
    [][Orderly' => \A n, d \in Addr : CostTo(n, d)' <= CostTo(n, d)]_vars

\* As long as that is so no packet that follows the answers comes back to a node
\* it has left, though the cables form cycles and tables are incomplete.
CalmLoopFree == Orderly => LoopFree

\* Numbers that are zero at d and fall by one at most from one end to the other
\* of a cable between two daemons.  None is more than the distance to d, which
\* is therefore the greatest of them.
LiveBounds(d) ==
    {bound \in [Addr -> Cost] :
        /\ bound[d] = 0
        /\ \A n \in Addr : running[n] =>
            \A m \in LiveNeighbours(n) : bound[n] <= bound[m] + 1}
AreDistances(d, cost) ==
    cost \in LiveBounds(d) /\ \A bound \in LiveBounds(d), n \in Addr : bound[n] <= cost[n]

\* When such a network falls silent, every daemon that is up has the exact cost
\* of each node, in whatever order they have been started: no UPDATE that
\* matters is left out, although only changes of a fastest cost are announced
\* and poisoned entries say nothing of it (fastest_route_changed in
\* update.c:135, get_all_fastest_routes_for_neighbour).  Not when an UPDATE has
\* been overtaken, as may happen while ARP caches are cold: then the older one
\* is believed until its sender is moved by a HELLO to send another.
Silent == hellos = {} /\ \A c \in Links : updates[c] = <<>>
SilenceIsExact ==
    Orderly /\ Silent =>
        \A d \in Addr : AreDistances(d, [n \in Addr |-> CostTo(n, d)])
===========================================================================

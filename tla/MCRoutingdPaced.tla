--------------------------- MODULE MCRoutingdPaced ---------------------------
(***************************************************************************)
(* Small networks for the routing daemons with paced timers: two nodes     *)
(* with faults, three in a line from scratch or after an UPDATE has been   *)
(* overtaken, and a ring of three, from scratch or when it has converged   *)
(* and loses a cable or a daemon.                                          *)
(***************************************************************************)
EXTENDS RoutingdPaced

Pair == 1..2
Trio == 1..3

Cable == {<<1, 2>>, <<2, 1>>}
Line == {<<1, 2>>, <<2, 1>>, <<2, 3>>, <<3, 2>>}
Ring == Line \union {<<1, 3>>, <<3, 1>>}

\* All three in a line have just been started, and no fault happens; or two
\* have, with the third one absent, and any faults may happen to them.
JustStarted ==
    /\ table = [n \in Trio |-> EmptyTable]
    /\ checkins = [n \in Trio |-> {}]
    /\ updates = [c \in Ring |-> <<>>]
    /\ \/ /\ running = [n \in Trio |-> TRUE]
          /\ links = Line
          /\ faults = MaxFaults
       \/ /\ running = [n \in Trio |-> n \in Pair]
          /\ links = Cable
          /\ faults = 0
    /\ hellos = links /\ overtakes = 0

PairFaults ==
    /\ ~running[3] /\ links \subseteq Cable
    /\ \/ \E n \in Pair : Start(n) \/ Crash(n)
       \/ \E n, s \in Pair : Environment(n, s)

\* Each node of the ring knows each other one directly and through the third.
RingTable(n) ==
    [d \in Trio |->
        IF d = n THEN <<>>
        ELSE <<[next_hop |-> d, cost |-> 1],
               [next_hop |-> CHOOSE h \in Trio \ {n, d} : TRUE, cost |-> 2]>>]

\* The ring is quiet and all have just checked in, but for 2 at 3, which was
\* the last to look for silent neighbours; then the cable between 2 and 3 or
\* the daemon of 3 is gone.
RingBroken ==
    /\ checkins = [n \in Trio |-> IF n = 3 THEN {1} ELSE Trio \ {n}]
    /\ hellos = {}
    /\ updates = [c \in Ring |-> <<>>]
    /\ faults = MaxFaults /\ overtakes = 0
    /\ \/ /\ running = [n \in Trio |-> TRUE]
          /\ table = [n \in Trio |-> RingTable(n)]
          /\ links = Ring \ {<<2, 3>>, <<3, 2>>}
       \/ /\ running = [n \in Trio |-> n # 3]
          /\ table = [n \in Trio |-> IF n = 3 THEN EmptyTable ELSE RingTable(n)]
          /\ links = Ring

\* The line is quiet, but the last UPDATE that 1 has read is the one that 2 sent
\* before it heard of 3: the second was not kept waiting for an ARP response.
LineOvertaken ==
    /\ running = [n \in Trio |-> TRUE]
    /\ table = [n \in Trio |-> [d \in Trio |->
                  IF <<n, d>> \in Line THEN <<[next_hop |-> d, cost |-> 1]>>
                  ELSE IF n = 3 /\ d = 1 THEN <<[next_hop |-> 2, cost |-> 2]>>
                  ELSE <<>>]]
    /\ checkins = [n \in Trio |-> {}]
    /\ hellos = {}
    /\ updates = [c \in Ring |-> <<>>]
    /\ links = Line
    /\ faults = MaxFaults /\ overtakes = MaxOvertakes

ConvergeSpec ==
    /\ JustStarted \/ RingBroken \/ LineOvertaken
    /\ [][QuietNext \/ PairFaults]_vars /\ Fairness

\* A ring or a line in which each daemon is started when it likes.
CalmInit ==
    /\ running = [n \in Trio |-> FALSE]
    /\ table = [n \in Trio |-> EmptyTable]
    /\ checkins = [n \in Trio |-> {}]
    /\ hellos = {}
    /\ updates = [c \in Ring |-> <<>>]
    /\ links \in {Ring, Line}
    /\ faults = 0 /\ overtakes = 0
CalmSpec == CalmInit /\ [][PacedNext /\ Roomy' /\ UNCHANGED links]_vars

\* Bound on the state space of the ring that starts from scratch: messages in
\* flight in the whole network.
AtMostThreeInFlight ==
    Cardinality(hellos) + MapThenSumSet(LAMBDA c : Len(updates[c]), Links) <= 3
===========================================================================

---------------------------- MODULE UpperProofs ----------------------------
(***************************************************************************)
(* The table of clients of one daemon, for every set of clients and every  *)
(* size of the table and of the backlog.                                   *)
(*                                                                         *)
(* The properties of Upper.tla are inductive only together with two facts  *)
(* about the moments in between: an admitted client that has not said its  *)
(* type has already gone, so that it never says another one, and a client  *)
(* is identified while mipd still listens, on a descriptor that nobody in  *)
(* the table has.                                                          *)
(***************************************************************************)
EXTENDS Upper, TLAPS

Distinct ==
    \A i, j \in DOMAIN accepted : accepted[i].usd = accepted[j].usd => i = j

EntriesOK ==
    \A i \in DOMAIN accepted :
        LET c == socket[accepted[i].usd]
        IN  /\ c # None
            /\ c \in told => accepted[i].type = Kind[c]
            /\ c \in told \/ c \notin running

IdentifyingOK ==
    identifying # None => /\ listening
                          /\ socket[identifying] # None
                          /\ identifying \notin Admitted

IInv == /\ TypeOK /\ Distinct /\ EntriesOK /\ IdentifyingOK
        /\ LostWithListener /\ OnlyDaemonIsReached
---------------------------------------------------------------------------
\* The table without entry i.
LEMMA CloseUsdFacts ==
    ASSUME NEW usds \in Seq(AcceptedUsd), NEW i \in DOMAIN usds
    PROVE  /\ CloseUsd(usds, i) \in Seq(AcceptedUsd)
           /\ Len(CloseUsd(usds, i)) = Len(usds) - 1
           /\ \A j \in 1..(Len(usds) - 1) :
                CloseUsd(usds, i)[j] = IF j < i THEN usds[j] ELSE usds[j + 1]
<1> DEFINE left == SubSeq(usds, 1, i - 1)
           right == SubSeq(usds, i + 1, Len(usds))
<1>1. i \in 1..Len(usds) /\ Len(usds) \in Nat
  OBVIOUS
<1>2. left \in Seq(AcceptedUsd) /\ Len(left) = i - 1
      /\ \A j \in 1..(i - 1) : left[j] = usds[j]
  BY <1>1
<1>3. right \in Seq(AcceptedUsd) /\ Len(right) = Len(usds) - i
      /\ \A j \in 1..(Len(usds) - i) : right[j] = usds[i + j]
  BY <1>1
<1>4. CloseUsd(usds, i) = left \o right
  BY DEF CloseUsd, RemoveAt
<1> HIDE DEF left, right
<1>5. /\ left \o right \in Seq(AcceptedUsd)
      /\ Len(left \o right) = Len(usds) - 1
  BY <1>1, <1>2, <1>3
<1>6. ASSUME NEW j \in 1..(Len(usds) - 1)
      PROVE  (left \o right)[j] = IF j < i THEN usds[j] ELSE usds[j + 1]
  <2>1. CASE j < i
    BY <2>1, <1>1, <1>2, <1>3
  <2>2. CASE j >= i
    <3>1. (left \o right)[j] = right[j - (i - 1)]
      BY <2>2, <1>1, <1>2, <1>3, SMTT(30)
    <3>2. right[j - (i - 1)] = usds[i + (j - (i - 1))]
      BY <2>2, <1>1, <1>3
    <3>. QED
      BY <3>1, <3>2, <2>2, <1>1
  <2>3. j < i \/ j >= i
    BY <1>1
  <2>. QED
    BY <2>1, <2>2, <2>3
<1>. QED
  BY <1>4, <1>5, <1>6
---------------------------------------------------------------------------
LEMMA InitIInv == Init => IInv
<1> SUFFICES ASSUME Init PROVE IInv
  OBVIOUS
<1>1. TypeOK
  <2>1. unread \in [Client -> 0..MaxUnread]
    BY BoundsAssumption DEF Init
  <2>2. queue \in Seq(Client) /\ accepted \in Seq(AcceptedUsd)
    BY DEF Init
  <2>3. Len(accepted) <= MaxUsds
    BY BoundsAssumption DEF Init
  <2>. QED
    BY <2>1, <2>2, <2>3 DEF Init, TypeOK
<1>2. Distinct /\ EntriesOK /\ IdentifyingOK
  BY DEF Init, Distinct, EntriesOK, IdentifyingOK
<1>3. LostWithListener /\ OnlyDaemonIsReached
  BY DEF Init, LostWithListener, Unheard, OnlyDaemonIsReached, Admitted
<1>. QED
  BY <1>1, <1>2, <1>3 DEF IInv

\* What a client does by itself changes nothing in the daemon.
LEMMA ClientStep ==
    ASSUME IInv, TypeOK', EntriesOK',
           UNCHANGED <<listening, socket, identifying, accepted, pointer>>,
           \A i \in DOMAIN accepted :
               socket[accepted[i].usd] \in told' => socket[accepted[i].usd] \in told
    PROVE  IInv'
<1>1. Distinct' /\ IdentifyingOK' /\ LostWithListener'
  BY DEF IInv, Distinct, IdentifyingOK, LostWithListener, Unheard, Admitted
<1>2. OnlyDaemonIsReached'
  BY DEF IInv, OnlyDaemonIsReached, Admitted, pointer
<1>. QED
  BY <1>1, <1>2 DEF IInv

LEMMA ConnectStep == ASSUME IInv, NEW c \in Client, Connect(c) PROVE IInv'
<1>1. TypeOK'
  BY DEF IInv, TypeOK, Connect, pointer
<1>2. EntriesOK'
  <2> SUFFICES ASSUME NEW i \in DOMAIN accepted
               PROVE  LET d == socket[accepted[i].usd]
                      IN  /\ d # None
                          /\ d \in told => accepted[i].type = Kind[d]
                          /\ d \in told \/ d \notin running'
    BY DEF EntriesOK, Connect
  <2>1. accepted[i].usd \in Fd
    <3>1. accepted[i] \in AcceptedUsd
      BY DEF IInv, TypeOK
    <3>. QED
      BY <3>1 DEF AcceptedUsd
  <2>2. socket[accepted[i].usd] # c
    BY <2>1 DEF Connect, IsOpen
  <2>. QED
    BY <2>2 DEF IInv, EntriesOK, Connect
<1>. QED
  BY <1>1, <1>2, ClientStep DEF Connect

LEMMA SayTypeStep == ASSUME IInv, NEW c \in Client, SayType(c) PROVE IInv'
<1>1. TypeOK'
  BY DEF IInv, TypeOK, SayType, pointer
<1>2. \A i \in DOMAIN accepted : socket[accepted[i].usd] # c
  BY DEF IInv, EntriesOK, SayType
<1>3. EntriesOK'
  BY <1>2 DEF IInv, EntriesOK, SayType
<1>. QED
  BY <1>1, <1>2, <1>3, ClientStep DEF SayType

LEMMA SendStep == ASSUME IInv, NEW c \in Client, Send(c) PROVE IInv'
<1>1. unread' \in [Client -> 0..MaxUnread]
  BY BoundsAssumption DEF IInv, TypeOK, Send
<1>2. TypeOK' /\ EntriesOK'
  BY <1>1 DEF IInv, TypeOK, EntriesOK, Send, pointer
<1>. QED
  BY <1>2, ClientStep DEF Send

LEMMA ExitStep == ASSUME IInv, NEW c \in Client, Exit(c) PROVE IInv'
<1>1. TypeOK' /\ EntriesOK'
  BY DEF IInv, TypeOK, EntriesOK, Exit, pointer
<1>. QED
  BY <1>1, ClientStep DEF Exit
---------------------------------------------------------------------------
\* A descriptor that is given out belongs to nobody.
LEMMA AcceptUsdStep == ASSUME IInv, AcceptUsd PROVE IInv'
<1>1. PICK f \in Fd : /\ socket[f] = None
                       /\ socket' = [socket EXCEPT ![f] = Head(queue)]
                       /\ identifying' = f
  BY DEF AcceptUsd
<1>2. /\ Head(queue) \in Client /\ Head(queue) # None
      /\ queue' \in Seq(Client)
  BY ClientAssumption DEF IInv, TypeOK, AcceptUsd
<1>3. TypeOK'
  BY <1>1, <1>2 DEF IInv, TypeOK, AcceptUsd, clients, pointer
<1>4. f \notin Admitted /\ Admitted' = Admitted
  BY <1>1 DEF IInv, EntriesOK, Admitted, AcceptUsd
<1>5. \A g \in Admitted : socket'[g] = socket[g]
  BY <1>1, <1>4 DEF IInv, TypeOK
<1>6. Distinct' /\ EntriesOK'
  BY <1>5 DEF IInv, Distinct, EntriesOK, Admitted, AcceptUsd, clients
<1>7. IdentifyingOK'
  BY <1>1, <1>2, <1>4 DEF IInv, TypeOK, IdentifyingOK, AcceptUsd
<1>8. LostWithListener'
  <2>1. listening /\ listening' /\ Unheard = {}
    BY DEF IInv, LostWithListener, AcceptUsd
  <2>2. \A g \in Fd : g # f => socket'[g] = socket[g]
    BY <1>1 DEF IInv, TypeOK
  <2>3. identifying = None /\ None \notin Fd
    BY ClientAssumption DEF AcceptUsd
  <2>4. Unheard' = {}
    BY <1>1, <1>4, <2>1, <2>2, <2>3 DEF Unheard
  <2>. QED
    BY <2>1, <2>4 DEF LostWithListener
<1>9. OnlyDaemonIsReached'
  <2> SUFFICES ASSUME NEW r \in Client,
                      {c \in Client : Kind[c] = "routing"} = {r},
                      NEW g \in Admitted, socket'[g] = r, r \in told
               PROVE  mistaken \/ (routing_usd # None /\ socket'[routing_usd] = r)
    BY <1>4 DEF OnlyDaemonIsReached, AcceptUsd, clients, pointer
  <2>1. socket[g] = r
    BY <1>5
  <2>2. mistaken \/ (routing_usd # None /\ socket[routing_usd] = r)
    BY <2>1 DEF IInv, OnlyDaemonIsReached
  <2>3. routing_usd # None /\ socket[routing_usd] = r => routing_usd # f
    BY <1>1, ClientAssumption
  <2>. QED
    BY <1>1, <2>2, <2>3 DEF IInv, TypeOK
<1>. QED
  BY <1>3, <1>6, <1>7, <1>8, <1>9 DEF IInv
---------------------------------------------------------------------------
\* What is recorded of an entry is a descriptor and one of two types.
LEMMA EntryType ==
    ASSUME NEW usds \in Seq(AcceptedUsd), NEW i \in DOMAIN usds
    PROVE  usds[i].usd \in Fd /\ usds[i].type \in Type
<1>1. usds[i] \in AcceptedUsd
  OBVIOUS
<1>. QED
  BY <1>1 DEF AcceptedUsd, Type

\* A client is rejected: its descriptor is the one that is lost, and mipd
\* no longer listens.
LEMMA RejectStep ==
    ASSUME IInv, identifying # None, Reject,
           identifying' = None, UNCHANGED <<socket, accepted>>
    PROVE  Distinct' /\ EntriesOK' /\ IdentifyingOK' /\ LostWithListener'
<1>1. Distinct' /\ IdentifyingOK'
  BY DEF IInv, Distinct, IdentifyingOK
<1>2. EntriesOK'
  <2> SUFFICES ASSUME NEW i \in DOMAIN accepted
               PROVE  LET d == socket[accepted[i].usd]
                      IN  /\ d # None
                          /\ d \in told' => accepted[i].type = Kind[d]
                          /\ d \in told' \/ d \notin running'
    BY DEF EntriesOK
  <2> DEFINE d == socket[accepted[i].usd]
  <2>1. /\ d # None
        /\ d \in told => accepted[i].type = Kind[d]
        /\ d \in told \/ d \notin running
    BY DEF IInv, EntriesOK
  <2>2. told' = told \ ToSet(queue) /\ running' = running \ ToSet(queue)
    BY DEF Reject
  <2>. QED
    BY <2>1, <2>2
<1>3. LostWithListener'
  <2>1. identifying \in Fd /\ socket[identifying] # None
        /\ identifying \notin Admitted /\ Unheard = {}
    BY DEF IInv, TypeOK, IdentifyingOK, LostWithListener
  <2>2. Admitted' = Admitted
    BY DEF Admitted
  <2>3. None \notin Fd
    BY ClientAssumption
  <2>4. Unheard' = {identifying}
    BY <2>1, <2>2, <2>3 DEF Unheard
  <2>5. listening' = FALSE
    BY DEF Reject
  <2>. QED
    BY <2>1, <2>4, <2>5 DEF LostWithListener
<1>. QED
  BY <1>1, <1>2, <1>3

\* A client is admitted, on a descriptor that is new to the table.
LEMMA AdmitStep ==
    ASSUME IInv, identifying # None, Readable(socket[identifying]),
           NEW type \in TypesRead(socket[identifying]), type # "other", ~IsFull,
           accepted' = Append(accepted, [usd |-> identifying, type |-> type]),
           identifying' = None, UNCHANGED <<clients, queue, listening, socket>>
    PROVE  /\ accepted' \in Seq(AcceptedUsd) /\ Len(accepted') <= MaxUsds
           /\ Admitted' = Admitted \union {identifying}
           /\ Distinct' /\ EntriesOK' /\ IdentifyingOK' /\ LostWithListener'
<1> DEFINE new == [usd |-> identifying, type |-> type]
           n == Len(accepted)
<1>1. /\ identifying \in Fd /\ socket[identifying] # None
      /\ identifying \notin Admitted /\ listening
  BY DEF IInv, TypeOK, IdentifyingOK
<1>2. socket[identifying] \in Client
  BY <1>1 DEF IInv, TypeOK
<1>3. type \in Type
  BY <1>2, ClientAssumption DEF TypesRead
<1>4. new \in AcceptedUsd
  BY <1>1, <1>3 DEF AcceptedUsd, Type
<1>5. accepted \in Seq(AcceptedUsd) /\ n \in Nat /\ n <= MaxUsds
  BY DEF IInv, TypeOK
<1>6. accepted' \in Seq(AcceptedUsd) /\ Len(accepted') = n + 1
  BY <1>4, <1>5
<1>7. /\ DOMAIN accepted = 1..n /\ DOMAIN accepted' = 1..(n + 1)
      /\ \A i \in 1..n : accepted'[i] = accepted[i]
      /\ accepted'[n + 1] = new
  BY <1>4, <1>5, <1>6
<1>8. Len(accepted') <= MaxUsds
  BY <1>5, <1>6, BoundsAssumption DEF IsFull
<1> DEFINE u == identifying
<1>a. new.usd = u /\ new.type = type
  OBVIOUS
<1> HIDE DEF new, n
<1>b. \A i \in 1..n : i \in 1..(n + 1) /\ n + 1 \in 1..(n + 1)
      /\ accepted'[i].usd = accepted[i].usd /\ accepted[i].usd # u
  BY <1>1, <1>5, <1>7 DEF Admitted
<1>c. \A i \in 1..(n + 1) : i \in 1..n \/ i = n + 1
  BY <1>5
<1>d. n + 1 \in 1..(n + 1)
  BY <1>5
<1>9. Admitted' = Admitted \union {u}
  <2>1. Admitted' = {accepted'[i].usd : i \in 1..(n + 1)}
        /\ Admitted = {accepted[i].usd : i \in 1..n}
    BY <1>7 DEF Admitted
  <2>2. ASSUME NEW g \in Admitted' PROVE g \in Admitted \union {u}
    <3>1. PICK i \in 1..(n + 1) : g = accepted'[i].usd
      BY <2>1
    <3>. QED
      BY <3>1, <2>1, <1>7, <1>a, <1>b, <1>c
  <2>3. ASSUME NEW g \in Admitted PROVE g \in Admitted'
    <3>1. PICK i \in 1..n : g = accepted[i].usd
      BY <2>1
    <3>. QED
      BY <3>1, <2>1, <1>b
  <2>4. u \in Admitted'
    BY <2>1, <1>7, <1>a, <1>d
  <2>. QED
    BY <2>2, <2>3, <2>4
<1>10. Distinct'
  <2> SUFFICES ASSUME NEW i \in 1..(n + 1), NEW j \in 1..(n + 1),
                      accepted'[i].usd = accepted'[j].usd
               PROVE  i = j
    BY <1>7 DEF Distinct
  <2>1. CASE i \in 1..n /\ j \in 1..n
    BY <2>1, <1>b, <1>7 DEF IInv, Distinct
  <2>2. CASE i = n + 1 \/ j = n + 1
    BY <2>2, <1>7, <1>a, <1>b, <1>c
  <2>. QED
    BY <2>1, <2>2, <1>c
<1>11. EntriesOK'
  <2> SUFFICES ASSUME NEW i \in 1..(n + 1)
               PROVE  LET d == socket[accepted'[i].usd]
                      IN  /\ d # None
                          /\ d \in told => accepted'[i].type = Kind[d]
                          /\ d \in told \/ d \notin running
    BY <1>7 DEF EntriesOK, clients
  <2>1. CASE i \in 1..n
    BY <2>1, <1>7 DEF IInv, EntriesOK
  <2>2. CASE i = n + 1
    <3>1. socket[u] \in told => type = Kind[socket[u]]
      BY DEF TypesRead
    <3>. QED
      BY <2>2, <3>1, <1>1, <1>7, <1>a DEF Readable
  <2>. QED
    BY <2>1, <2>2, <1>c
<1>12. IdentifyingOK'
  BY DEF IdentifyingOK
<1>13. LostWithListener'
  <2>1. Unheard = {}
    BY <1>1 DEF IInv, LostWithListener
  <2>2. Unheard' = {}
    BY <2>1, <1>9 DEF Unheard
  <2>. QED
    BY <2>2, <1>1 DEF LostWithListener
<1>. QED
  BY <1>6, <1>8, <1>9, <1>10, <1>11, <1>12, <1>13

\* The first message of a client is read, or its end of file.
LEMMA HandleUsdRequestStep == ASSUME IInv, HandleUsdRequest PROVE IInv'
<1> DEFINE f == identifying
           c == socket[identifying]
<1>1. PICK type \in TypesRead(c) :
        /\ SetUsd(f, type)
        /\ mistaken' = IF type = "routing" THEN c \notin told ELSE mistaken
        /\ \/ /\ type = "other" \/ IsFull
              /\ Reject
              /\ UNCHANGED accepted
           \/ /\ type # "other" /\ ~IsFull
              /\ accepted' = Append(accepted, [usd |-> f, type |-> type])
              /\ UNCHANGED <<clients, queue, listening>>
  BY DEF HandleUsdRequest
<1>2. /\ f # None /\ f \in Fd /\ Readable(c)
      /\ identifying' = None /\ socket' = socket
      /\ c \in Client /\ c # None /\ f \notin Admitted
  BY DEF HandleUsdRequest, IInv, TypeOK, IdentifyingOK
<1>3. /\ routing_usd' = (IF type = "routing" THEN f ELSE routing_usd)
      /\ type \in Type
      /\ c \in told => type = Kind[c]
  BY <1>1, <1>2, ClientAssumption DEF SetUsd, TypesRead
<1>4. told' \subseteq told
  BY <1>1 DEF Reject, clients
<1>5. TypeOK' /\ Distinct' /\ EntriesOK' /\ IdentifyingOK' /\ LostWithListener'
  <2>1. routing_usd' \in Fd \union {None} /\ mistaken' \in BOOLEAN
    BY <1>1, <1>2, <1>3 DEF IInv, TypeOK
  <2>2. CASE Reject /\ UNCHANGED accepted
    <3>1. unread' \in [Client -> 0..MaxUnread]
      BY <2>2, BoundsAssumption DEF Reject, IInv, TypeOK
    <3>2. queue' \in Seq(Client) /\ listening' \in BOOLEAN
      <4>1. queue' = <<>> /\ listening' = FALSE
        BY <2>2 DEF Reject
      <4>2. <<>> \in Seq(Client)
        OBVIOUS
      <4>. QED
        BY <4>1, <4>2, Zenon
    <3>3. running' \in SUBSET Client /\ told' \in SUBSET Client
      BY <2>2 DEF Reject, IInv, TypeOK
    <3>4. TypeOK'
      BY <1>2, <2>1, <2>2, <3>1, <3>2, <3>3 DEF IInv, TypeOK
    <3>. QED
      BY <1>2, <2>2, <3>4, RejectStep
  <2>3. CASE /\ type # "other" /\ ~IsFull
             /\ accepted' = Append(accepted, [usd |-> f, type |-> type])
             /\ UNCHANGED <<clients, queue, listening>>
    <3>1. /\ accepted' \in Seq(AcceptedUsd) /\ Len(accepted') <= MaxUsds
          /\ Distinct' /\ EntriesOK' /\ IdentifyingOK' /\ LostWithListener'
      BY <1>2, <2>3, AdmitStep
    <3>2. TypeOK'
      BY <1>2, <2>1, <2>3, <3>1 DEF IInv, TypeOK, clients
    <3>. QED
      BY <3>1, <3>2
  <2>. QED
    BY <1>1, <2>2, <2>3
<1>6. OnlyDaemonIsReached'
  <2> SUFFICES ASSUME NEW r \in Client,
                      {d \in Client : Kind[d] = "routing"} = {r},
                      NEW g \in Admitted', socket[g] = r, r \in told'
               PROVE  mistaken' \/ (routing_usd' # None /\ socket[routing_usd'] = r)
    BY <1>2 DEF OnlyDaemonIsReached
  <2>1. CASE type = "routing" /\ c \in told
    BY <2>1, <1>2, <1>3
  <2>2. CASE type = "routing" /\ c \notin told
    BY <2>2, <1>1
  <2>3. CASE type # "routing"
    <3>1. Kind[r] = "routing" /\ r \in told
      BY <1>4
    <3>2. g # f
      BY <2>3, <3>1, <1>3
    <3>3. g \in Admitted
      <4>1. CASE UNCHANGED accepted
        BY <4>1 DEF Admitted
      <4>2. CASE /\ type # "other" /\ ~IsFull
                 /\ accepted' = Append(accepted, [usd |-> f, type |-> type])
                 /\ UNCHANGED <<clients, queue, listening>>
        <5>1. Admitted' = Admitted \union {f}
          BY <1>2, <4>2, AdmitStep
        <5>. QED
          BY <5>1, <3>2
      <4>. QED
        BY <1>1, <4>1, <4>2
    <3>4. mistaken \/ (routing_usd # None /\ socket[routing_usd] = r)
      BY <3>1, <3>3 DEF IInv, OnlyDaemonIsReached
    <3>. QED
      BY <3>4, <2>3, <1>1, <1>3
  <2>. QED
    BY <2>1, <2>2, <2>3
<1>. QED
  BY <1>5, <1>6 DEF IInv
---------------------------------------------------------------------------
\* An admitted client has sent a message, or has gone: then its entry goes,
\* its descriptor is free, and it has told nothing on a later connection.
LEMMA HandleUsdEventStep ==
    ASSUME IInv, NEW i \in DOMAIN accepted, HandleUsdEvent(i) PROVE IInv'
<1> DEFINE f == accepted[i].usd
           c == socket[f]
           n == Len(accepted)
<1>1. /\ accepted \in Seq(AcceptedUsd) /\ n \in Nat /\ DOMAIN accepted = 1..n
      /\ f \in Fd /\ c # None /\ c \in Client
  <2>1. accepted \in Seq(AcceptedUsd)
    BY DEF IInv, TypeOK
  <2>2. f \in Fd
    BY <2>1, EntryType
  <2>. QED
    BY <2>1, <2>2 DEF IInv, TypeOK, EntriesOK
<1>2. /\ identifying = None
      /\ UNCHANGED <<running, queue, listening, identifying, routing_usd, mistaken>>
  BY DEF HandleUsdEvent, pointer
<1>3. CASE /\ unread[c] > 0
           /\ unread' = [unread EXCEPT ![c] = @ - 1]
           /\ UNCHANGED <<told, socket, accepted>>
  <2>1. unread' \in [Client -> 0..MaxUnread]
    BY <1>1, <1>3, BoundsAssumption DEF IInv, TypeOK
  <2>2. TypeOK' /\ EntriesOK'
    BY <1>2, <1>3, <2>1 DEF IInv, TypeOK, EntriesOK
  <2>. QED
    BY <1>2, <1>3, <2>2, ClientStep DEF pointer
<1>4. CASE /\ unread[c] = 0 /\ c \notin running
           /\ socket' = [socket EXCEPT ![f] = None]
           /\ accepted' = CloseUsd(accepted, i)
           /\ told' = told \ {c}
           /\ UNCHANGED unread
  <2> DEFINE old(j) == IF j < i THEN j ELSE j + 1
  <2>1. /\ accepted' \in Seq(AcceptedUsd) /\ Len(accepted') = n - 1
        /\ \A j \in 1..(n - 1) :
             accepted'[j] = IF j < i THEN accepted[j] ELSE accepted[j + 1]
    BY <1>1, <1>4, CloseUsdFacts
  <2>2. DOMAIN accepted' = 1..(n - 1)
    BY <1>1, <2>1
  <2>3. \A j \in 1..(n - 1) :
            old(j) \in 1..n /\ old(j) # i /\ accepted'[j] = accepted[old(j)]
    BY <1>1, <2>1
  <2>4. \A j, k \in 1..(n - 1) : old(j) = old(k) => j = k
    BY <1>1
  <2>5. \A k \in 1..n : k # i => \E j \in 1..(n - 1) : old(j) = k
    <3> SUFFICES ASSUME NEW k \in 1..n, k # i
                 PROVE  \E j \in 1..(n - 1) : old(j) = k
      OBVIOUS
    <3>1. CASE k < i
      BY <3>1, <1>1
    <3>2. CASE k > i
      <4>1. k - 1 \in 1..(n - 1) /\ old(k - 1) = k
        BY <3>2, <1>1
      <4>. QED
        BY <4>1
    <3>. QED
      BY <3>1, <3>2, <1>1
  <2>6. \A k \in 1..n : k # i => accepted[k].usd # f
    BY <1>1 DEF IInv, Distinct
  <2> HIDE DEF old
  <2>7. Admitted' = Admitted \ {f}
    <3>1. Admitted' = {accepted'[j].usd : j \in 1..(n - 1)}
          /\ Admitted = {accepted[k].usd : k \in 1..n}
      BY <1>1, <2>2 DEF Admitted
    <3>2. ASSUME NEW g \in Admitted' PROVE g \in Admitted \ {f}
      <4>1. PICK j \in 1..(n - 1) : g = accepted'[j].usd
        BY <3>1
      <4>. QED
        BY <4>1, <3>1, <2>3, <2>6
    <3>3. ASSUME NEW g \in Admitted, g # f PROVE g \in Admitted'
      <4>1. PICK k \in 1..n : g = accepted[k].usd
        BY <3>1
      <4>2. PICK j \in 1..(n - 1) : old(j) = k
        BY <4>1, <3>3, <2>5
      <4>. QED
        BY <4>1, <4>2, <3>1, <2>3
    <3>. QED
      BY <3>2, <3>3
  <2>8. \A g \in Fd : socket'[g] = IF g = f THEN None ELSE socket[g]
    BY <1>4 DEF IInv, TypeOK
  <2>9. TypeOK'
    <3>1. Len(accepted') <= MaxUsds
      BY <2>1, <1>1, BoundsAssumption DEF IInv, TypeOK
    <3>. QED
      BY <1>1, <1>2, <1>4, <2>1, <3>1 DEF IInv, TypeOK
  <2>10. Distinct'
    <3> SUFFICES ASSUME NEW j \in 1..(n - 1), NEW k \in 1..(n - 1),
                        accepted'[j].usd = accepted'[k].usd
                 PROVE  j = k
      BY <2>2 DEF Distinct
    <3>1. old(j) = old(k)
      BY <1>1, <2>3 DEF IInv, Distinct
    <3>. QED
      BY <3>1, <2>4
  <2>11. EntriesOK'
    <3> SUFFICES ASSUME NEW j \in 1..(n - 1)
                 PROVE  LET d == socket'[accepted'[j].usd]
                        IN  /\ d # None
                            /\ d \in told' => accepted'[j].type = Kind[d]
                            /\ d \in told' \/ d \notin running
      BY <1>2, <2>2 DEF EntriesOK
    <3> DEFINE k == old(j)
               d == socket[accepted[k].usd]
    <3>1. k \in 1..n /\ k # i /\ accepted'[j] = accepted[k]
      BY <2>3
    <3>2. accepted[k].usd \in Fd /\ accepted[k].usd # f
      BY <3>1, <1>1, <2>6, EntryType
    <3>3. /\ d # None
          /\ d \in told => accepted[k].type = Kind[d]
          /\ d \in told \/ d \notin running
      BY <3>1, <1>1 DEF IInv, EntriesOK
    <3> HIDE DEF k
    <3>4. socket'[accepted'[j].usd] = d
      BY <3>1, <3>2, <2>8
    <3>. QED
      BY <3>1, <3>3, <3>4, <1>4
  <2>12. IdentifyingOK'
    BY <1>2 DEF IdentifyingOK
  <2>13. LostWithListener'
    <3>1. Unheard' = Unheard
      BY <1>1, <1>2, <2>7, <2>8, ClientAssumption DEF Unheard, Admitted
    <3>. QED
      BY <3>1, <1>2 DEF IInv, LostWithListener
  <2>14. OnlyDaemonIsReached'
    <3> SUFFICES ASSUME NEW r \in Client,
                        {d \in Client : Kind[d] = "routing"} = {r},
                        NEW g \in Admitted', socket'[g] = r, r \in told'
                 PROVE  mistaken \/ (routing_usd # None /\ socket'[routing_usd] = r)
      BY <1>2 DEF OnlyDaemonIsReached
    <3>1. g \in Admitted /\ g # f /\ r \in told /\ r # c
      BY <2>7, <1>4
    <3>2. g \in Fd
      <4>1. PICK k \in DOMAIN accepted : g = accepted[k].usd
        BY <3>1 DEF Admitted
      <4>. QED
        BY <4>1, <1>1, EntryType
    <3>3. socket[g] = r
      BY <3>1, <3>2, <2>8
    <3>4. mistaken \/ (routing_usd # None /\ socket[routing_usd] = r)
      BY <3>1, <3>3 DEF IInv, OnlyDaemonIsReached
    <3>5. routing_usd # None /\ socket[routing_usd] = r
            => routing_usd \in Fd /\ routing_usd # f
      BY <3>1 DEF IInv, TypeOK
    <3>. QED
      BY <3>4, <3>5, <2>8
  <2>. QED
    BY <2>9, <2>10, <2>11, <2>12, <2>13, <2>14 DEF IInv
<1>. QED
  BY <1>3, <1>4 DEF HandleUsdEvent
---------------------------------------------------------------------------
LEMMA StepIInv == ASSUME IInv, [Next]_vars PROVE IInv'
<1>1. ASSUME NEW c \in Client, Connect(c) \/ SayType(c) \/ Send(c) \/ Exit(c)
      PROVE  IInv'
  BY <1>1, ConnectStep, SayTypeStep, SendStep, ExitStep
<1>2. CASE AcceptUsd
  BY <1>2, AcceptUsdStep
<1>3. CASE HandleUsdRequest
  BY <1>3, HandleUsdRequestStep
<1>4. ASSUME NEW c \in Client, HearUsd(c) PROVE IInv'
  <2>1. PICK i \in DOMAIN accepted : HandleUsdEvent(i)
    BY <1>4 DEF HearUsd, Polled
  <2>. QED
    BY <2>1, HandleUsdEventStep
<1>5. CASE UNCHANGED vars
  <2>1. TypeOK' /\ EntriesOK'
    BY <1>5 DEF IInv, TypeOK, EntriesOK, vars
  <2>. QED
    BY <1>5, <2>1, ClientStep DEF vars, pointer
<1>. QED
  BY <1>1, <1>2, <1>3, <1>4, <1>5 DEF Next

LEMMA Invariance == Spec => []IInv
<1>. QED
  BY InitIInv, StepIInv, PTL DEF Spec

\* The type invariant of the upper interface, which says as well that the
\* table never holds more clients than it has room for (handle_usd_request).
THEOREM TypeCorrect == Spec => []TypeOK
<1>1. IInv => TypeOK
  BY DEF IInv
<1>. QED
  BY <1>1, Invariance, PTL

\* Each entry of the table is the only one of its descriptor, and its type is
\* the one that the client behind it has said, however often descriptors are
\* given back and used again (handle_usd_request, and main's removal of an
\* entry).
THEOREM EntriesAreAsSaid == Spec => []AcceptedAsSaid
<1>1. IInv => AcceptedAsSaid
  BY DEF IInv, Distinct, EntriesOK, AcceptedAsSaid
<1>. QED
  BY <1>1, Invariance, PTL

\* mipd hears everybody it has a descriptor for until it rejects a client;
\* from then on it listens to nobody and has lost exactly that client (main,
\* at close(usd)).
THEOREM OneLostWithListener == Spec => []LostWithListener
<1>1. IInv => LostWithListener
  BY DEF IInv
<1>. QED
  BY <1>1, Invariance, PTL

\* The only routing daemon is sent the routing requests as long as it is
\* admitted (handle_usd_request, where routing_usd is set).
THEOREM DaemonIsReached == Spec => []OnlyDaemonIsReached
<1>1. IInv => OnlyDaemonIsReached
  BY DEF IInv
<1>. QED
  BY <1>1, Invariance, PTL
=============================================================================

---------------------------- MODULE SourcesProofs ----------------------------
(***************************************************************************)
(* Safety of the two sources of entries, the watched file and the network, *)
(* for any number of pieces, truncations, clients, threads and             *)
(* descriptors.                                                            *)
(***************************************************************************)
EXTENDS FileTail, Connections, FiniteSetTheorems, SequenceTheorems, TLAPS

-----------------------------------------------------------------------------
(* Connections: where a connection can be *)

Holding(k) == acceptor[k].at \in {"track", "hand"}

\* The connections that an accepting thread, the queue of the pool, or anybody has.
Held == {c \in Clients : \E k \in Kinds : Holding(k) /\ acceptor[k].conn = c}
InHand == {c \in Clients : \E k \in Kinds : Handing(k) /\ acceptor[k].conn = c}
Queued == {queue[n] : n \in DOMAIN queue}
Live == Held \cup Queued \cup running

\* The connections that the table has to name.
Listed ==
    {c \in TcpClients : c \in InHand \cup Queued \/ (c \in running /\ handler[c] # "close")}

Hand == [at : {"track", "hand"}, conn : Clients]
Stations == {"loop", "recv", "push", "erase", "close", "done"}
MainPlaces == {"run", "stopping", "drain", "join", "stopped"}

ConnectionsTypeOK ==
    /\ backlog \subseteq Clients /\ fresh \subseteq Clients
    /\ open \in [Fds -> Clients \cup {None}]
    /\ fdOf \in [Clients -> 0..MaxFd]
    /\ table \in [Fds -> Clients \cup {None}]
    /\ acceptor \in [Kinds -> {Loop, Ended} \cup Hand]
    /\ handler \in [Clients -> Stations]
    /\ queue \in Seq(Clients) /\ running \subseteq Clients /\ closed \in BOOLEAN
    /\ stop \in BOOLEAN /\ mpc \in MainPlaces
    /\ dropped \subseteq Clients /\ gaveUp \subseteq Clients

\* Each thread holds connections of its own kind, and only TCP connections are tracked.
OwnKind ==
    \A k \in Kinds : Holding(k) => acceptor[k].conn \in Of(k) /\ (Tracking(k) => k = "tcp")

Distinct == \A m, n \in DOMAIN queue : m # n => queue[m] # queue[n]

\* A connection is in one place, and where its handler is fits to it.
OnePlace ==
    /\ \A c \in fresh \cup backlog : c \notin Live \cup dropped /\ handler[c] = "loop"
    /\ fresh \cap backlog = {}
    /\ \A c \in Held : c \notin Queued \cup running \cup dropped /\ handler[c] = "loop"
    /\ \A c \in Queued : c \notin running \cup dropped /\ handler[c] = "loop"
    /\ \A c \in running : c \notin dropped /\ handler[c] # "done"
    /\ \A c \in gaveUp : handler[c] \in {"close", "done"}
    /\ \A c \in HttpClients : handler[c] \in {"loop", "close", "done"}

\* The descriptor of a connection is open for it until its handler closes it, and no
\* other descriptor is open.
OpenFds ==
    /\ \A c \in Live : fdOf[c] \in Fds /\ open[fdOf[c]] = c
    /\ \A f \in Fds : open[f] # None => fdOf[open[f]] = f /\ open[f] \in Live \cup dropped

\* The table names what it has to, and what else it names was dropped or given up.
Table ==
    /\ \A c \in Listed : table[fdOf[c]] = c
    /\ \A f \in Fds : table[f] # None =>
          fdOf[table[f]] = f /\ table[f] \in Listed \cup dropped \cup gaveUp

Phases ==
    /\ mpc \in {"drain", "join", "stopped"} => closed
    /\ mpc \in {"join", "stopped"} => queue = <<>> /\ running = {}
    /\ mpc = "stopped" => \A k \in Kinds : acceptor[k] = Ended

ConnectionsInv ==
    ConnectionsTypeOK /\ OwnKind /\ Distinct /\ OnePlace /\ OpenFds /\ Table /\ Phases

\* What a thread can hold.
LEMMA Holders ==
    ASSUME ConnectionsTypeOK, NEW k \in Kinds
    PROVE  /\ Holding(k) => acceptor[k] \in Hand /\ acceptor[k].conn \in Clients
           /\ acceptor[k] \in {Loop, Ended} => ~Holding(k)
           /\ Handing(k) \/ Tracking(k) <=> Holding(k)
<1>1. acceptor[k] \in {Loop, Ended} \cup Hand
  BY DEF ConnectionsTypeOK
<1>2. acceptor[k] \in {Loop, Ended} => ~Holding(k)
  BY DEF Loop, Ended, Holding
<1>3. acceptor[k] \in Hand => acceptor[k].conn \in Clients
  BY DEF Hand
<1> QED BY <1>1, <1>2, <1>3 DEF Holding, Handing, Tracking

\* Two threads never hold the same connection.
LEMMA TwoHolders ==
    ASSUME OwnKind, NEW k \in Kinds, NEW l \in Kinds, Holding(k), Holding(l), k # l
    PROVE  acceptor[k].conn # acceptor[l].conn
BY ConnectionsAssumption DEF OwnKind, Kinds, Of

\* A step that moves neither the threads nor the queue leaves connections in their place.
LEMMA Still ==
    ASSUME UNCHANGED <<acceptor, queue>>
    PROVE  /\ Held' = Held /\ InHand' = InHand /\ Queued' = Queued
           /\ OwnKind => OwnKind'
           /\ Distinct => Distinct'
<1>1. Held' = Held
  BY DEF Held, Holding
<1>2. InHand' = InHand
  BY DEF InHand, Handing
<1>3. Queued' = Queued
  BY DEF Queued
<1> QED BY <1>1, <1>2, <1>3 DEF OwnKind, Distinct, Holding, Tracking

\* A thread lets go of what it holds, or has nothing.
LEMMA LetsGo ==
    ASSUME ConnectionsTypeOK, OwnKind, NEW k \in Kinds, NEW p \in {Loop, Ended}, Goto(k, p)
    PROVE  /\ acceptor' \in [Kinds -> {Loop, Ended} \cup Hand]
           /\ OwnKind'
           /\ ~Holding(k) => Held' = Held /\ InHand' = InHand
           /\ Holding(k) => Held' = Held \ {acceptor[k].conn}
           /\ Handing(k) => InHand' = InHand \ {acceptor[k].conn}
<1>1. acceptor' = [acceptor EXCEPT ![k] = p] /\ acceptor \in [Kinds -> {Loop, Ended} \cup Hand]
  BY DEF Goto, ConnectionsTypeOK
<1>2. p.at \notin {"track", "hand"}
  BY DEF Loop, Ended
<1>3. \A l \in Kinds : acceptor'[l] = IF l = k THEN p ELSE acceptor[l]
  BY <1>1
<1>4. \A l \in Kinds : Holding(l)' <=> l # k /\ Holding(l)
  BY <1>2, <1>3 DEF Holding
<1>5. \A l \in Kinds : Handing(l)' <=> l # k /\ Handing(l)
  BY <1>2, <1>3 DEF Handing
<1>6. OwnKind'
  <2>1. SUFFICES ASSUME NEW l \in Kinds, Holding(l)'
                 PROVE  acceptor'[l].conn \in Of(l) /\ (Tracking(l)' => l = "tcp")
    BY DEF OwnKind
  <2>2. l # k /\ Holding(l) /\ acceptor'[l] = acceptor[l]
    BY <1>3, <1>4, <2>1
  <2> QED BY <2>2 DEF OwnKind, Tracking
<1>7. acceptor' \in [Kinds -> {Loop, Ended} \cup Hand]
  BY <1>1
<1>8. ASSUME Holding(k), NEW l \in Kinds, Holding(l), l # k
      PROVE  acceptor[l].conn # acceptor[k].conn
  BY <1>8, TwoHolders
<1>9. Handing(k) => Holding(k)
  BY DEF Handing, Holding
<1>10. \A l \in Kinds : Handing(l) => Holding(l)
  BY DEF Handing, Holding
<1>11. ~Holding(k) => Held' = Held /\ InHand' = InHand
  BY <1>3, <1>4, <1>5, <1>9 DEF Held, InHand
<1>12. Holding(k) => Held' = Held \ {acceptor[k].conn}
  BY <1>3, <1>4, <1>8 DEF Held
<1>13. Handing(k) => InHand' = InHand \ {acceptor[k].conn}
  BY <1>3, <1>5, <1>8, <1>9, <1>10 DEF InHand
<1> QED BY <1>6, <1>7, <1>11, <1>12, <1>13

\* A thread that waits, or tracks c, comes to hold c.
LEMMA TakesUp ==
    ASSUME ConnectionsTypeOK, OwnKind, NEW k \in Kinds, NEW c \in Of(k), c \in Clients,
           NEW a \in {"track", "hand"}, a = "track" => k = "tcp",
           Goto(k, [at |-> a, conn |-> c]),
           acceptor[k] = Loop \/ (Tracking(k) /\ acceptor[k].conn = c)
    PROVE  /\ acceptor' \in [Kinds -> {Loop, Ended} \cup Hand]
           /\ OwnKind'
           /\ Held' = Held \cup {c}
           /\ a = "hand" => InHand' = InHand \cup {c}
           /\ a = "track" => InHand' = InHand
<1> DEFINE p == [at |-> a, conn |-> c]
<1>1. acceptor' = [acceptor EXCEPT ![k] = p] /\ acceptor \in [Kinds -> {Loop, Ended} \cup Hand]
  BY DEF Goto, ConnectionsTypeOK
<1>2. p \in Hand /\ p.at = a /\ p.conn = c
  BY DEF Hand
<1> HIDE DEF p
<1>3. \A l \in Kinds : acceptor'[l] = IF l = k THEN p ELSE acceptor[l]
  BY <1>1
<1>4. \A l \in Kinds : Holding(l)' <=> l = k \/ Holding(l)
  BY <1>2, <1>3 DEF Holding
<1>5. \A l \in Kinds : Handing(l)' <=> IF l = k THEN a = "hand" ELSE Handing(l)
  BY <1>2, <1>3 DEF Handing
<1>6. OwnKind'
  <2>1. SUFFICES ASSUME NEW l \in Kinds, Holding(l)'
                 PROVE  acceptor'[l].conn \in Of(l) /\ (Tracking(l)' => l = "tcp")
    BY DEF OwnKind
  <2>2. CASE l = k
    BY <1>2, <1>3, <2>2 DEF Tracking
  <2>3. CASE l # k
    <3>1. Holding(l) /\ acceptor'[l] = acceptor[l]
      BY <1>3, <1>4, <2>1, <2>3
    <3> QED BY <3>1 DEF OwnKind, Tracking
  <2> QED BY <2>2, <2>3
<1>7. acceptor' \in [Kinds -> {Loop, Ended} \cup Hand]
  BY <1>1, <1>2
<1>8. ~Handing(k) /\ (Holding(k) => acceptor[k].conn = c)
  BY DEF Handing, Tracking, Holding, Loop
<1>9. Held' = Held \cup {c}
  BY <1>2, <1>3, <1>4, <1>8 DEF Held
<1>10. a = "hand" => InHand' = InHand \cup {c}
  BY <1>2, <1>3, <1>5, <1>8 DEF InHand
<1>11. a = "track" => InHand' = InHand
  BY <1>2, <1>3, <1>5, <1>8 DEF InHand
<1> QED BY <1>6, <1>7, <1>9, <1>10, <1>11

\* A connection joins the queue at its end.
LEMMA Joins ==
    ASSUME queue \in Seq(Clients), Distinct, NEW c \in Clients, c \notin Queued,
           queue' = Append(queue, c)
    PROVE  queue' \in Seq(Clients) /\ Queued' = Queued \cup {c} /\ Distinct'
<1>1. /\ queue' \in Seq(Clients) /\ Len(queue) \in Nat /\ DOMAIN queue = 1..Len(queue)
      /\ DOMAIN queue' = 1..(Len(queue) + 1)
      /\ \A n \in DOMAIN queue' : queue'[n] = IF n \in DOMAIN queue THEN queue[n] ELSE c
  BY AppendProperties
<1>2. DOMAIN queue' = DOMAIN queue \cup {Len(queue) + 1} /\ Len(queue) + 1 \notin DOMAIN queue
  BY <1>1
<1>3. Queued' = Queued \cup {c}
  BY <1>1, <1>2 DEF Queued
<1>4. \A n \in DOMAIN queue : queue[n] # c
  BY DEF Queued
<1>5. Distinct'
  BY <1>1, <1>2, <1>4 DEF Distinct
<1> QED BY <1>1, <1>3, <1>5

\* The first connection leaves the queue.
LEMMA Leaves ==
    ASSUME queue \in Seq(Clients), Distinct, queue # <<>>, queue' = Tail(queue)
    PROVE  /\ queue' \in Seq(Clients) /\ Head(queue) \in Queued /\ Head(queue) \in Clients
           /\ Queued' = Queued \ {Head(queue)} /\ Distinct'
<1>1. /\ queue' \in Seq(Clients) /\ Len(queue) \in Nat /\ DOMAIN queue = 1..Len(queue)
      /\ Len(queue) >= 1 /\ Head(queue) = queue[1] /\ queue[1] \in Clients
      /\ DOMAIN queue' = 1..(Len(queue) - 1)
      /\ \A n \in DOMAIN queue' : queue'[n] = queue[n + 1]
  <2>1. queue' \in Seq(Clients) /\ Len(queue') = Len(queue) - 1
        /\ \A n \in 1..Len(queue') : queue'[n] = queue[n + 1]
    BY HeadTailProperties
  <2> QED BY <2>1
<1>2. Head(queue) \in Queued
  BY <1>1 DEF Queued
<1>3. \A n \in DOMAIN queue' : n + 1 \in DOMAIN queue /\ n + 1 # 1
  BY <1>1
<1>4. \A n \in DOMAIN queue : n # 1 => n - 1 \in DOMAIN queue' /\ queue'[n - 1] = queue[n]
  BY <1>1
<1>5. \A n \in DOMAIN queue : n # 1 => queue[n] # queue[1]
  BY <1>1 DEF Distinct
<1>6. Queued' = Queued \ {Head(queue)}
  <2>1. ASSUME NEW x \in Queued' PROVE x \in Queued /\ x # Head(queue)
    <3>1. PICK n \in DOMAIN queue' : x = queue'[n]
      BY DEF Queued
    <3> QED BY <1>1, <1>3, <1>5, <3>1 DEF Queued
  <2>2. ASSUME NEW x \in Queued, x # Head(queue) PROVE x \in Queued'
    <3>1. PICK n \in DOMAIN queue : x = queue[n]
      BY DEF Queued
    <3>2. n # 1
      BY <1>1, <2>2, <3>1
    <3> QED BY <1>4, <3>1, <3>2 DEF Queued
  <2> QED BY <2>1, <2>2
<1>7. Distinct'
  <2> SUFFICES ASSUME NEW m \in DOMAIN queue', NEW n \in DOMAIN queue', m # n
               PROVE  queue'[m] # queue'[n]
    BY DEF Distinct
  <2>1. m + 1 # n + 1
    BY <1>1
  <2> QED BY <1>1, <1>3, <2>1 DEF Distinct
<1> QED BY <1>1, <1>2, <1>6, <1>7

-----------------------------------------------------------------------------
(* Connections: every action preserves the invariant *)

LEMMA ConnectInv ==
    ASSUME ConnectionsInv, NEW c \in Clients, Connect(c)
    PROVE  ConnectionsInv'
<1> USE DEF ConnectionsInv
<1>1. /\ fresh' = fresh \ {c} /\ backlog' = backlog \cup {c} /\ c \in fresh
      /\ UNCHANGED <<open, fdOf, table, acceptor, handler, queue, running, closed, stop, mpc,
                     dropped, gaveUp>>
  BY DEF Connect, fdVars, poolVars, mainVars, histories
<1>2. Held' = Held /\ InHand' = InHand /\ Queued' = Queued /\ OwnKind' /\ Distinct'
  BY <1>1, Still
<1>3. Live' = Live /\ Listed' = Listed
  BY <1>1, <1>2 DEF Live, Listed
<1>4. ConnectionsTypeOK'
  BY <1>1 DEF ConnectionsTypeOK
<1>5. OnePlace'
  BY <1>1, <1>2, <1>3 DEF OnePlace
<1>6. OpenFds'
  BY <1>1, <1>3 DEF OpenFds
<1>7. Table'
  BY <1>1, <1>3 DEF Table
<1>8. Phases'
  BY <1>1 DEF Phases
<1> QED BY <1>2, <1>4, <1>5, <1>6, <1>7, <1>8

LEMMA AcceptInv ==
    ASSUME ConnectionsInv, NEW k \in Kinds, NEW c \in Clients, Accept(k, c)
    PROVE  ConnectionsInv'
<1> USE DEF ConnectionsInv
<1>1. PICK f \in Fds : open[f] = None /\ open' = [open EXCEPT ![f] = c]
                       /\ fdOf' = [fdOf EXCEPT ![c] = f]
  BY DEF Accept
<1> DEFINE a == IF k = "tcp" THEN "track" ELSE "hand"
<1>2. /\ acceptor[k] = Loop /\ ~stop /\ c \in backlog /\ c \in Of(k) /\ backlog' = backlog \ {c}
      /\ Goto(k, [at |-> a, conn |-> c])
      /\ UNCHANGED <<fresh, table, handler, queue, running, closed, stop, mpc, dropped, gaveUp>>
  BY DEF Accept, poolVars, mainVars, histories
<1>3. a \in {"track", "hand"} /\ (a = "track" => k = "tcp")
  OBVIOUS
<1>4. a = "hand" => c \notin TcpClients
  BY <1>2, ConnectionsAssumption DEF Kinds, Of
<1> HIDE DEF a
<1>5. /\ acceptor' \in [Kinds -> {Loop, Ended} \cup Hand] /\ OwnKind' /\ Held' = Held \cup {c}
      /\ (InHand' = InHand \/ (c \notin TcpClients /\ InHand' = InHand \cup {c}))
  BY <1>2, <1>3, <1>4, TakesUp
<1>6. Queued' = Queued /\ Distinct'
  BY <1>2 DEF Queued, Distinct
<1>7. Live' = Live \cup {c} /\ Listed' = Listed
  BY <1>2, <1>5, <1>6 DEF Live, Listed
<1>8. c \notin Live \cup dropped /\ handler[c] = "loop" /\ c \notin fresh /\ c \notin gaveUp
  BY <1>2 DEF OnePlace
<1>9. ConnectionsTypeOK'
  <2>1. f \in 0..MaxFd
    BY ConnectionsAssumption DEF Fds
  <2> QED BY <1>1, <1>2, <1>5, <2>1 DEF ConnectionsTypeOK
<1>10. OnePlace'
  BY <1>2, <1>5, <1>6, <1>7, <1>8 DEF OnePlace, Live
<1>11. /\ \A g \in Fds : open'[g] = IF g = f THEN c ELSE open[g]
       /\ \A d \in Clients : fdOf'[d] = IF d = c THEN f ELSE fdOf[d]
  BY <1>1 DEF ConnectionsTypeOK
<1>12. Live \subseteq Clients /\ Listed \subseteq Live /\ None \notin Clients
  <2>1. Queued \subseteq Clients
    BY DEF ConnectionsTypeOK, Queued
  <2>2. InHand \subseteq Held
    BY DEF InHand, Held, Handing, Holding
  <2> QED BY <2>1, <2>2, ConnectionsAssumption DEF Live, Listed, Held, ConnectionsTypeOK
<1>13. OpenFds'
  <2>1. ASSUME NEW d \in Live' PROVE fdOf'[d] \in Fds /\ open'[fdOf'[d]] = d
    <3>1. CASE d = c
      BY <1>11, <3>1
    <3>2. CASE d # c
      <4>1. d \in Live /\ d \in Clients
        BY <1>7, <1>12, <3>2
      <4>2. fdOf[d] \in Fds /\ open[fdOf[d]] = d
        BY <4>1 DEF OpenFds
      <4>3. fdOf[d] # f
        BY <1>1, <1>12, <4>1, <4>2
      <4> QED BY <1>11, <3>2, <4>1, <4>2, <4>3
    <3> QED BY <3>1, <3>2
  <2>2. ASSUME NEW g \in Fds, open'[g] # None
        PROVE  fdOf'[open'[g]] = g /\ open'[g] \in (Live \cup dropped)'
    <3>1. CASE g = f
      BY <1>7, <1>11, <3>1
    <3>2. CASE g # f
      <4>1. open'[g] = open[g] /\ fdOf[open[g]] = g /\ open[g] \in Live \cup dropped
        BY <1>11, <2>2, <3>2 DEF OpenFds
      <4>2. open[g] \in Clients /\ open[g] # c
        BY <1>8, <1>12, <4>1 DEF ConnectionsTypeOK
      <4> QED BY <1>2, <1>7, <1>11, <4>1, <4>2
    <3> QED BY <3>1, <3>2
  <2> QED BY <2>1, <2>2 DEF OpenFds
<1>14. Table'
  <2>1. ASSUME NEW d \in Listed' PROVE table'[fdOf'[d]] = d
    BY <1>2, <1>7, <1>8, <1>11, <1>12 DEF Table
  <2>2. ASSUME NEW g \in Fds, table'[g] # None
        PROVE  fdOf'[table'[g]] = g /\ table'[g] \in (Listed \cup dropped \cup gaveUp)'
    <3>1. /\ table'[g] = table[g] /\ fdOf[table[g]] = g
          /\ table[g] \in Listed \cup dropped \cup gaveUp
      BY <1>2, <2>2 DEF Table
    <3>2. table[g] \in Clients /\ table[g] # c
      BY <1>8, <1>12, <3>1 DEF ConnectionsTypeOK
    <3> QED BY <1>2, <1>7, <1>11, <3>1, <3>2
  <2> QED BY <2>1, <2>2 DEF Table
<1>15. Phases'
  <2>1. mpc # "stopped"
    BY <1>2 DEF Phases, Loop, Ended
  <2> QED BY <1>2, <2>1 DEF Phases
<1> QED BY <1>5, <1>6, <1>9, <1>10, <1>13, <1>14, <1>15

\* The thread ends, whatever the reason.
LEMMA EndsInv ==
    ASSUME ConnectionsInv, NEW k \in Kinds, AcceptFails(k) \/ AcceptorEnds(k)
    PROVE  ConnectionsInv'
<1> USE DEF ConnectionsInv
<1>1. /\ acceptor[k] = Loop /\ Goto(k, Ended) /\ backlog' = backlog \ Of(k)
      /\ UNCHANGED <<fresh, open, fdOf, table, handler, queue, running, closed, stop, mpc,
                     dropped, gaveUp>>
  BY DEF AcceptFails, AcceptorEnds, fdVars, poolVars, mainVars, histories
<1>2. /\ acceptor' \in [Kinds -> {Loop, Ended} \cup Hand] /\ OwnKind'
      /\ Held' = Held /\ InHand' = InHand
  BY <1>1, LetsGo, Holders
<1>3. Queued' = Queued /\ Distinct'
  BY <1>1 DEF Queued, Distinct
<1>4. Live' = Live /\ Listed' = Listed
  BY <1>1, <1>2, <1>3 DEF Live, Listed
<1>5. ConnectionsTypeOK'
  BY <1>1, <1>2 DEF ConnectionsTypeOK
<1>6. OnePlace'
  BY <1>1, <1>2, <1>3, <1>4 DEF OnePlace
<1>7. OpenFds' /\ Table'
  BY <1>1, <1>4 DEF OpenFds, Table
<1>8. Phases'
  <2>1. mpc # "stopped"
    BY <1>1 DEF Phases, Loop, Ended
  <2> QED BY <1>1, <2>1 DEF Phases
<1> QED BY <1>2, <1>3, <1>5, <1>6, <1>7, <1>8

LEMMA TrackInv ==
    ASSUME ConnectionsInv, Track
    PROVE  ConnectionsInv'
<1> USE DEF ConnectionsInv
<1> DEFINE c == acceptor["tcp"].conn
<1>1. /\ Tracking("tcp") /\ table' = [table EXCEPT ![fdOf[c]] = c]
      /\ Goto("tcp", [at |-> "hand", conn |-> c])
      /\ UNCHANGED <<backlog, fresh, open, fdOf, handler, queue, running, closed, stop, mpc,
                     dropped, gaveUp>>
  BY DEF Track, clientVars, poolVars, mainVars, histories
<1>2. "tcp" \in Kinds /\ Holding("tcp")
  BY <1>1, Holders DEF Kinds
<1>3. c \in Clients /\ c \in Of("tcp") /\ c \in Held
  BY <1>2, Holders DEF OwnKind, Held
<1>4. c \in TcpClients
  BY <1>3 DEF Of
<1>5. /\ acceptor' \in [Kinds -> {Loop, Ended} \cup Hand] /\ OwnKind' /\ Held' = Held
      /\ InHand' = InHand \cup {c}
  <2>1. Tracking("tcp") /\ acceptor["tcp"].conn = c
    BY <1>1
  <2> HIDE DEF c
  <2>2. "hand" \in {"track", "hand"} /\ "hand" # "track"
    OBVIOUS
  <2>3. /\ acceptor' \in [Kinds -> {Loop, Ended} \cup Hand] /\ OwnKind'
        /\ Held' = Held \cup {c} /\ InHand' = InHand \cup {c}
    BY <1>1, <1>2, <1>3, <2>1, <2>2, TakesUp
  <2> QED BY <1>3, <2>3
<1> HIDE DEF c
<1>6. Queued' = Queued /\ Distinct'
  BY <1>1 DEF Queued, Distinct
<1>7. Live' = Live /\ Listed' = Listed \cup {c}
  BY <1>1, <1>4, <1>5, <1>6 DEF Live, Listed
<1>8. fdOf[c] \in Fds /\ open[fdOf[c]] = c
  BY <1>3 DEF OpenFds, Live
<1>9. ConnectionsTypeOK'
  BY <1>1, <1>3, <1>5 DEF ConnectionsTypeOK
<1>10. OnePlace'
  BY <1>1, <1>5, <1>6, <1>7 DEF OnePlace
<1>11. OpenFds'
  BY <1>1, <1>7 DEF OpenFds
<1>12. \A g \in Fds : table'[g] = IF g = fdOf[c] THEN c ELSE table[g]
  BY <1>1 DEF ConnectionsTypeOK
<1>13. Listed \subseteq Live
  <2>1. InHand \subseteq Held
    BY DEF InHand, Held, Handing, Holding
  <2> QED BY <2>1 DEF Live, Listed
<1>14. Table'
  <2>1. ASSUME NEW d \in Listed' PROVE table'[fdOf'[d]] = d
    <3>1. CASE d = c
      BY <1>1, <1>8, <1>12, <3>1
    <3>2. CASE d # c
      <4>1. d \in Listed /\ fdOf[d] \in Fds /\ open[fdOf[d]] = d /\ table[fdOf[d]] = d
        BY <1>7, <1>13, <3>2 DEF OpenFds, Table
      <4>2. fdOf[d] # fdOf[c]
        BY <1>8, <3>2, <4>1
      <4> QED BY <1>1, <1>12, <4>1, <4>2
    <3> QED BY <3>1, <3>2
  <2>2. ASSUME NEW g \in Fds, table'[g] # None
        PROVE  fdOf'[table'[g]] = g /\ table'[g] \in (Listed \cup dropped \cup gaveUp)'
    BY <1>1, <1>7, <1>12, <2>2 DEF Table
  <2> QED BY <2>1, <2>2 DEF Table
<1>15. Phases'
  <2>1. mpc # "stopped"
    BY <1>2, Holders DEF Phases
  <2> QED BY <1>1, <2>1 DEF Phases
<1> QED BY <1>5, <1>6, <1>9, <1>10, <1>11, <1>14, <1>15

LEMMA HandOverInv ==
    ASSUME ConnectionsInv, NEW k \in Kinds, HandOver(k)
    PROVE  ConnectionsInv'
<1> USE DEF ConnectionsInv
<1> DEFINE c == acceptor[k].conn
<1>1. /\ Handing(k) /\ Goto(k, Loop)
      /\ \/ ~closed /\ queue' = Append(queue, c) /\ dropped' = dropped
         \/ queue' = queue /\ dropped' = dropped \cup {c}
      /\ UNCHANGED <<backlog, fresh, open, fdOf, table, handler, running, closed, stop, mpc,
                     gaveUp>>
  BY DEF HandOver, clientVars, fdVars, mainVars, Pool!Accept, Pool!Refused, Pool!tvars
<1>2. Holding(k)
  BY <1>1, Holders
<1>3. c \in Clients /\ c \in Held
  BY <1>2, Holders DEF Held
<1>4. c \in InHand
  BY <1>1, <1>3 DEF InHand
<1>5. /\ acceptor' \in [Kinds -> {Loop, Ended} \cup Hand] /\ OwnKind'
      /\ Held' = Held \ {c} /\ InHand' = InHand \ {c}
  BY <1>1, <1>2, LetsGo
<1> HIDE DEF c
<1>6. c \notin Queued \cup running \cup dropped /\ handler[c] = "loop"
      /\ c \notin fresh \cup backlog
  BY <1>3 DEF OnePlace, Live
<1>7. /\ queue' \in Seq(Clients) /\ Distinct'
      /\ \/ ~closed /\ Queued' = Queued \cup {c} /\ dropped' = dropped
         \/ queue' = queue /\ Queued' = Queued /\ dropped' = dropped \cup {c}
  <2>1. CASE ~closed /\ queue' = Append(queue, c) /\ dropped' = dropped
    <3>1. queue' \in Seq(Clients) /\ Queued' = Queued \cup {c} /\ Distinct'
      BY <1>3, <1>6, <2>1, Joins DEF ConnectionsTypeOK
    <3> QED BY <2>1, <3>1
  <2>2. CASE queue' = queue /\ dropped' = dropped \cup {c}
    BY <2>2 DEF Queued, Distinct, ConnectionsTypeOK
  <2> QED BY <1>1, <2>1, <2>2
<1>8. Live \cup dropped = (Live \cup dropped)' /\ Live' \subseteq Live
  BY <1>1, <1>3, <1>5, <1>7 DEF Live
<1>9. /\ Listed' \subseteq Listed
      /\ Listed \cup dropped \cup gaveUp \subseteq (Listed \cup dropped \cup gaveUp)'
  <2>1. \A d \in TcpClients : d # c => (d \in Listed <=> d \in Listed')
    BY <1>1, <1>5, <1>6, <1>7 DEF Listed
  <2>2. c \in TcpClients => c \in Listed
    BY <1>4 DEF Listed
  <2>3. c \in Listed => c \in Listed' \/ c \in dropped'
    BY <1>7 DEF Listed
  <2>4. Listed \subseteq TcpClients /\ Listed' \subseteq TcpClients
    BY DEF Listed
  <2>5. dropped \subseteq dropped' /\ gaveUp' = gaveUp
    BY <1>1
  <2> HIDE DEF ConnectionsInv
  <2>6. Listed' \subseteq Listed
    BY <2>1, <2>2, <2>4
  <2>7. Listed \subseteq Listed' \cup dropped'
    BY <2>1, <2>3, <2>4
  <2> QED BY <2>5, <2>6, <2>7
<1>10. ConnectionsTypeOK'
  BY <1>1, <1>3, <1>5, <1>7 DEF ConnectionsTypeOK
<1>11. OnePlace'
  <2>1. \A d \in fresh \cup backlog : d \notin (Live \cup dropped)' /\ handler[d] = "loop"
    BY <1>8 DEF OnePlace
  <2>2. \A d \in Held' : d \notin (Queued \cup running \cup dropped)' /\ handler[d] = "loop"
    BY <1>1, <1>5, <1>7 DEF OnePlace
  <2>3. \A d \in Queued' : d \notin (running \cup dropped)' /\ handler[d] = "loop"
    BY <1>1, <1>6, <1>7 DEF OnePlace
  <2>4. \A d \in running : d \notin dropped' /\ handler[d] # "done"
    BY <1>1, <1>6 DEF OnePlace
  <2> QED BY <1>1, <2>1, <2>2, <2>3, <2>4 DEF OnePlace
<1>12. OpenFds'
  BY <1>1, <1>8 DEF OpenFds
<1>13. Table'
  BY <1>1, <1>9 DEF Table
<1>14. Phases'
  <2>1. mpc # "stopped"
    BY <1>2, Holders DEF Phases
  <2>2. mpc \in {"drain", "join", "stopped"} => queue' = queue
    BY <1>1 DEF Phases
  <2> QED BY <1>1, <2>1, <2>2 DEF Phases
<1> QED BY <1>5, <1>7, <1>10, <1>11, <1>12, <1>13, <1>14

LEMMA StartInv ==
    ASSUME ConnectionsInv, StartTask
    PROVE  ConnectionsInv'
<1> USE DEF ConnectionsInv
<1> DEFINE c == Head(queue)
<1>1. /\ queue # <<>> /\ queue' = Tail(queue) /\ running' = running \cup {c}
      /\ UNCHANGED <<backlog, fresh, open, fdOf, table, acceptor, handler, closed, stop, mpc,
                     dropped, gaveUp>>
  BY DEF StartTask, clientVars, fdVars, mainVars, histories, Pool!Start
<1>2. /\ queue' \in Seq(Clients) /\ c \in Queued /\ c \in Clients
      /\ Queued' = Queued \ {c} /\ Distinct'
  BY <1>1, Leaves DEF ConnectionsTypeOK
<1> HIDE DEF c
<1>3. Held' = Held /\ InHand' = InHand /\ OwnKind'
  BY <1>1 DEF Held, InHand, OwnKind, Holding, Handing, Tracking
<1>4. c \notin running \cup dropped /\ handler[c] = "loop"
  BY <1>2 DEF OnePlace
<1>5. Live' = Live
  BY <1>1, <1>2, <1>3 DEF Live
<1>6. Listed' = Listed
  BY <1>1, <1>2, <1>3, <1>4 DEF Listed
<1>7. ConnectionsTypeOK'
  BY <1>1, <1>2 DEF ConnectionsTypeOK
<1>8. OnePlace'
  BY <1>1, <1>2, <1>3, <1>4, <1>5 DEF OnePlace
<1>9. OpenFds' /\ Table'
  BY <1>1, <1>5, <1>6 DEF OpenFds, Table
<1>10. Phases'
  BY <1>1 DEF Phases
<1> QED BY <1>2, <1>3, <1>7, <1>8, <1>9, <1>10

\* A step of a handler that touches no descriptor: it ends the serving of a TCP connection
\* only by giving it up.
LEMMA ServeInv ==
    ASSUME ConnectionsInv, NEW c \in Clients, NEW from, NEW to \in Stations,
           Step(c, from, to), HandlerOnly, from # "close", to # "done",
           c \in HttpClients => to = "close",
           to = "close" => c \in HttpClients \cup gaveUp',
           dropped' = dropped,
           gaveUp' = gaveUp \/ (to = "close" /\ gaveUp' = gaveUp \cup {c})
    PROVE  ConnectionsInv'
<1> USE DEF ConnectionsInv
<1>1. /\ c \in running /\ handler[c] = from /\ handler' = [handler EXCEPT ![c] = to]
      /\ UNCHANGED <<backlog, fresh, open, fdOf, table, acceptor, queue, running, closed,
                     stop, mpc, dropped>>
  BY DEF Step, HandlerOnly, clientVars, fdVars, poolVars, mainVars
<1>2. Held' = Held /\ InHand' = InHand /\ Queued' = Queued /\ OwnKind' /\ Distinct'
  BY <1>1, Still
<1>3. Live' = Live
  BY <1>1, <1>2 DEF Live
<1>4. \A d \in Clients : handler'[d] = IF d = c THEN to ELSE handler[d]
  BY <1>1 DEF ConnectionsTypeOK
<1>5. /\ \A d \in fresh \cup backlog \cup Held \cup Queued : d # c
      /\ c \notin gaveUp
  <2>1. c \notin gaveUp
    BY <1>1 DEF OnePlace
  <2>2. \A d \in fresh \cup backlog : d # c
    BY <1>1 DEF OnePlace, Live
  <2>3. \A d \in Held \cup Queued : d # c
    BY <1>1 DEF OnePlace
  <2> QED BY <2>1, <2>2, <2>3
<1>6. /\ Listed' \subseteq Listed
      /\ Listed \cup gaveUp \subseteq (Listed \cup gaveUp)'
  <2>1. \A d \in TcpClients : d # c => (d \in Listed <=> d \in Listed')
    BY <1>1, <1>2, <1>4 DEF Listed, Clients
  <2>2. c \in TcpClients => c \in Listed
    BY <1>1 DEF Listed
  <2>3. c \in Listed => c \in Listed' \/ c \in gaveUp'
    BY <1>1, <1>4, ConnectionsAssumption DEF Listed
  <2>4. Listed \subseteq TcpClients /\ Listed' \subseteq TcpClients
    BY DEF Listed
  <2>5. gaveUp \subseteq gaveUp'
    OBVIOUS
  <2> HIDE DEF ConnectionsInv
  <2> QED BY <2>1, <2>2, <2>3, <2>4, <2>5
<1>7. ConnectionsTypeOK'
  BY <1>1 DEF ConnectionsTypeOK
<1>8. OnePlace'
  <2>1. \A d \in fresh \cup backlog : handler'[d] = "loop"
    BY <1>4, <1>5 DEF OnePlace, ConnectionsTypeOK
  <2>2. \A d \in Held \cup Queued : handler'[d] = "loop"
    <3>1. Held \cup Queued \subseteq Clients
      BY DEF Held, Queued, ConnectionsTypeOK
    <3> QED BY <1>4, <1>5, <3>1 DEF OnePlace
  <2>3. \A d \in running : handler'[d] # "done"
    BY <1>4 DEF OnePlace, ConnectionsTypeOK
  <2>4. \A d \in gaveUp' : handler'[d] \in {"close", "done"}
    BY <1>4, <1>5 DEF OnePlace, ConnectionsTypeOK
  <2>5. \A d \in HttpClients : handler'[d] \in {"loop", "close", "done"}
    BY <1>4 DEF OnePlace, Clients
  <2> QED BY <1>1, <1>2, <1>3, <2>1, <2>2, <2>3, <2>4, <2>5 DEF OnePlace
<1>9. OpenFds'
  BY <1>1, <1>3 DEF OpenFds
<1>10. Table'
  BY <1>1, <1>6 DEF Table
<1>11. Phases'
  BY <1>1 DEF Phases
<1> QED BY <1>2, <1>7, <1>8, <1>9, <1>10, <1>11

\* A handler erases its own entry: the descriptor is still its own.
LEMMA EraseInv ==
    ASSUME ConnectionsInv, NEW c \in Clients, Erase(c)
    PROVE  ConnectionsInv'
<1> USE DEF ConnectionsInv
<1>1. /\ c \in running /\ handler[c] = "erase" /\ handler' = [handler EXCEPT ![c] = "close"]
      /\ table' = [table EXCEPT ![fdOf[c]] = None]
      /\ UNCHANGED <<backlog, fresh, open, fdOf, acceptor, queue, running, closed, stop, mpc,
                     dropped, gaveUp>>
  BY DEF Erase, Step, clientVars, poolVars, mainVars, histories
<1>2. Held' = Held /\ InHand' = InHand /\ Queued' = Queued /\ OwnKind' /\ Distinct'
  BY <1>1, Still
<1>3. Live' = Live
  BY <1>1, <1>2 DEF Live
<1>4. \A d \in Clients : handler'[d] = IF d = c THEN "close" ELSE handler[d]
  BY <1>1 DEF ConnectionsTypeOK
<1>5. /\ \A d \in fresh \cup backlog \cup Held \cup Queued : d # c
      /\ c \notin gaveUp /\ c \notin HttpClients /\ c \notin dropped
  <2>1. c \notin gaveUp /\ c \notin HttpClients /\ c \notin dropped
    BY <1>1 DEF OnePlace
  <2>2. \A d \in fresh \cup backlog : d # c
    BY <1>1 DEF OnePlace, Live
  <2>3. \A d \in Held \cup Queued : d # c
    BY <1>1 DEF OnePlace
  <2> QED BY <2>1, <2>2, <2>3
<1>6. Listed' = Listed \ {c}
  <2>1. c \notin InHand
    <3>1. InHand \subseteq Held
      BY DEF InHand, Held, Handing, Holding
    <3> QED BY <1>5, <3>1
  <2> QED BY <1>1, <1>2, <1>4, <1>5, <2>1 DEF Listed, Clients
<1>7. c \in Live /\ fdOf[c] \in Fds /\ open[fdOf[c]] = c
  BY <1>1 DEF OpenFds, Live
<1>8. ConnectionsTypeOK'
  BY <1>1 DEF ConnectionsTypeOK, Stations
<1>9. OnePlace'
  <2>1. \A d \in fresh \cup backlog : handler'[d] = "loop"
    BY <1>4, <1>5 DEF OnePlace, ConnectionsTypeOK
  <2>2. \A d \in Held \cup Queued : handler'[d] = "loop"
    <3>1. Held \cup Queued \subseteq Clients
      BY DEF Held, Queued, ConnectionsTypeOK
    <3> QED BY <1>4, <1>5, <3>1 DEF OnePlace
  <2>3. \A d \in running : handler'[d] # "done"
    BY <1>4 DEF OnePlace, ConnectionsTypeOK
  <2>4. \A d \in gaveUp : handler'[d] \in {"close", "done"}
    BY <1>4, <1>5 DEF OnePlace, ConnectionsTypeOK
  <2>5. \A d \in HttpClients : handler'[d] \in {"loop", "close", "done"}
    BY <1>4 DEF OnePlace, Clients
  <2> QED BY <1>1, <1>2, <1>3, <2>1, <2>2, <2>3, <2>4, <2>5 DEF OnePlace
<1>10. OpenFds'
  BY <1>1, <1>3 DEF OpenFds
<1>11. \A g \in Fds : table'[g] = IF g = fdOf[c] THEN None ELSE table[g]
  BY <1>1 DEF ConnectionsTypeOK
<1>12. Table'
  <2>1. ASSUME NEW d \in Listed' PROVE table'[fdOf'[d]] = d
    <3>1. InHand \subseteq Held
      BY DEF InHand, Held, Handing, Holding
    <3>2. d \in Listed /\ d # c /\ d \in Live
      BY <1>6, <3>1 DEF Listed, Live
    <3>3. fdOf[d] \in Fds /\ open[fdOf[d]] = d /\ table[fdOf[d]] = d
      BY <3>2 DEF OpenFds, Table
    <3>4. fdOf[d] # fdOf[c]
      BY <1>7, <3>2, <3>3
    <3> QED BY <1>1, <1>11, <3>3, <3>4
  <2>2. ASSUME NEW g \in Fds, table'[g] # None
        PROVE  fdOf'[table'[g]] = g /\ table'[g] \in (Listed \cup dropped \cup gaveUp)'
    <3>1. g # fdOf[c] /\ table'[g] = table[g]
      BY <1>11, <2>2
    <3>2. fdOf[table[g]] = g /\ table[g] \in Listed \cup dropped \cup gaveUp
      BY <2>2, <3>1 DEF Table
    <3>3. table[g] # c
      BY <3>1, <3>2
    <3> QED BY <1>1, <1>6, <3>1, <3>2, <3>3
  <2> QED BY <2>1, <2>2 DEF Table
<1>13. Phases'
  BY <1>1 DEF Phases
<1> QED BY <1>2, <1>8, <1>9, <1>10, <1>12, <1>13

LEMMA CloseInv ==
    ASSUME ConnectionsInv, NEW c \in Clients, CloseFd(c)
    PROVE  ConnectionsInv'
<1> USE DEF ConnectionsInv
<1>1. /\ c \in running /\ handler[c] = "close" /\ handler' = [handler EXCEPT ![c] = "done"]
      /\ open' = [open EXCEPT ![fdOf[c]] = None] /\ running' = running \ {c}
      /\ UNCHANGED <<backlog, fresh, fdOf, table, acceptor, queue, closed, stop, mpc,
                     dropped, gaveUp>>
  BY DEF CloseFd, Step, clientVars, mainVars, histories, Pool!Complete
<1>2. Held' = Held /\ InHand' = InHand /\ Queued' = Queued /\ OwnKind' /\ Distinct'
  BY <1>1, Still
<1>3. \A d \in Clients : handler'[d] = IF d = c THEN "done" ELSE handler[d]
  BY <1>1 DEF ConnectionsTypeOK
<1>4. /\ \A d \in fresh \cup backlog \cup Held \cup Queued : d # c
      /\ c \notin dropped
  <2>1. c \notin dropped
    BY <1>1 DEF OnePlace
  <2>2. \A d \in fresh \cup backlog : d # c
    BY <1>1 DEF OnePlace, Live
  <2>3. \A d \in Held \cup Queued : d # c
    BY <1>1 DEF OnePlace
  <2> QED BY <2>1, <2>2, <2>3
<1>5. Live' = Live \ {c}
  BY <1>1, <1>2, <1>4 DEF Live
<1>6. Listed' = Listed
  <2>1. c \notin InHand
    <3>1. InHand \subseteq Held
      BY DEF InHand, Held, Handing, Holding
    <3> QED BY <1>4, <3>1
  <2>2. c \notin Listed
    BY <1>1, <1>4, <2>1 DEF Listed
  <2>3. ASSUME NEW d \in TcpClients PROVE d \in Listed <=> d \in Listed'
    <3>1. d \in Clients
      BY DEF Clients
    <3> QED BY <1>1, <1>2, <1>3, <1>4, <2>1, <2>2, <3>1 DEF Listed
  <2>4. Listed \subseteq TcpClients /\ Listed' \subseteq TcpClients
    BY DEF Listed
  <2> QED BY <2>3, <2>4
<1>7. fdOf[c] \in Fds /\ open[fdOf[c]] = c
  BY <1>1 DEF OpenFds, Live
<1>8. ConnectionsTypeOK'
  BY <1>1 DEF ConnectionsTypeOK, Stations
<1>9. OnePlace'
  <2>1. \A d \in fresh \cup backlog : handler'[d] = "loop"
    BY <1>3, <1>4 DEF OnePlace, ConnectionsTypeOK
  <2>2. \A d \in Held \cup Queued : handler'[d] = "loop"
    <3>1. Held \cup Queued \subseteq Clients
      BY DEF Held, Queued, ConnectionsTypeOK
    <3> QED BY <1>3, <1>4, <3>1 DEF OnePlace
  <2>3. \A d \in running' : handler'[d] # "done"
    BY <1>1, <1>3 DEF OnePlace, ConnectionsTypeOK
  <2>4. \A d \in gaveUp : handler'[d] \in {"close", "done"}
    BY <1>3, <1>4 DEF OnePlace, ConnectionsTypeOK
  <2>5. \A d \in HttpClients : handler'[d] \in {"loop", "close", "done"}
    BY <1>3 DEF OnePlace, Clients
  <2> QED BY <1>1, <1>2, <1>5, <2>1, <2>2, <2>3, <2>4, <2>5 DEF OnePlace
<1>10. \A g \in Fds : open'[g] = IF g = fdOf[c] THEN None ELSE open[g]
  BY <1>1 DEF ConnectionsTypeOK
<1>11. OpenFds'
  <2>1. ASSUME NEW d \in Live' PROVE fdOf'[d] \in Fds /\ open'[fdOf'[d]] = d
    <3>1. fdOf[d] \in Fds /\ open[fdOf[d]] = d /\ d # c
      BY <1>5 DEF OpenFds
    <3> QED BY <1>1, <1>7, <1>10, <3>1
  <2>2. ASSUME NEW g \in Fds, open'[g] # None
        PROVE  fdOf'[open'[g]] = g /\ open'[g] \in (Live \cup dropped)'
    <3>1. g # fdOf[c] /\ open'[g] = open[g]
      BY <1>10, <2>2
    <3>2. fdOf[open[g]] = g /\ open[g] \in Live \cup dropped
      BY <2>2, <3>1 DEF OpenFds
    <3> QED BY <1>1, <1>5, <3>1, <3>2
  <2> QED BY <2>1, <2>2 DEF OpenFds
<1>12. Table'
  BY <1>1, <1>6 DEF Table
<1>13. Phases'
  BY <1>1 DEF Phases
<1> QED BY <1>2, <1>8, <1>9, <1>11, <1>12, <1>13

LEMMA MainInv ==
    ASSUME ConnectionsInv, SetFlag \/ MainStep
    PROVE  ConnectionsInv'
<1> USE DEF ConnectionsInv
<1>1. UNCHANGED <<backlog, fresh, open, fdOf, table, acceptor, handler, queue, running,
                  dropped, gaveUp>>
  BY DEF SetFlag, MainStep, ClosePool, JoinPool, JoinAcceptors, ConnectionsStay, clientVars,
         fdVars, poolVars, histories, Pool!Close
<1>2. Held' = Held /\ InHand' = InHand /\ Queued' = Queued /\ OwnKind' /\ Distinct'
  BY <1>1, Still
<1>3. Live' = Live /\ Listed' = Listed
  BY <1>1, <1>2 DEF Live, Listed
<1>4. OnePlace' /\ OpenFds' /\ Table'
  BY <1>1, <1>2, <1>3 DEF OnePlace, OpenFds, Table
<1>5. ConnectionsTypeOK'
  <2>1. closed' \in BOOLEAN /\ stop' \in BOOLEAN /\ mpc' \in MainPlaces
    BY DEF ConnectionsTypeOK, MainPlaces, SetFlag, MainStep, ClosePool, JoinPool,
           JoinAcceptors, MainGoes, poolVars, Pool!Close
  <2> QED BY <1>1, <2>1 DEF ConnectionsTypeOK
<1>6. Phases'
  <2>1. CASE SetFlag
    BY <2>1 DEF SetFlag, MainGoes, Phases
  <2>2. CASE ClosePool
    BY <2>2 DEF ClosePool, MainGoes, Phases, Pool!Close
  <2>3. CASE JoinPool
    BY <1>1, <2>3 DEF JoinPool, MainGoes, Phases, poolVars, Pool!Drained
  <2>4. CASE JoinAcceptors
    BY <1>1, <2>4 DEF JoinAcceptors, MainGoes, Phases, poolVars
  <2> QED BY <2>1, <2>2, <2>3, <2>4 DEF MainStep
<1> QED BY <1>2, <1>4, <1>5, <1>6

LEMMA ConnectionsStart == Init => ConnectionsInv
<1> SUFFICES ASSUME Init PROVE ConnectionsInv
  OBVIOUS
<1> USE DEF Init
<1>1. queue = <<>> /\ running = {} /\ closed = FALSE
  BY DEF Pool!TInit
<1>2. ConnectionsTypeOK
  <2>1. 0 \in 0..MaxFd
    BY ConnectionsAssumption
  <2>2. <<>> \in Seq(Clients)
    OBVIOUS
  <2> QED BY <1>1, <2>1, <2>2 DEF ConnectionsTypeOK, Stations, MainPlaces
<1>3. \A k \in Kinds : ~Holding(k)
  BY DEF Holding, Loop
<1>4. Held = {} /\ Queued = {} /\ InHand = {}
  <2>1. Held = {}
    BY <1>3 DEF Held
  <2>2. InHand = {}
    BY <1>3 DEF InHand, Handing, Holding
  <2>3. Queued = {}
    BY <1>1 DEF Queued
  <2> QED BY <2>1, <2>2, <2>3
<1>5. Live = {} /\ Listed = {}
  BY <1>1, <1>4 DEF Live, Listed
<1>6. OwnKind /\ Distinct
  BY <1>1, <1>3 DEF OwnKind, Distinct
<1>7. OnePlace
  BY <1>1, <1>4, <1>5 DEF OnePlace, Clients
<1>8. OpenFds /\ Table
  BY <1>5 DEF OpenFds, Table
<1>9. Phases
  BY DEF Phases
<1> QED BY <1>2, <1>6, <1>7, <1>8, <1>9 DEF ConnectionsInv

LEMMA ConnectionsStep == ConnectionsInv /\ [Next]_vars => ConnectionsInv'
<1> SUFFICES ASSUME ConnectionsInv, [Next]_vars PROVE ConnectionsInv'
  OBVIOUS
<1>1. ASSUME NEW c \in Clients, Connect(c) PROVE ConnectionsInv'
  BY <1>1, ConnectInv
<1>2. ASSUME NEW c \in Clients, HandlerStep(c) PROVE ConnectionsInv'
  <2>1. /\ handler[c] \in Stations
        /\ c \in HttpClients => c \notin TcpClients /\ handler[c] \notin {"push", "erase"}
    BY ConnectionsAssumption DEF ConnectionsInv, ConnectionsTypeOK, OnePlace
  <2>2. CASE SeeFlag(c)
    <3> DEFINE to == IF stop THEN "erase" ELSE "recv"
    <3>1. to \in Stations \ {"close", "done"} /\ c \notin HttpClients
      BY <2>1, <2>2 DEF SeeFlag, Stations
    <3>2. Step(c, "loop", to) /\ HandlerOnly /\ dropped' = dropped /\ gaveUp' = gaveUp
      BY <2>2 DEF SeeFlag, histories
    <3> HIDE DEF to
    <3> QED BY <3>1, <3>2, ServeInv
  <2>3. CASE Receive(c)
    <3>1. c \notin HttpClients /\ "push" \in Stations /\ "push" \notin {"close", "done"}
      BY <2>1, <2>3 DEF Receive, Stations
    <3> QED BY <2>3, <3>1, ServeInv DEF Receive, histories
  <2>4. CASE LineEnds(c)
    <3>1. c \notin HttpClients /\ "erase" \in Stations /\ "erase" \notin {"close", "done"}
      BY <2>1, <2>4 DEF LineEnds, Stations
    <3> QED BY <2>4, <3>1, ServeInv DEF LineEnds, histories
  <2>5. CASE Push(c)
    <3>1. c \notin HttpClients /\ "loop" \in Stations /\ "close" \in Stations
      BY <2>1, <2>5 DEF Push, Step, Stations
    <3>2. HandlerOnly
      BY <2>5 DEF Push
    <3>3. CASE Step(c, "push", "loop") /\ UNCHANGED histories
      BY <3>1, <3>2, <3>3, ServeInv DEF histories
    <3>4. CASE Step(c, "push", "close") /\ gaveUp' = gaveUp \cup {c} /\ UNCHANGED dropped
      BY <3>1, <3>2, <3>4, ServeInv
    <3> QED BY <2>5, <3>3, <3>4 DEF Push
  <2>6. CASE Erase(c)
    BY <2>6, EraseInv
  <2>7. CASE Answer(c)
    <3>1. c \in HttpClients /\ "close" \in Stations
      BY <2>7 DEF Answer, Stations
    <3> QED BY <2>7, <3>1, ServeInv DEF Answer, histories
  <2>8. CASE CloseFd(c)
    BY <2>8, CloseInv
  <2> QED BY <1>2, <2>2, <2>3, <2>4, <2>5, <2>6, <2>7, <2>8 DEF HandlerStep
<1>3. ASSUME NEW k \in Kinds, AcceptorStep(k) PROVE ConnectionsInv'
  BY <1>3, AcceptInv, EndsInv, TrackInv, HandOverInv DEF AcceptorStep
<1>4. CASE StartTask
  BY <1>4, StartInv
<1>5. CASE SetFlag \/ MainStep
  BY <1>5, MainInv
<1>6. CASE UNCHANGED vars
  <2>1. UNCHANGED <<backlog, fresh, open, fdOf, table, acceptor, handler, queue, running,
                    closed, stop, mpc, dropped, gaveUp>>
    BY <1>6 DEF vars, clientVars, fdVars, poolVars, mainVars, histories
  <2>2. Held' = Held /\ InHand' = InHand /\ Queued' = Queued /\ OwnKind' /\ Distinct'
    BY <2>1, Still DEF ConnectionsInv
  <2>3. Live' = Live /\ Listed' = Listed
    BY <2>1, <2>2 DEF Live, Listed
  <2> QED BY <2>1, <2>2, <2>3
          DEF ConnectionsInv, ConnectionsTypeOK, OnePlace, OpenFds, Table, Phases
<1> QED BY <1>1, <1>2, <1>3, <1>4, <1>5, <1>6 DEF Next, Stopped

\* Each open descriptor belongs to one connection, which is in one place, and the table
\* names the TCP connections under theirs.
THEOREM ConnectionsCorrect == Spec => []ConnectionsInv
<1> QED BY ConnectionsStart, ConnectionsStep, PTL DEF Spec

\* A TCP connection that is served is in the table under its own descriptor: the end of an
\* older connection never removes or hides it, though the kernel gives descriptors again.
THEOREM ServedCorrect == Spec => []ServedIsListed
<1>1. ConnectionsInv => ServedIsListed
  <2> SUFFICES ASSUME ConnectionsInv, NEW c \in running \cap TcpClients
               PROVE  /\ handler[c] # "done" => open[fdOf[c]] = c
                      /\ handler[c] \in {"loop", "recv", "push", "erase"}
                            => table[fdOf[c]] = c
    BY DEF ServedIsListed
  <2>1. open[fdOf[c]] = c
    BY DEF ConnectionsInv, OpenFds, Live
  <2>2. handler[c] # "close" => table[fdOf[c]] = c
    BY DEF ConnectionsInv, Table, Listed
  <2> QED BY <2>1, <2>2
<1> QED BY <1>1, ConnectionsCorrect, PTL

\* When the ingester has stopped, only connections that the pool refused still have a
\* descriptor, and only those and the ones given up in a retry an entry.
THEOREM StoppedCorrect == Spec => []OnlyLateOnesLeft
<1>1. ConnectionsInv => OnlyLateOnesLeft
  <2> SUFFICES ASSUME ConnectionsInv, mpc = "stopped", NEW f \in Fds
               PROVE  /\ open[f] \in dropped \cup {None}
                      /\ table[f] \in dropped \cup gaveUp \cup {None}
    BY DEF OnlyLateOnesLeft
  <2>1. queue = <<>> /\ running = {} /\ \A k \in Kinds : acceptor[k] = Ended
    BY DEF ConnectionsInv, Phases
  <2>2. \A k \in Kinds : ~Holding(k) /\ ~Handing(k)
    BY <2>1 DEF Holding, Handing, Ended
  <2>3. Held = {} /\ InHand = {} /\ Queued = {}
    BY <2>1, <2>2 DEF Held, InHand, Queued
  <2>4. Live = {} /\ Listed = {}
    BY <2>1, <2>3 DEF Live, Listed
  <2>5. open[f] \in dropped \cup {None}
    BY <2>4 DEF ConnectionsInv, OpenFds
  <2>6. table[f] \in dropped \cup gaveUp \cup {None}
    BY <2>4 DEF ConnectionsInv, Table
  <2> QED BY <2>5, <2>6
<1> QED BY <1>1, ConnectionsCorrect, PTL

-----------------------------------------------------------------------------
(* FileTail: where the watcher is in the file *)

\* How many pieces the truncations have removed, and the number of the last piece that
\* the watcher has dealt with or has no more chance to.
Gone == written - Len(file)
Frontier == IF cut THEN Gone ELSE Gone + pos - Len(buf)

WatcherPlaces ==
    {"open", "size", "watch", "wait", "check", "getline", "eof", "ended", "terminated"}

TailTypeOK ==
    /\ file \in Seq(Piece) /\ exists \in BOOLEAN
    /\ written \in 0..MaxPieces /\ cuts \in 0..MaxCuts
    /\ stop_flag \in BOOLEAN /\ at \in WatcherPlaces
    /\ pos \in Nat /\ last_size \in Nat /\ buf \in Seq(Piece)
    /\ watched \in BOOLEAN /\ pending \in BOOLEAN
    /\ pushed \in Seq(Seq(Piece)) /\ first \in 0..MaxPieces
    /\ looked \in BOOLEAN /\ cut \in BOOLEAN /\ racy \in BOOLEAN
    /\ skipped \subseteq 1..MaxPieces

\* The file has the last pieces, in their order.
InFile == Len(file) <= written /\ \A n \in DOMAIN file : file[n].no = Gone + n

\* The buffer has the pieces in front of the position.
InBuffer ==
    /\ Len(buf) <= pos
    /\ at # "getline" => buf = <<>>
    /\ ~racy => \A n \in DOMAIN buf : buf[n] = file[pos - Len(buf) + n]

Positions ==
    /\ ~racy /\ ~cut => pos <= Len(file) /\ last_size <= Len(file)
    /\ ~racy /\ at \in {"getline", "eof"} => ~cut
    /\ at = "open" => pushed = <<>> /\ last_size = 0
    /\ at \in {"open", "size", "watch"} => ~looked
    /\ looked \/ at \in {"wait", "check", "getline", "eof"} => watched

Behind ==
    ~racy =>
        /\ first <= Frontier
        /\ \A i \in DOMAIN pushed :
              pushed[i] # <<>> /\ pushed[i][Len(pushed[i])].no <= Frontier

\* What the watcher is there for and has dealt with was pushed, or skipped.
Covered ==
    ~racy =>
        /\ \A n \in DOMAIN file : first < Gone + n /\ Gone + n <= Frontier
              => Gone + n \in PushedPieces \cup skipped
        /\ at = "eof" => \A n \in DOMAIN file : n > pos => Gone + n \in skipped

\* Without an event the watcher has seen all of the file.
Seen == ~racy /\ at = "wait" /\ looked /\ ~pending => ~cut /\ pos = Len(file)

TailInv ==
    TailTypeOK /\ InFile /\ InBuffer /\ Positions /\ Behind /\ Covered /\ Seen /\ PushedInOrder

\* Every non-empty set of naturals has a least element.
LEMMA LeastNat ==
    ASSUME NEW T \in SUBSET Nat, T # {}
    PROVE  \E x \in T : \A y \in T : x <= y
<1> DEFINE R == OpToRel(<, Nat)
<1>1. IsWellFoundedOn(R, Nat)
  BY NatLessThanWellFounded
<1>2. \A m, n \in Nat : m < n => <<m, n>> \in R
  BY DEF OpToRel
<1> HIDE DEF R
<1>3. PICK x \in T : \A y \in T : ~(<<y, x>> \in R)
  BY <1>1, WFMin
<1>4. ASSUME NEW y \in T PROVE x <= y
  <2>1. ~(y < x)
    BY <1>2, <1>3
  <2> QED BY <2>1
<1> QED BY <1>4

\* The elements of a sequence between two positions.
LEMMA Between ==
    ASSUME NEW S, NEW s \in Seq(S), NEW i \in Nat, NEW j \in Nat, i <= j, j <= Len(s)
    PROVE  /\ SubSeq(s, i + 1, j) \in Seq(S) /\ Len(SubSeq(s, i + 1, j)) = j - i
           /\ DOMAIN SubSeq(s, i + 1, j) = 1..(j - i)
           /\ \A n \in 1..(j - i) : SubSeq(s, i + 1, j)[n] = s[i + n] /\ i + n \in DOMAIN s
<1>1. Len(s) \in Nat /\ DOMAIN s = 1..Len(s) /\ i + 1 \in Int /\ j \in Int
  BY LenProperties
<1>2. \A n \in (i + 1)..j : s[n] \in S
  <2> SUFFICES ASSUME NEW n \in (i + 1)..j PROVE s[n] \in S
    OBVIOUS
  <2>1. n \in 1..Len(s)
    BY <1>1
  <2> QED BY <2>1, ElementOfSeq
<1> DEFINE t == SubSeq(s, i + 1, j)
<1>3. /\ t \in Seq(S) /\ Len(t) = IF i + 1 <= j THEN j - (i + 1) + 1 ELSE 0
      /\ \A n \in 1..(j - (i + 1) + 1) : t[n] = s[i + 1 + n - 1]
  BY <1>1, <1>2, SubSeqProperties
<1> HIDE DEF t
<1>4. t \in Seq(S) /\ Len(t) = j - i
  BY <1>1, <1>3
<1>5. DOMAIN t = 1..(j - i)
  BY <1>4, LenProperties
<1>6. ASSUME NEW n \in 1..(j - i) PROVE t[n] = s[i + n] /\ i + n \in DOMAIN s
  <2>1. n \in 1..(j - (i + 1) + 1) /\ i + 1 + n - 1 = i + n /\ i + n \in 1..Len(s)
    BY <1>1
  <2> QED BY <1>1, <1>3, <2>1
<1> QED BY <1>4, <1>5, <1>6 DEF t

\* The line that getline finds.
LEMMA FirstLine ==
    ASSUME buf \in Seq(Piece), HasLine
    PROVE  /\ LineEnd \in 1..Len(buf) /\ buf[LineEnd].end
           /\ \A m \in 1..(LineEnd - 1) : ~buf[m].end
<1> DEFINE T == {n \in DOMAIN buf : buf[n].end}
<1>1. DOMAIN buf = 1..Len(buf) /\ Len(buf) \in Nat
  OBVIOUS
<1>2. T \in SUBSET Nat /\ T # {}
  BY <1>1 DEF HasLine
<1>3. PICK x \in T : \A y \in T : x <= y
  BY <1>2, LeastNat
<1>4. x \in DOMAIN buf /\ buf[x].end /\ \A m \in 1..(x - 1) : ~buf[m].end
  BY <1>1, <1>3
<1>5. LineEnd \in DOMAIN buf /\ buf[LineEnd].end /\ \A m \in 1..(LineEnd - 1) : ~buf[m].end
  BY <1>4 DEF LineEnd
<1> QED BY <1>1, <1>5

\* An entry is pushed.
LEMMA PushedMore ==
    ASSUME pushed \in Seq(Seq(Piece)), NEW e \in Seq(Piece), pushed' = Append(pushed, e)
    PROVE  /\ pushed' \in Seq(Seq(Piece)) /\ DOMAIN pushed' = 1..(Len(pushed) + 1)
           /\ \A i \in DOMAIN pushed' : pushed'[i] = IF i \in DOMAIN pushed THEN pushed[i] ELSE e
           /\ PushedPieces' = PushedPieces \cup {e[n].no : n \in DOMAIN e}
<1>1. /\ pushed' \in Seq(Seq(Piece)) /\ Len(pushed) \in Nat /\ DOMAIN pushed = 1..Len(pushed)
      /\ DOMAIN pushed' = 1..(Len(pushed) + 1)
      /\ \A i \in DOMAIN pushed' : pushed'[i] = IF i \in DOMAIN pushed THEN pushed[i] ELSE e
  BY AppendProperties
<1>2. /\ DOMAIN pushed' = DOMAIN pushed \cup {Len(pushed) + 1}
      /\ Len(pushed) + 1 \notin DOMAIN pushed
  BY <1>1
<1> DEFINE No(d) == {d[n].no : n \in DOMAIN d}
<1>3. {pushed'[i] : i \in DOMAIN pushed'} = {pushed[i] : i \in DOMAIN pushed} \cup {e}
  BY <1>1, <1>2
<1>4. PushedPieces = UNION {No(d) : d \in {pushed[i] : i \in DOMAIN pushed}}
  BY DEF PushedPieces
<1>5. PushedPieces' = UNION {No(d) : d \in {pushed'[i] : i \in DOMAIN pushed'}}
  BY DEF PushedPieces
<1> HIDE DEF No
<1>6. PushedPieces' = PushedPieces \cup No(e)
  BY <1>3, <1>4, <1>5
<1> QED BY <1>1, <1>6 DEF No

\* The first pieces in the buffer are pushed: they follow on what was pushed before.
LEMMA PushedOn ==
    ASSUME TailInv, ~racy, at = "getline", NEW e \in Seq(Piece), e # <<>>,
           Len(e) <= Len(buf), \A n \in 1..Len(e) : e[n] = buf[n],
           \A n \in 1..(Len(e) - 1) : ~buf[n].end,
           pushed' = Append(pushed, e), racy' = racy, first' = first
    PROVE  /\ PushedInOrder'
           /\ \A i \in DOMAIN pushed' :
                 pushed'[i] # <<>> /\ pushed'[i][Len(pushed'[i])].no <= Frontier + Len(e)
           /\ \A x \in Int : Frontier < x /\ x <= Frontier + Len(e) => x \in PushedPieces'
           /\ PushedPieces \subseteq PushedPieces'
<1> USE DEF TailInv
<1>1. /\ pushed' \in Seq(Seq(Piece)) /\ DOMAIN pushed' = 1..(Len(pushed) + 1)
      /\ \A i \in DOMAIN pushed' : pushed'[i] = IF i \in DOMAIN pushed THEN pushed[i] ELSE e
      /\ PushedPieces' = PushedPieces \cup {e[n].no : n \in DOMAIN e}
  BY PushedMore DEF TailTypeOK
<1>2. /\ ~cut /\ Frontier = Gone + pos - Len(buf) /\ Frontier \in Int /\ Gone \in Int
      /\ pos <= Len(file) /\ Len(buf) <= pos
      /\ pos \in Nat /\ Len(buf) \in Nat /\ Len(file) \in Nat
      /\ DOMAIN buf = 1..Len(buf) /\ DOMAIN file = 1..Len(file)
      /\ DOMAIN e = 1..Len(e) /\ Len(e) \in Nat /\ Len(e) >= 1
      /\ Len(pushed) \in Nat /\ DOMAIN pushed = 1..Len(pushed)
  <2>1. ~cut /\ pos <= Len(file) /\ Len(buf) <= pos
    BY DEF Positions, InBuffer
  <2>2. /\ pos \in Nat /\ Len(buf) \in Nat /\ Len(file) \in Nat /\ written \in Nat
        /\ DOMAIN buf = 1..Len(buf) /\ DOMAIN file = 1..Len(file)
        /\ Len(pushed) \in Nat /\ DOMAIN pushed = 1..Len(pushed)
    BY DEF TailTypeOK
  <2>3. DOMAIN e = 1..Len(e) /\ Len(e) \in Nat /\ Len(e) >= 1
    BY EmptySeq
  <2> HIDE DEF TailInv
  <2> QED BY <2>1, <2>2, <2>3 DEF Frontier, Gone
<1>3. ASSUME NEW n \in 1..Len(e) PROVE e[n].no = Frontier + n
  <2>1. n \in DOMAIN buf /\ pos - Len(buf) + n \in DOMAIN file
    BY <1>2
  <2>2. e[n] = file[pos - Len(buf) + n]
    BY <2>1 DEF InBuffer
  <2>3. file[pos - Len(buf) + n].no = Gone + (pos - Len(buf) + n)
    BY <2>1 DEF InFile
  <2> HIDE DEF TailInv
  <2> QED BY <1>2, <2>2, <2>3
<1>4. /\ first <= Frontier /\ first \in Int
      /\ \A i \in DOMAIN pushed : pushed[i] # <<>> /\ pushed[i][Len(pushed[i])].no <= Frontier
  BY DEF Behind, TailTypeOK
<1>5. ASSUME NEW i \in DOMAIN pushed PROVE pushed[i][Len(pushed[i])].no \in Int
  <2>1. pushed[i] \in Seq(Piece) /\ pushed[i] # <<>>
    BY <1>4 DEF TailTypeOK
  <2>2. Len(pushed[i]) \in DOMAIN pushed[i]
    BY <2>1, EmptySeq
  <2>3. pushed[i][Len(pushed[i])] \in Piece
    BY <2>1, <2>2
  <2> QED BY <2>3 DEF Piece
<1>6. PushedInOrder'
  <2>1. SUFFICES ASSUME NEW i \in DOMAIN pushed'
                 PROVE  LET f == pushed'[i]
                        IN  /\ f[1].no > first
                            /\ \A n \in 1..(Len(f) - 1) : ~f[n].end /\ f[n + 1].no = f[n].no + 1
                            /\ i > 1 => LET d == pushed'[i - 1] IN d[Len(d)].no < f[1].no
    BY DEF PushedInOrder
  <2>2. i \in 1..(Len(pushed) + 1)
    BY <1>1
  <2>3. CASE i \in DOMAIN pushed
    <3>1. pushed'[i] = pushed[i]
      BY <1>1, <2>3
    <3>2. i > 1 => i - 1 \in DOMAIN pushed /\ i - 1 \in DOMAIN pushed'
      BY <1>1, <1>2, <2>3
    <3>3. i > 1 => pushed'[i - 1] = pushed[i - 1]
      BY <1>1, <3>2
    <3> QED BY <2>3, <3>1, <3>3 DEF PushedInOrder
  <2>4. CASE i \notin DOMAIN pushed
    <3>1. pushed'[i] = e /\ i = Len(pushed) + 1
      BY <1>1, <1>2, <2>2, <2>4
    <3>2. e[1].no > first
      BY <1>2, <1>3, <1>4
    <3>3. ASSUME NEW n \in 1..(Len(e) - 1) PROVE ~e[n].end /\ e[n + 1].no = e[n].no + 1
      <4>1. n \in 1..Len(e) /\ n + 1 \in 1..Len(e)
        BY <1>2
      <4>2. e[n].no = Frontier + n /\ e[n + 1].no = Frontier + (n + 1)
        BY <1>3, <4>1
      <4> QED BY <1>2, <4>1, <4>2
    <3>4. ASSUME i > 1 PROVE pushed'[i - 1][Len(pushed'[i - 1])].no < e[1].no
      <4>1. i - 1 \in DOMAIN pushed /\ i - 1 \in DOMAIN pushed'
        BY <1>1, <1>2, <2>2, <3>1, <3>4
      <4>2. pushed'[i - 1] = pushed[i - 1]
        BY <1>1, <4>1
      <4>3. e[1].no = Frontier + 1
        BY <1>2, <1>3
      <4> QED BY <1>2, <1>4, <1>5, <4>1, <4>2, <4>3
    <3> QED BY <3>1, <3>2, <3>3, <3>4
  <2> QED BY <2>3, <2>4
<1>7. ASSUME NEW i \in DOMAIN pushed'
      PROVE  pushed'[i] # <<>> /\ pushed'[i][Len(pushed'[i])].no <= Frontier + Len(e)
  <2>1. CASE i \in DOMAIN pushed
    BY <1>1, <1>2, <1>4, <1>5, <2>1
  <2>2. CASE i \notin DOMAIN pushed
    BY <1>1, <1>2, <1>3, <2>2
  <2> QED BY <2>1, <2>2
<1>8. ASSUME NEW x \in Int, Frontier < x, x <= Frontier + Len(e) PROVE x \in PushedPieces'
  <2>1. x - Frontier \in 1..Len(e) /\ Frontier + (x - Frontier) = x
    BY <1>2, <1>8
  <2>2. e[x - Frontier].no = Frontier + (x - Frontier)
    BY <1>3, <2>1
  <2>3. x - Frontier \in DOMAIN e /\ e[x - Frontier].no = x
    BY <1>2, <2>1, <2>2
  <2> QED BY <1>1, <2>3
<1> QED BY <1>1, <1>6, <1>7, <1>8

-----------------------------------------------------------------------------
(* FileTail: every action preserves the invariant *)

\* Numbers, sequences and their lengths.
LEMMA Sizes ==
    ASSUME TailTypeOK
    PROVE  /\ Len(file) \in Nat /\ DOMAIN file = 1..Len(file)
           /\ Len(buf) \in Nat /\ DOMAIN buf = 1..Len(buf)
           /\ Len(pushed) \in Nat /\ DOMAIN pushed = 1..Len(pushed)
           /\ written \in Nat /\ first \in Nat /\ pos \in Nat /\ last_size \in Nat
           /\ Gone \in Int /\ Frontier \in Int
<1>1. /\ Len(file) \in Nat /\ DOMAIN file = 1..Len(file)
      /\ Len(buf) \in Nat /\ DOMAIN buf = 1..Len(buf)
      /\ Len(pushed) \in Nat /\ DOMAIN pushed = 1..Len(pushed)
      /\ written \in Nat /\ first \in Nat /\ pos \in Nat /\ last_size \in Nat
  BY TailAssumption DEF TailTypeOK
<1> QED BY <1>1 DEF Gone, Frontier

\* Nothing is pushed.
LEMMA NothingPushed ==
    ASSUME PushedInOrder, UNCHANGED <<pushed, first>>, racy => racy'
    PROVE  PushedInOrder' /\ PushedPieces' = PushedPieces
<1>1. PushedPieces' = PushedPieces
  BY DEF PushedPieces
<1> QED BY <1>1 DEF PushedInOrder

\* The numbers of what was pushed are numbers.
LEMMA LastNumber ==
    ASSUME TailTypeOK, NEW i \in DOMAIN pushed, pushed[i] # <<>>
    PROVE  pushed[i][Len(pushed[i])].no \in Int
<1>1. pushed[i] \in Seq(Piece)
  BY DEF TailTypeOK
<1>2. Len(pushed[i]) \in DOMAIN pushed[i]
  BY <1>1, EmptySeq
<1>3. pushed[i][Len(pushed[i])] \in Piece
  BY <1>1, <1>2
<1> QED BY <1>3 DEF Piece

\* The frontier never passes what was written.
LEMMA FrontierBound ==
    ASSUME TailTypeOK, InFile, InBuffer, Positions, ~racy
    PROVE  0 <= Gone /\ Gone <= Frontier /\ Frontier <= written
<1>1. Len(file) <= written /\ Len(buf) <= pos /\ (~cut => pos <= Len(file))
  BY DEF InFile, InBuffer, Positions
<1> QED BY <1>1, Sizes DEF Gone, Frontier

\* A step that changes neither the file nor what was read of it.
LEMMA IdleInv ==
    ASSUME TailInv, exists' \in BOOLEAN, stop_flag' \in BOOLEAN,
           at' = at \/ (at # "getline" /\ at' \in {"ended", "terminated"}),
           UNCHANGED <<file, written, cuts, readVars, watched, pending, tailHistories>>
    PROVE  TailInv'
<1> USE DEF TailInv
<1>1. UNCHANGED <<pos, last_size, buf, pushed, first, looked, cut, racy, skipped>>
  BY DEF readVars, tailHistories
<1>2. Gone' = Gone /\ Frontier' = Frontier
  BY <1>1 DEF Gone, Frontier
<1>3. PushedInOrder' /\ PushedPieces' = PushedPieces
  BY <1>1, NothingPushed
<1>4. TailTypeOK'
  BY <1>1 DEF TailTypeOK, WatcherPlaces
<1>5. InFile' /\ Behind'
  BY <1>1, <1>2 DEF InFile, Behind
<1>6. InBuffer' /\ Positions' /\ Seen'
  BY <1>1 DEF InBuffer, Positions, Seen
<1>7. Covered'
  BY <1>1, <1>2, <1>3 DEF Covered
<1> QED BY <1>3, <1>4, <1>5, <1>6, <1>7

LEMMA AppendInv ==
    ASSUME TailInv, NEW end \in BOOLEAN, AppendPiece(end)
    PROVE  TailInv'
<1> USE DEF TailInv
<1> DEFINE e == [no |-> written + 1, end |-> end]
<1>1. /\ written < MaxPieces /\ written' = written + 1 /\ file' = Append(file, e)
      /\ pending' = (pending \/ watched)
      /\ skipped' = IF at = "eof" THEN skipped \cup {written + 1} ELSE skipped
      /\ UNCHANGED <<exists, cuts, stop_flag, at, pos, last_size, buf, watched, pushed, first,
                     looked, cut, racy>>
  BY DEF AppendPiece, Notify, readVars
<1>2. written + 1 \in 1..MaxPieces /\ written + 1 \in 0..MaxPieces
  BY <1>1, Sizes, TailAssumption
<1>3. e \in Piece /\ e.no = written + 1
  BY <1>2 DEF Piece
<1> HIDE DEF e
<1>4. /\ file' \in Seq(Piece) /\ Len(file') = Len(file) + 1
      /\ DOMAIN file' = 1..(Len(file) + 1)
      /\ \A n \in DOMAIN file' : file'[n] = IF n \in DOMAIN file THEN file[n] ELSE e
  BY <1>1, <1>3, Sizes, AppendProperties DEF TailTypeOK
<1>5. Gone' = Gone /\ Frontier' = Frontier
  BY <1>1, <1>4, Sizes DEF Gone, Frontier
<1>6. PushedInOrder' /\ PushedPieces' = PushedPieces
  BY <1>1, NothingPushed
<1>7. TailTypeOK'
  <2>1. skipped' \subseteq 1..MaxPieces
    BY <1>1, <1>2 DEF TailTypeOK
  <2>2. pending' \in BOOLEAN
    BY <1>1 DEF TailTypeOK
  <2> QED BY <1>1, <1>2, <1>4, <2>1, <2>2 DEF TailTypeOK
<1>8. InFile'
  <2>1. Len(file') <= written'
    BY <1>1, <1>4, Sizes DEF InFile
  <2>2. ASSUME NEW n \in DOMAIN file' PROVE file'[n].no = Gone + n
    <3>1. CASE n \in DOMAIN file
      BY <1>4, <3>1 DEF InFile
    <3>2. CASE n \notin DOMAIN file
      <4>1. n = Len(file) + 1
        BY <1>4, <3>2, Sizes
      <4>2. Gone + n = written + 1
        BY <4>1, Sizes DEF Gone
      <4> QED BY <1>3, <1>4, <3>2, <4>2
    <3> QED BY <3>1, <3>2
  <2> QED BY <1>5, <2>1, <2>2 DEF InFile
<1>9. InBuffer'
  <2>1. ASSUME ~racy, NEW n \in DOMAIN buf PROVE buf[n] = file'[pos - Len(buf) + n]
    <3>1. at = "getline"
      BY <2>1, Sizes DEF InBuffer
    <3>2. pos <= Len(file) /\ Len(buf) <= pos
      BY <2>1, <3>1 DEF Positions, InBuffer
    <3>3. pos - Len(buf) + n \in DOMAIN file /\ pos - Len(buf) + n \in DOMAIN file'
      BY <1>4, <3>2, Sizes
    <3> QED BY <1>4, <2>1, <3>3 DEF InBuffer
  <2> QED BY <1>1, <2>1 DEF InBuffer
<1>10. Positions'
  BY <1>1, <1>4, Sizes DEF Positions
<1>11. Behind'
  BY <1>1, <1>5 DEF Behind
<1>12. Covered'
  <2> SUFFICES ASSUME ~racy PROVE
        /\ \A n \in DOMAIN file' : first < Gone + n /\ Gone + n <= Frontier
              => Gone + n \in PushedPieces \cup skipped'
        /\ at = "eof" => \A n \in DOMAIN file' : n > pos => Gone + n \in skipped'
    BY <1>1, <1>5, <1>6 DEF Covered
  <2>1. \A n \in DOMAIN file' : n \in DOMAIN file \/ Gone + n = written + 1
    BY <1>4, Sizes DEF Gone
  <2>2. Frontier <= written
    BY FrontierBound
  <2>3. ASSUME NEW n \in DOMAIN file', first < Gone + n, Gone + n <= Frontier
        PROVE  Gone + n \in PushedPieces \cup skipped'
    <3>1. n \in DOMAIN file
      BY <2>1, <2>2, <2>3, Sizes
    <3> QED BY <1>1, <2>3, <3>1 DEF Covered
  <2>4. ASSUME at = "eof", NEW n \in DOMAIN file', n > pos PROVE Gone + n \in skipped'
    <3>1. CASE n \in DOMAIN file
      BY <1>1, <2>4, <3>1 DEF Covered
    <3>2. CASE n \notin DOMAIN file
      BY <1>1, <2>1, <2>4, <3>2
    <3> QED BY <3>1, <3>2
  <2> QED BY <2>3, <2>4
<1>13. Seen'
  BY <1>1 DEF Seen, Positions
<1> QED BY <1>6, <1>7, <1>8, <1>9, <1>10, <1>11, <1>12, <1>13

LEMMA TruncateInv ==
    ASSUME TailInv, Truncate
    PROVE  TailInv'
<1> USE DEF TailInv
<1>1. /\ cuts < MaxCuts /\ cuts' = cuts + 1 /\ file' = <<>> /\ cut' = TRUE
      /\ pending' = (pending \/ watched) /\ racy' = (racy \/ at \in {"getline", "eof"})
      /\ UNCHANGED <<exists, written, stop_flag, at, pos, last_size, buf, watched, pushed,
                     first, looked, skipped>>
  BY DEF Truncate, Notify, readVars
<1>2. Len(file') = 0 /\ DOMAIN file' = {} /\ file' \in Seq(Piece)
  BY <1>1
<1>3. Gone' = written /\ Frontier' = written
  BY <1>1, <1>2, Sizes DEF Gone, Frontier
<1>4. PushedInOrder' /\ PushedPieces' = PushedPieces
  BY <1>1, NothingPushed
<1>5. TailTypeOK'
  <2>1. cuts' \in 0..MaxCuts
    BY <1>1, TailAssumption DEF TailTypeOK
  <2>2. pending' \in BOOLEAN /\ racy' \in BOOLEAN
    BY <1>1 DEF TailTypeOK
  <2> QED BY <1>1, <1>2, <2>1, <2>2 DEF TailTypeOK
<1>6. InFile'
  BY <1>1, <1>2, Sizes DEF InFile
<1>7. InBuffer'
  <2>1. ~racy' => buf = <<>>
    BY <1>1 DEF InBuffer
  <2> QED BY <1>1, <2>1 DEF InBuffer
<1>8. Positions' /\ Seen'
  <2>1. Positions'
    BY <1>1 DEF Positions
  <2>2. Seen'
    BY <1>1 DEF Seen, Positions
  <2> QED BY <2>1, <2>2
<1>9. Behind'
  <2> SUFFICES ASSUME ~racy
               PROVE  /\ first <= written
                      /\ \A i \in DOMAIN pushed :
                            pushed[i] # <<>> /\ pushed[i][Len(pushed[i])].no <= written
    BY <1>1, <1>3 DEF Behind
  <2>1. Frontier <= written /\ first <= Frontier
    BY FrontierBound DEF Behind
  <2>2. ASSUME NEW i \in DOMAIN pushed
        PROVE  pushed[i] # <<>> /\ pushed[i][Len(pushed[i])].no <= written
    <3>1. pushed[i] # <<>> /\ pushed[i][Len(pushed[i])].no <= Frontier
      BY DEF Behind
    <3> QED BY <2>1, <3>1, LastNumber, Sizes
  <2> QED BY <2>1, <2>2, Sizes
<1>10. Covered'
  BY <1>2 DEF Covered
<1> QED BY <1>4, <1>5, <1>6, <1>7, <1>8, <1>9, <1>10

\* The watcher opens the file, looks at its size, sets the watch or reads the events.
LEMMA OpenInv ==
    ASSUME TailInv, Open
    PROVE  TailInv'
<1> USE DEF TailInv
<1>1. /\ at = "open" /\ at' = "size" /\ pos' = Len(file) /\ first' = written /\ cut' = FALSE
      /\ UNCHANGED <<file, exists, written, cuts, stop_flag, last_size, buf, watched, pending,
                     pushed, looked, racy, skipped>>
  BY DEF Open, fileVars
<1>2. buf = <<>> /\ pushed = <<>> /\ last_size = 0 /\ ~looked
  BY <1>1 DEF InBuffer, Positions
<1>3. Gone' = Gone /\ Frontier' = written
  BY <1>1, <1>2, Sizes DEF Gone, Frontier
<1>4. TailTypeOK'
  BY <1>1, Sizes DEF TailTypeOK, WatcherPlaces
<1>5. InFile' /\ InBuffer'
  BY <1>1, <1>2, <1>3, Sizes DEF InFile, InBuffer
<1>6. Positions' /\ Seen'
  BY <1>1, <1>2, Sizes DEF Positions, Seen
<1>7. Behind' /\ PushedInOrder'
  BY <1>1, <1>2, <1>3, Sizes DEF Behind, PushedInOrder
<1>8. Covered'
  BY <1>1, <1>3, Sizes DEF Covered
<1> QED BY <1>4, <1>5, <1>6, <1>7, <1>8

LEMMA WaitInv ==
    ASSUME TailInv, FirstSize \/ AddWatch \/ Drain
    PROVE  TailInv'
<1> USE DEF TailInv
<1>1. /\ UNCHANGED <<file, exists, written, cuts, stop_flag, pos, buf, pushed, first, looked,
                     cut, racy, skipped>>
      /\ \/ at = "size" /\ at' = "watch" /\ last_size' = Len(file)
            /\ UNCHANGED <<watched, pending>>
         \/ at = "watch" /\ at' = (IF exists THEN "wait" ELSE "ended") /\ watched' = exists
            /\ UNCHANGED <<last_size, pending>>
         \/ at = "wait" /\ at' = "check" /\ pending' = FALSE /\ UNCHANGED <<last_size, watched>>
  BY DEF FirstSize, AddWatch, Drain, fileVars, readVars, tailHistories
<1>2. Gone' = Gone /\ Frontier' = Frontier
  BY <1>1 DEF Gone, Frontier
<1>3. PushedInOrder' /\ PushedPieces' = PushedPieces
  BY <1>1, NothingPushed
<1>4. TailTypeOK'
  <2>1. /\ at' \in WatcherPlaces /\ last_size' \in Nat /\ watched' \in BOOLEAN
        /\ pending' \in BOOLEAN
    BY <1>1, Sizes DEF TailTypeOK, WatcherPlaces
  <2> QED BY <1>1, <2>1 DEF TailTypeOK
<1>5. InFile' /\ Behind'
  BY <1>1, <1>2 DEF InFile, Behind
<1>6. InBuffer'
  BY <1>1 DEF InBuffer
<1>7. Positions'
  BY <1>1, Sizes DEF Positions
<1>8. Covered'
  BY <1>1, <1>2, <1>3 DEF Covered
<1>9. Seen'
  BY <1>1 DEF Seen, Positions
<1> QED BY <1>3, <1>4, <1>5, <1>6, <1>7, <1>8, <1>9

\* The size is looked at: if the truncation shows, everything in the file is to be read.
LEMMA CheckInv ==
    ASSUME TailInv, CheckSize
    PROVE  TailInv'
<1> USE DEF TailInv
<1>1. /\ at = "check" /\ at' = "getline" /\ pos' = IF Len(file) < last_size THEN 0 ELSE pos
      /\ last_size' = Len(file) /\ buf' = <<>> /\ cut' = FALSE
      /\ racy' = (racy \/ (cut /\ Len(file) >= last_size))
      /\ UNCHANGED <<file, exists, written, cuts, stop_flag, watched, pending, pushed, first,
                     looked, skipped>>
  BY DEF CheckSize, fileVars
<1>2. buf = <<>> /\ Len(buf') = 0 /\ DOMAIN buf' = {}
  BY <1>1 DEF InBuffer
<1>3. Gone' = Gone
  BY <1>1 DEF Gone
<1>4. ASSUME ~racy' PROVE ~racy /\ pos' <= Len(file) /\ Frontier' = Frontier
  <2>1. ~racy /\ (cut => Len(file) < last_size)
    <3>1. ~(Len(file) >= last_size) <=> Len(file) < last_size
      BY Sizes
    <3> QED BY <1>1, <1>4, <3>1
  <2>2. ~cut => pos <= Len(file) /\ last_size <= Len(file)
    BY <2>1 DEF Positions
  <2>3. CASE cut
    BY <1>1, <1>2, <1>3, <2>1, <2>3, Sizes DEF Frontier
  <2>4. CASE ~cut
    BY <1>1, <1>2, <1>3, <2>1, <2>2, <2>4, Sizes DEF Frontier
  <2> QED BY <2>1, <2>3, <2>4
<1>5. PushedInOrder' /\ PushedPieces' = PushedPieces
  BY <1>1, NothingPushed
<1>6. TailTypeOK'
  <2>1. pos' \in Nat /\ last_size' \in Nat /\ buf' \in Seq(Piece)
    BY <1>1, Sizes
  <2>2. racy' \in BOOLEAN /\ cut' \in BOOLEAN /\ at' \in WatcherPlaces
    BY <1>1 DEF TailTypeOK, WatcherPlaces
  <2> QED BY <1>1, <2>1, <2>2 DEF TailTypeOK
<1>7. InFile'
  BY <1>1, <1>3 DEF InFile
<1>8. InBuffer'
  BY <1>1, <1>2, <1>6 DEF InBuffer, TailTypeOK
<1>9. Positions'
  BY <1>1, <1>4, Sizes DEF Positions
<1>10. Behind'
  BY <1>1, <1>4 DEF Behind
<1>11. Covered'
  BY <1>1, <1>3, <1>4, <1>5 DEF Covered
<1>12. Seen'
  BY <1>1 DEF Seen
<1> QED BY <1>5, <1>6, <1>7, <1>8, <1>9, <1>10, <1>11, <1>12

\* What getline and the end of the file have in common: the first pieces in the buffer
\* leave it, as an entry or, when there are none, without one.
LEMMA TakenInv ==
    ASSUME TailInv, at = "getline", NEW m \in Nat, m <= Len(buf),
           \A n \in 1..(m - 1) : ~buf[n].end,
           buf' \in Seq(Piece), Len(buf') = Len(buf) - m,
           \A n \in 1..(Len(buf) - m) : buf'[n] = buf[m + n],
           NEW e \in Seq(Piece), Len(e) = m, \A n \in 1..m : e[n] = buf[n],
           pushed' = IF m = 0 THEN pushed ELSE Append(pushed, e),
           at' = "getline" \/ (at' = "eof" /\ m = Len(buf) /\ Len(file) <= pos),
           UNCHANGED <<fileVars, stop_flag, pos, last_size, watched, pending,
                       first, looked, cut, racy, skipped>>
    PROVE  TailInv'
<1> USE DEF TailInv
<1>1. UNCHANGED <<file, exists, written, cuts, stop_flag, pos, last_size, watched, pending,
                  first, looked, cut, racy, skipped>>
  BY DEF fileVars
<1>2. /\ buf \in Seq(Piece) /\ Len(buf) \in Nat /\ DOMAIN buf = 1..Len(buf)
      /\ Len(file) \in Nat /\ DOMAIN file = 1..Len(file) /\ pos \in Nat
      /\ written \in Nat /\ first \in Nat /\ Gone \in Int /\ Frontier \in Int
  BY Sizes DEF TailTypeOK
<1> HIDE DEF TailInv
<1>3. /\ DOMAIN buf' = 1..(Len(buf) - m)
      /\ \A n \in DOMAIN buf' : buf'[n] = buf[m + n] /\ m + n \in DOMAIN buf
  <2>1. DOMAIN buf' = 1..(Len(buf) - m)
    BY LenProperties
  <2>2. \A n \in 1..(Len(buf) - m) : m + n \in DOMAIN buf
    BY <1>2
  <2> QED BY <2>1, <2>2
<1>4. m # 0 => e # <<>>
  BY EmptySeq
<1>5. ~racy => ~cut
  BY DEF TailInv, Positions
<1>6. Gone' = Gone
  BY <1>1 DEF Gone
<1>7. ~racy => Frontier' = Frontier + m
  BY <1>1, <1>2, <1>3, <1>5, <1>6 DEF Frontier
<1>8. pushed' \in Seq(Seq(Piece))
  <2>1. CASE m = 0
    BY <2>1 DEF TailInv, TailTypeOK
  <2>2. CASE m # 0
    <3>1. pushed' = Append(pushed, e)
      BY <2>2
    <3> QED BY <1>4, <2>2, <3>1, PushedMore DEF TailInv, TailTypeOK
  <2> QED BY <2>1, <2>2
<1>9. /\ PushedInOrder'
      /\ ~racy =>
            /\ \A i \in DOMAIN pushed' :
                  pushed'[i] # <<>> /\ pushed'[i][Len(pushed'[i])].no <= Frontier'
            /\ \A x \in Int : Frontier < x /\ x <= Frontier' => x \in PushedPieces'
            /\ PushedPieces \subseteq PushedPieces'
  <2>1. CASE racy
    BY <1>1, <2>1 DEF PushedInOrder
  <2>2. CASE ~racy /\ m = 0
    <3>1. pushed' = pushed /\ Frontier' = Frontier
      BY <1>2, <1>7, <2>2
    <3>2. PushedInOrder' /\ PushedPieces' = PushedPieces
      BY <1>1, <3>1, NothingPushed DEF TailInv
    <3>3. \A i \in DOMAIN pushed : pushed[i] # <<>> /\ pushed[i][Len(pushed[i])].no <= Frontier
      BY <2>2 DEF TailInv, Behind
    <3>4. \A x \in Int : ~(Frontier < x /\ x <= Frontier)
      BY <1>2
    <3> QED BY <3>1, <3>2, <3>3, <3>4
  <2>3. CASE ~racy /\ m # 0
    <3>1. pushed' = Append(pushed, e) /\ Frontier' = Frontier + Len(e)
      BY <1>4, <1>7, <2>3
    <3>2. /\ Len(e) <= Len(buf) /\ \A n \in 1..Len(e) : e[n] = buf[n]
          /\ \A n \in 1..(Len(e) - 1) : ~buf[n].end
      BY <1>4, <2>3
    <3> QED BY <1>1, <1>4, <2>3, <3>1, <3>2, PushedOn
  <2> QED BY <2>1, <2>2, <2>3
<1>10. TailTypeOK'
  <2>1. at' \in WatcherPlaces
    BY DEF WatcherPlaces
  <2> QED BY <1>1, <1>3, <1>8, <2>1 DEF TailInv, TailTypeOK
<1>11. InFile'
  BY <1>1, <1>6 DEF TailInv, InFile
<1>12. InBuffer'
  <2>1. Len(buf') <= pos
    <3>1. Len(buf) <= pos
      BY DEF TailInv, InBuffer
    <3> QED BY <1>2, <1>3, <3>1
  <2>2. at' # "getline" => buf' = <<>>
    BY <1>3, EmptySeq
  <2>3. ASSUME ~racy, NEW n \in DOMAIN buf' PROVE buf'[n] = file[pos - Len(buf') + n]
    <3>1. buf'[n] = buf[m + n] /\ m + n \in DOMAIN buf
      BY <1>3
    <3>2. buf[m + n] = file[pos - Len(buf) + (m + n)]
      BY <2>3, <3>1 DEF TailInv, InBuffer
    <3>3. pos - Len(buf) + (m + n) = pos - Len(buf') + n
      BY <1>2, <1>3
    <3> QED BY <3>1, <3>2, <3>3
  <2> QED BY <1>1, <2>1, <2>2, <2>3 DEF InBuffer
<1>13. Positions' /\ Seen'
  BY <1>1 DEF TailInv, Positions, Seen
<1>14. Behind'
  <2>1. ~racy => first <= Frontier
    BY DEF TailInv, Behind
  <2>2. ~racy => first <= Frontier'
    BY <1>2, <1>7, <2>1
  <2> QED BY <1>1, <1>9, <2>2 DEF Behind
<1>15. Covered'
  <2> SUFFICES ASSUME ~racy PROVE
        /\ \A n \in DOMAIN file : first < Gone + n /\ Gone + n <= Frontier'
              => Gone + n \in PushedPieces' \cup skipped
        /\ at' = "eof" => \A n \in DOMAIN file : n > pos => Gone + n \in skipped
    BY <1>1, <1>6 DEF Covered
  <2>1. ASSUME NEW n \in DOMAIN file, first < Gone + n, Gone + n <= Frontier'
        PROVE  Gone + n \in PushedPieces' \cup skipped
    <3>1. Gone + n \in Int
      BY <1>2
    <3>2. CASE Gone + n <= Frontier
      BY <1>9, <2>1, <3>2 DEF TailInv, Covered
    <3>3. CASE ~(Gone + n <= Frontier)
      <4>1. Frontier < Gone + n
        BY <1>2, <3>1, <3>3
      <4> QED BY <1>9, <2>1, <3>1, <4>1
    <3> QED BY <3>2, <3>3
  <2>2. at' = "eof" => \A n \in DOMAIN file : ~(n > pos)
    BY <1>2
  <2> QED BY <2>1, <2>2
<1> QED BY <1>9, <1>10, <1>11, <1>12, <1>13, <1>14, <1>15 DEF TailInv

LEMMA GetLineInv ==
    ASSUME TailInv, GetLine
    PROVE  TailInv'
<1>1. HasLine /\ buf \in Seq(Piece) /\ at = "getline" /\ Len(buf) \in Nat
  BY DEF GetLine, TailInv, TailTypeOK
<1> DEFINE m == LineEnd
           e == SubSeq(buf, 1, m)
           rest == SubSeq(buf, m + 1, Len(buf))
<1>2. m \in 1..Len(buf) /\ \A n \in 1..(m - 1) : ~buf[n].end
  BY <1>1, FirstLine
<1>3. /\ buf' = rest /\ pushed' = Append(pushed, e) /\ at' = "getline"
      /\ UNCHANGED <<fileVars, stop_flag, pos, last_size, watched, pending,
                     first, looked, cut, racy, skipped>>
  BY <1>1 DEF GetLine
<1> HIDE DEF m
<1>4. m \in Nat /\ m <= Len(buf) /\ m # 0 /\ Len(buf) <= Len(buf)
  BY <1>1, <1>2
<1>5. /\ rest \in Seq(Piece) /\ Len(rest) = Len(buf) - m
      /\ \A n \in 1..(Len(buf) - m) : rest[n] = buf[m + n]
  BY <1>1, <1>4, Between
<1>6. e \in Seq(Piece) /\ Len(e) = m /\ \A n \in 1..m : e[n] = buf[n]
  <2>1. 0 \in Nat /\ 0 <= m /\ 0 + 1 = 1 /\ m - 0 = m /\ \A n \in 1..m : 0 + n = n
    BY <1>4
  <2>2. /\ SubSeq(buf, 0 + 1, m) \in Seq(Piece) /\ Len(SubSeq(buf, 0 + 1, m)) = m - 0
        /\ \A n \in 1..(m - 0) : SubSeq(buf, 0 + 1, m)[n] = buf[0 + n]
    BY <1>1, <1>4, <2>1, Between
  <2> QED BY <2>1, <2>2
<1> HIDE DEF e, rest
<1> QED BY <1>1, <1>2, <1>3, <1>4, <1>5, <1>6, TakenInv

LEMMA MeetEndInv ==
    ASSUME TailInv, MeetEnd
    PROVE  TailInv'
<1>1. /\ at = "getline" /\ at' = "eof" /\ ~HasLine /\ Len(file) <= pos /\ buf' = <<>>
      /\ pushed' = IF buf = <<>> THEN pushed ELSE Append(pushed, buf)
      /\ UNCHANGED <<fileVars, stop_flag, pos, last_size, watched, pending,
                     first, looked, cut, racy, skipped>>
  BY DEF MeetEnd
<1>2. buf \in Seq(Piece) /\ Len(buf) \in Nat /\ DOMAIN buf = 1..Len(buf)
  BY DEF TailInv, TailTypeOK
<1>3. Len(buf) = 0 <=> buf = <<>>
  BY <1>2, EmptySeq
<1>4. \A n \in 1..(Len(buf) - 1) : ~buf[n].end
  <2> SUFFICES ASSUME NEW n \in 1..(Len(buf) - 1) PROVE ~buf[n].end
    OBVIOUS
  <2>1. n \in 1..Len(buf)
    BY <1>2
  <2> QED BY <1>1, <1>2, <2>1 DEF HasLine
<1>5. /\ buf' \in Seq(Piece) /\ Len(buf') = Len(buf) - Len(buf)
      /\ 1..(Len(buf) - Len(buf)) = {} /\ Len(buf) <= Len(buf)
  BY <1>1, <1>2, EmptySeq
<1>6. pushed' = IF Len(buf) = 0 THEN pushed ELSE Append(pushed, buf)
  BY <1>1, <1>3
<1> QED BY <1>1, <1>2, <1>4, <1>5, <1>6, TakenInv

\* The stream reads on: the buffer stays in front of the position.
LEMMA UnderflowInv ==
    ASSUME TailInv, Underflow
    PROVE  TailInv'
<1> USE DEF TailInv
<1> DEFINE more == SubSeq(file, pos + 1, Len(file))
<1>1. /\ at = "getline" /\ Len(file) > pos /\ buf' = buf \o more /\ pos' = Len(file)
      /\ UNCHANGED <<file, exists, written, cuts, stop_flag, at, last_size, watched, pending,
                     pushed, first, looked, cut, racy, skipped>>
  BY DEF Underflow, fileVars, tailHistories
<1>2. /\ file \in Seq(Piece) /\ buf \in Seq(Piece)
  BY DEF TailTypeOK
<1>3. /\ Len(file) \in Nat /\ Len(buf) \in Nat /\ pos \in Nat /\ written \in Nat
      /\ Gone \in Int
  BY Sizes
<1> HIDE DEF TailInv
<1>4. /\ more \in Seq(Piece) /\ Len(more) = Len(file) - pos
      /\ \A n \in 1..(Len(file) - pos) : more[n] = file[pos + n]
  <2>1. pos <= Len(file) /\ Len(file) <= Len(file)
    BY <1>1, <1>3
  <2> QED BY <1>2, <1>3, <2>1, Between
<1> HIDE DEF more
<1>5. /\ buf' \in Seq(Piece) /\ Len(buf') = Len(buf) + Len(file) - pos
      /\ \A n \in 1..(Len(buf) + (Len(file) - pos)) :
            buf'[n] = IF n <= Len(buf) THEN buf[n] ELSE more[n - Len(buf)]
  <2>1. /\ buf \o more \in Seq(Piece) /\ Len(buf \o more) = Len(buf) + Len(more)
        /\ \A n \in 1..(Len(buf) + Len(more)) :
              (buf \o more)[n] = IF n <= Len(buf) THEN buf[n] ELSE more[n - Len(buf)]
    BY <1>2, <1>4, ConcatProperties
  <2> QED BY <1>1, <1>4, <1>3, <2>1
<1>6. DOMAIN buf' = 1..(Len(buf) + (Len(file) - pos))
  BY <1>5, <1>3, LenProperties
<1>7. pos' - Len(buf') = pos - Len(buf)
  BY <1>1, <1>5, <1>3
<1>8. Gone' = Gone /\ (~racy => Frontier' = Frontier)
  <2>1. Gone' = Gone
    BY <1>1 DEF Gone
  <2>2. Frontier' = Frontier
    BY <1>1, <1>5, <1>3, <2>1 DEF Frontier
  <2> QED BY <2>1, <2>2
<1> USE DEF TailInv
<1>9. PushedInOrder' /\ PushedPieces' = PushedPieces
  BY <1>1, NothingPushed
<1>10. TailTypeOK'
  BY <1>1, <1>5, Sizes DEF TailTypeOK
<1>11. InFile'
  BY <1>1, <1>8 DEF InFile
<1>12. InBuffer'
  <2>1. Len(buf') <= pos'
    BY <1>1, <1>5, Sizes DEF InBuffer
  <2>2. ASSUME ~racy, NEW n \in DOMAIN buf' PROVE buf'[n] = file[pos - Len(buf) + n]
    <3>1. CASE n <= Len(buf)
      <4>1. n \in DOMAIN buf
        BY <1>6, <3>1, Sizes
      <4> QED BY <1>5, <1>6, <2>2, <3>1, <4>1 DEF InBuffer
    <3>2. CASE ~(n <= Len(buf))
      <4>1. n - Len(buf) \in 1..(Len(file) - pos) /\ pos + (n - Len(buf)) = pos - Len(buf) + n
        BY <1>6, <3>2, Sizes
      <4>2. more[n - Len(buf)] = file[pos + (n - Len(buf))]
        BY <1>4, <4>1
      <4> QED BY <1>5, <1>6, <3>2, <4>1, <4>2
    <3> QED BY <3>1, <3>2
  <2> QED BY <1>1, <1>7, <2>1, <2>2 DEF InBuffer
<1>13. Positions' /\ Seen'
  BY <1>1, Sizes DEF Positions, Seen
<1>14. Behind' /\ Covered'
  <2>1. Behind'
    BY <1>1, <1>8 DEF Behind
  <2>2. Covered'
    BY <1>1, <1>8, <1>9 DEF Covered
  <2> QED BY <2>1, <2>2
<1> QED BY <1>9, <1>10, <1>11, <1>12, <1>13, <1>14

\* The end that is sought takes in what was written since the end was met.
LEMMA SeekInv ==
    ASSUME TailInv, SeekEnd
    PROVE  TailInv'
<1> USE DEF TailInv
<1>1. /\ at = "eof" /\ at' = "wait" /\ pos' = Len(file) /\ looked' = TRUE
      /\ UNCHANGED <<file, exists, written, cuts, stop_flag, last_size, buf, watched, pending,
                     pushed, first, cut, racy, skipped>>
  BY DEF SeekEnd, fileVars
<1>2. buf = <<>> /\ Len(buf) = 0
  BY <1>1 DEF InBuffer
<1>3. Gone' = Gone /\ (~racy => ~cut /\ Frontier = Gone + pos /\ Frontier' = written)
  <2>1. Gone' = Gone
    BY <1>1 DEF Gone
  <2>2. ~racy => ~cut
    BY <1>1 DEF Positions
  <2>3. ~cut => Frontier = Gone + pos /\ Frontier' = Gone + Len(file)
    BY <1>1, <1>2, <2>1, Sizes DEF Frontier
  <2>4. Gone + Len(file) = written
    BY Sizes DEF Gone
  <2> QED BY <2>1, <2>2, <2>3, <2>4
<1>4. PushedInOrder' /\ PushedPieces' = PushedPieces
  BY <1>1, NothingPushed
<1>5. TailTypeOK'
  BY <1>1, Sizes DEF TailTypeOK, WatcherPlaces
<1>6. InFile'
  BY <1>1, <1>3 DEF InFile
<1>7. InBuffer'
  <2>1. Len(buf) <= Len(file) /\ DOMAIN buf = {}
    BY <1>2, Sizes
  <2> QED BY <1>1, <1>2, <2>1 DEF InBuffer
<1>8. Positions'
  <2>1. watched
    BY <1>1 DEF Positions
  <2> QED BY <1>1, <2>1, Sizes DEF Positions
<1>9. Seen'
  BY <1>1, <1>3 DEF Seen
<1>10. Behind'
  <2> SUFFICES ASSUME ~racy
               PROVE  /\ first <= written
                      /\ \A i \in DOMAIN pushed :
                            pushed[i] # <<>> /\ pushed[i][Len(pushed[i])].no <= written
    BY <1>1, <1>3 DEF Behind
  <2>1. Frontier <= written /\ first <= Frontier
    BY FrontierBound DEF Behind
  <2>2. ASSUME NEW i \in DOMAIN pushed
        PROVE  pushed[i] # <<>> /\ pushed[i][Len(pushed[i])].no <= written
    <3>1. pushed[i] # <<>> /\ pushed[i][Len(pushed[i])].no <= Frontier
      BY DEF Behind
    <3> QED BY <2>1, <3>1, LastNumber, Sizes
  <2> QED BY <2>1, <2>2, Sizes
<1>11. Covered'
  <2> SUFFICES ASSUME ~racy, NEW n \in DOMAIN file, first < Gone + n
               PROVE  Gone + n \in PushedPieces \cup skipped
    BY <1>1, <1>3, <1>4 DEF Covered
  <2>1. CASE n <= pos
    BY <1>3, <2>1, Sizes DEF Covered
  <2>2. CASE ~(n <= pos)
    BY <1>1, <2>2, Sizes DEF Covered
  <2> QED BY <2>1, <2>2
<1> QED BY <1>4, <1>5, <1>6, <1>7, <1>8, <1>9, <1>10, <1>11

LEMMA TailStart == TailInit => TailInv
<1> SUFFICES ASSUME TailInit PROVE TailInv
  OBVIOUS
<1> USE DEF TailInit
<1>1. Len(file) = 0 /\ DOMAIN file = {} /\ Len(buf) = 0 /\ DOMAIN buf = {} /\ DOMAIN pushed = {}
  OBVIOUS
<1>2. TailTypeOK
  <2>1. 0 \in 0..MaxPieces /\ 0 \in 0..MaxCuts
    BY TailAssumption
  <2>2. <<>> \in Seq(Piece) /\ <<>> \in Seq(Seq(Piece))
    BY EmptySeq
  <2>3. file = <<>> /\ buf = <<>> /\ pushed = <<>>
    OBVIOUS
  <2> QED BY <2>1, <2>2, <2>3 DEF TailTypeOK, WatcherPlaces
<1>3. InFile /\ InBuffer /\ Positions
  BY <1>1 DEF InFile, InBuffer, Positions
<1>4. Gone = 0 /\ Frontier = 0
  <2>1. written = 0 /\ pos = 0 /\ ~cut
    OBVIOUS
  <2>2. Len(file) = 0 /\ Len(buf) = 0
    BY <1>1
  <2> HIDE DEF TailInit
  <2> QED BY <2>1, <2>2 DEF Gone, Frontier
<1>5. Behind /\ Covered /\ Seen
  BY <1>1, <1>4 DEF Behind, Covered, Seen
<1>6. PushedInOrder
  BY <1>1 DEF PushedInOrder
<1> QED BY <1>2, <1>3, <1>5, <1>6 DEF TailInv

LEMMA TailStep == TailInv /\ [TailNext]_tailVars => TailInv'
<1> SUFFICES ASSUME TailInv, [TailNext]_tailVars PROVE TailInv'
  OBVIOUS
<1>1. exists \in BOOLEAN /\ stop_flag \in BOOLEAN
  BY DEF TailInv, TailTypeOK
<1>2. CASE \E end \in BOOLEAN : AppendPiece(end)
  BY <1>2, AppendInv
<1>3. CASE Truncate
  BY <1>3, TruncateInv
<1>4. CASE Remove \/ Make \/ Signal
  <2>1. exists' \in BOOLEAN /\ stop_flag' \in BOOLEAN /\ at' = at
    BY <1>1, <1>4 DEF Remove, Make, Signal, fileVars
  <2>2. UNCHANGED <<file, written, cuts, readVars, watched, pending, tailHistories>>
    BY <1>4 DEF Remove, Make, Signal, fileVars
  <2> QED BY <2>1, <2>2, IdleInv
<1>5. CASE Open
  BY <1>5, OpenInv
<1>6. CASE WaitForFile \/ OpenFails \/ NoFile \/ SeeStop
  <2>1. /\ exists' \in BOOLEAN /\ stop_flag' \in BOOLEAN
        /\ at # "getline" /\ at' \in {"ended", "terminated"}
    BY <1>1, <1>6 DEF WaitForFile, OpenFails, NoFile, SeeStop, fileVars
  <2>2. UNCHANGED <<file, written, cuts, readVars, watched, pending, tailHistories>>
    BY <1>6 DEF WaitForFile, OpenFails, NoFile, SeeStop, fileVars
  <2> QED BY <2>1, <2>2, IdleInv
<1>7. CASE FirstSize \/ AddWatch \/ Drain
  BY <1>7, WaitInv
<1>8. CASE CheckSize
  BY <1>8, CheckInv
<1>9. CASE GetLine
  BY <1>9, GetLineInv
<1>10. CASE Underflow
  BY <1>10, UnderflowInv
<1>11. CASE MeetEnd
  BY <1>11, MeetEndInv
<1>12. CASE SeekEnd
  BY <1>12, SeekInv
<1>13. CASE UNCHANGED tailVars
  <2>1. exists' = exists /\ stop_flag' = stop_flag /\ at' = at
    BY <1>13 DEF tailVars, fileVars
  <2>2. UNCHANGED <<file, written, cuts, readVars, watched, pending, tailHistories>>
    BY <1>13 DEF tailVars, fileVars
  <2> QED BY <1>1, <2>1, <2>2, IdleInv
<1> QED BY <1>2, <1>3, <1>4, <1>5, <1>6, <1>7, <1>8, <1>9, <1>10, <1>11, <1>12, <1>13
         DEF TailNext, Done

\* The watcher's position and buffer fit to the file, and what they have passed was pushed
\* or skipped, as long as no truncation was racy.
THEOREM TailCorrect == TailSpec => []TailInv
<1> QED BY TailStart, TailStep, PTL DEF TailSpec

\* Entries are lines or parts of lines, in the order of the file, none of them twice.
THEOREM InOrderCorrect == TailSpec => []PushedInOrder
<1>1. TailInv => PushedInOrder
  BY DEF TailInv
<1> QED BY <1>1, TailCorrect, PTL

\* Once no event waits, what the watcher is there for has been pushed, but for what was
\* written between the end that a read met and the end that it sought.
THEOREM NothingLost == TailSpec => []NothingElseLost
<1>1. TailInv => NothingElseLost
  <2> SUFFICES ASSUME TailInv, ~racy, at = "wait", looked, ~pending, NEW x \in NewPieces
               PROVE  x \in PushedPieces \cup skipped
    BY DEF NothingElseLost
  <2>1. TailTypeOK /\ InFile /\ buf = <<>> /\ ~cut /\ pos = Len(file)
    BY DEF TailInv, InBuffer, Seen
  <2>2. PICK n \in DOMAIN file : x = file[n].no /\ x \notin 1..first
    BY DEF NewPieces
  <2>3. x = Gone + n
    BY <2>1, <2>2 DEF InFile
  <2>4. Gone >= 0
    BY <2>1, Sizes DEF InFile, Gone
  <2>5. first < Gone + n
    BY <2>1, <2>2, <2>3, <2>4, Sizes
  <2>6. Gone + n <= Frontier
    <3>1. Frontier = Gone + Len(file)
      BY <2>1, Sizes DEF Frontier
    <3> QED BY <2>1, <3>1, Sizes
  <2> QED BY <2>3, <2>5, <2>6 DEF TailInv, Covered
<1> QED BY <1>1, TailCorrect, PTL

=============================================================================

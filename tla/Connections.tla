----------------------------- MODULE Connections -----------------------------
(***************************************************************************)
(* The connections of src/NetworkIngester.hpp: two threads accept, one for *)
(* lines over TCP and one for HTTP, the handlers run on a pool, a table    *)
(* names the open TCP connections by their descriptor, and stop waits for  *)
(* all of them.  The pool is what TaskPool promises; ThreadPool implements *)
(* it.  What is done with a line is in Pipeline.                           *)
(*                                                                         *)
(* Clients connect, send and hang up when they like.  A handler waits for  *)
(* them without a timeout, so that FairSpec assumes that each hangs up in  *)
(* the end.  The answer to an HTTP request is one step.                    *)
(***************************************************************************)
EXTENDS Integers, Sequences

CONSTANTS
    TcpClients,     \* connections to tcp_port
    HttpClients,    \* connections to http_port
    PoolSize,       \* min(max_connections, 8)
    MaxFd,          \* the number of descriptors that the process may open for clients
    None

Clients == TcpClients \cup HttpClients
Fds == 1..MaxFd
Kinds == {"tcp", "http"}

ASSUME ConnectionsAssumption ==
    /\ TcpClients \cap HttpClients = {} /\ None \notin Clients
    /\ PoolSize \in Nat \ {0} /\ MaxFd \in Nat

VARIABLES
    backlog,    \* connections that the kernel holds until they are accepted
    fresh,      \* clients that have not connected yet
    open,       \* what each descriptor of the process is open for, or None
    fdOf,       \* client_fd of each connection, 0 before it is accepted
    table,      \* connections_: the connection under "tcp:<descriptor>", or None
    acceptor,   \* where the two accepting threads are
    handler,    \* where the task of each connection is
    queue, running, closed,     \* the pool
    stop,       \* stop_flag_
    mpc,        \* where main is in NetworkIngester::stop
    dropped,    \* history: the connections whose task the pool refused
    gaveUp      \* history: the connections whose handler left from the retry loop

clientVars == <<backlog, fresh>>
fdVars == <<open, fdOf, table>>
poolVars == <<queue, running, closed>>
mainVars == <<stop, mpc>>
histories == <<dropped, gaveUp>>
vars == <<clientVars, fdVars, acceptor, handler, poolVars, mainVars, histories>>

Pool == INSTANCE TaskPool WITH Tasks <- Clients, Size <- PoolSize

Of(kind) == IF kind = "tcp" THEN TcpClients ELSE HttpClients

Loop == [at |-> "loop"]
Ended == [at |-> "ended"]

Init ==
    /\ backlog = {} /\ fresh = Clients
    /\ open = [f \in Fds |-> None]
    /\ fdOf = [c \in Clients |-> 0]
    /\ table = [f \in Fds |-> None]
    /\ acceptor = [k \in Kinds |-> Loop]
    /\ handler = [c \in Clients |-> "loop"]
    /\ Pool!TInit
    /\ stop = FALSE /\ mpc = "run"
    /\ dropped = {} /\ gaveUp = {}

-----------------------------------------------------------------------------
(* Clients *)

Connect(c) ==
    /\ c \in fresh
    /\ \E k \in Kinds : c \in Of(k) /\ acceptor[k] # Ended
    /\ fresh' = fresh \ {c}
    /\ backlog' = backlog \cup {c}
    /\ UNCHANGED <<fdVars, acceptor, handler, poolVars, mainVars, histories>>

-----------------------------------------------------------------------------
(* run_tcp_server and run_http_server *)

Goto(k, place) == acceptor' = [acceptor EXCEPT ![k] = place]
Tracking(k) == acceptor[k].at = "track"
Handing(k) == acceptor[k].at = "hand"

\* accept takes the lowest free descriptor.
Accept(k, c) ==
    /\ acceptor[k] = Loop /\ ~stop
    /\ c \in backlog \cap Of(k)
    /\ \E f \in Fds :
          /\ open[f] = None /\ \A g \in 1..(f - 1) : open[g] # None
          /\ open' = [open EXCEPT ![f] = c]
          /\ fdOf' = [fdOf EXCEPT ![c] = f]
    /\ backlog' = backlog \ {c}
    /\ Goto(k, [at |-> IF k = "tcp" THEN "track" ELSE "hand", conn |-> c])
    /\ UNCHANGED <<fresh, table, handler, poolVars, mainVars, histories>>

\* accept fails, because no descriptor is left or the client is gone already: the
\* exception ends the thread, and with it its listening socket.
AcceptFails(k) ==
    /\ acceptor[k] = Loop /\ ~stop
    /\ backlog \cap Of(k) # {}
    /\ Goto(k, Ended)
    /\ backlog' = backlog \ Of(k)
    /\ UNCHANGED <<fresh, fdVars, handler, poolVars, mainVars, histories>>

\* Mutant: accept waits without a limit, and the flag is looked at when a connection comes.
AcceptorEndsLate(k) ==
    /\ acceptor[k] = Loop /\ stop
    /\ IF backlog \cap Of(k) = {}
       THEN UNCHANGED vars
       ELSE /\ Goto(k, Ended)
            /\ backlog' = backlog \ Of(k)
            /\ UNCHANGED <<fresh, fdVars, handler, poolVars, mainVars, histories>>

\* The flag is looked at every 50 ms.
AcceptorEnds(k) ==
    /\ acceptor[k] = Loop /\ stop
    /\ Goto(k, Ended)
    /\ backlog' = backlog \ Of(k)
    /\ UNCHANGED <<fresh, fdVars, handler, poolVars, mainVars, histories>>

\* A TCP connection is entered in the table, in the place of what was there.
Track ==
    /\ Tracking("tcp")
    /\ LET c == acceptor["tcp"].conn
       IN  /\ table' = [table EXCEPT ![fdOf[c]] = c]
           /\ Goto("tcp", [at |-> "hand", conn |-> c])
    /\ UNCHANGED <<clientVars, open, fdOf, handler, poolVars, mainVars, histories>>

\* The task goes to the pool, which drops it when it is closed; the descriptor was
\* released before, so that nobody closes it then.
HandOver(k) ==
    /\ Handing(k)
    /\ LET c == acceptor[k].conn
       IN  \/ Pool!Accept(c) /\ UNCHANGED dropped
           \/ Pool!Refused /\ dropped' = dropped \cup {c}
    /\ Goto(k, Loop)
    /\ UNCHANGED <<clientVars, fdVars, handler, mainVars, gaveUp>>

-----------------------------------------------------------------------------
(* handle_tcp_client and handle_http_client, on the threads of the pool *)

StartTask ==
    /\ Pool!Start
    /\ UNCHANGED <<clientVars, fdVars, acceptor, handler, mainVars, histories>>

Step(c, from, to) ==
    /\ c \in running /\ handler[c] = from
    /\ handler' = [handler EXCEPT ![c] = to]

HandlerOnly == UNCHANGED <<clientVars, fdVars, acceptor, poolVars, mainVars>>

\* The loop looks at the flag, and then waits for a line.
SeeFlag(c) ==
    /\ c \in TcpClients
    /\ Step(c, "loop", IF stop THEN "erase" ELSE "recv")
    /\ HandlerOnly /\ UNCHANGED histories

\* A line comes.
Receive(c) ==
    /\ c \in TcpClients
    /\ Step(c, "recv", "push")
    /\ HandlerOnly /\ UNCHANGED histories

\* Mutant: the descriptor is closed before the entry is erased.
LineEndsCloses(c) ==
    /\ c \in TcpClients
    /\ Step(c, "recv", "erase")
    /\ open' = [open EXCEPT ![fdOf[c]] = None]
    /\ UNCHANGED <<clientVars, fdOf, table, acceptor, poolVars, mainVars, histories>>

\* Mutant: the handler waits for another line.
LineEndsNot(c) ==
    /\ c \in TcpClients
    /\ Step(c, "recv", "loop")
    /\ HandlerOnly /\ UNCHANGED histories

\* recv_line returns nothing: the client has hung up, or has sent an empty line.
LineEnds(c) ==
    /\ c \in TcpClients
    /\ Step(c, "recv", "erase")
    /\ HandlerOnly /\ UNCHANGED histories

\* try_push succeeds in the end, or the stop comes first: then the handler returns from
\* inside the loop and the entry stays.
Push(c) ==
    /\ HandlerOnly
    /\ \/ Step(c, "push", "loop") /\ UNCHANGED histories
       \/ stop /\ Step(c, "push", "close") /\ gaveUp' = gaveUp \cup {c} /\ UNCHANGED dropped

Erase(c) ==
    /\ Step(c, "erase", "close")
    /\ table' = [table EXCEPT ![fdOf[c]] = None]
    /\ UNCHANGED <<clientVars, open, fdOf, acceptor, poolVars, mainVars, histories>>

\* The request is read and answered, or the client hangs up in the middle of it.
Answer(c) ==
    /\ c \in HttpClients
    /\ Step(c, "loop", "close")
    /\ HandlerOnly /\ UNCHANGED histories

\* The destructor of the TcpSocket that the handler was given; the task has ended.
CloseFd(c) ==
    /\ Step(c, "close", "done")
    /\ open' = [open EXCEPT ![fdOf[c]] = None]
    /\ Pool!Complete(c)
    /\ UNCHANGED <<clientVars, fdOf, table, acceptor, mainVars, histories>>

-----------------------------------------------------------------------------
(* main: the stop flag, and NetworkIngester::stop *)

MainGoes(from, to) == mpc = from /\ mpc' = to
ConnectionsStay == UNCHANGED <<clientVars, fdVars, acceptor, handler, histories>>

SetFlag == MainGoes("run", "stopping") /\ stop' = TRUE /\ UNCHANGED poolVars /\ ConnectionsStay

ClosePool == MainGoes("stopping", "drain") /\ Pool!Close /\ UNCHANGED stop /\ ConnectionsStay

\* Mutant: main does not wait for the handlers.
JoinPoolNot == MainGoes("drain", "join") /\ UNCHANGED <<stop, poolVars>> /\ ConnectionsStay

JoinPool ==
    /\ MainGoes("drain", "join")
    /\ Pool!Drained
    /\ UNCHANGED <<stop, poolVars>> /\ ConnectionsStay

JoinAcceptors ==
    /\ MainGoes("join", "stopped")
    /\ \A k \in Kinds : acceptor[k] = Ended
    /\ UNCHANGED <<stop, poolVars>> /\ ConnectionsStay

\* The ingester has stopped, and clients do what they like.
Stopped == mpc = "stopped" /\ UNCHANGED vars

-----------------------------------------------------------------------------
HandlerStep(c) ==
    SeeFlag(c) \/ Receive(c) \/ LineEnds(c) \/ Push(c) \/ Erase(c) \/ Answer(c) \/ CloseFd(c)

AcceptorStep(k) ==
    (\E c \in Clients : Accept(k, c)) \/ AcceptFails(k) \/ AcceptorEnds(k)
    \/ (k = "tcp" /\ Track) \/ HandOver(k)

MainStep == ClosePool \/ JoinPool \/ JoinAcceptors

Next ==
    \/ \E c \in Clients : Connect(c) \/ HandlerStep(c)
    \/ \E k \in Kinds : AcceptorStep(k)
    \/ StartTask
    \/ SetFlag \/ MainStep \/ Stopped

Spec == Init /\ [][Next]_vars

\* Every thread goes on, and in the end every client hangs up, which a handler in recv
\* sees.
FairSpec ==
    /\ Spec
    /\ \A k \in Kinds : WF_vars(AcceptorStep(k))
    /\ WF_vars(StartTask) /\ WF_vars(MainStep)
    /\ \A c \in Clients :
          /\ WF_vars(SeeFlag(c) \/ Push(c) \/ Erase(c) \/ Answer(c) \/ CloseFd(c))
          /\ SF_vars(LineEnds(c))

-----------------------------------------------------------------------------
(* Properties *)

\* A TCP connection that is served is in the table under its own descriptor, with its
\* own counters, until its handler erases it: descriptors are used again, but the end
\* of an older connection never removes or hides a newer one.
ServedIsListed ==
    \A c \in running \cap TcpClients :
        /\ handler[c] # "done" => open[fdOf[c]] = c
        /\ handler[c] \in {"loop", "recv", "push", "erase"} => table[fdOf[c]] = c

\* When the ingester has stopped, no descriptor is open and nothing is in the table but
\* what was accepted so late that the pool refused it, and the entries of handlers that
\* left in the middle of a retry.
OnlyLateOnesLeft ==
    mpc = "stopped" => \A f \in Fds :
        open[f] \in dropped \cup {None} /\ table[f] \in dropped \cup gaveUp \cup {None}

\* A connection that was handed to the pool is served to its end, however many others
\* are in front of it, provided that those hang up.
AcceptedIsServed ==
    \A c \in Clients :
        c \in {queue[n] : n \in DOMAIN queue} ~> handler[c] = "done"

\* After the stop flag the ingester stops: no thread waits for ever for another.
StopReturns == stop ~> mpc = "stopped"
=============================================================================

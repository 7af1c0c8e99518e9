------------------------------ MODULE Pipeline ------------------------------
(***************************************************************************)
(* The ingestion pipeline from end to end: the sources that push entries   *)
(* into the ring buffer (src/FileWatcher.hpp, src/NetworkIngester.hpp,     *)
(* src/HttpServer.hpp), the consumer of src/LogPipeline.hpp, the thread    *)
(* pool that matches the entries and stores them, and the shutdown         *)
(* sequence of src/main.cpp.                                               *)
(*                                                                         *)
(* The ring buffer and the thread pool appear here as what they promise,   *)
(* ReservationQueue and TaskPool; RingBuffer and ThreadPool implement      *)
(* them.  An entry is named by its position in the ring's log from the     *)
(* moment a source has reserved that position.                             *)
(***************************************************************************)
EXTENDS Integers, Sequences, FiniteSets, Functions

CONSTANTS
    Watchers,   \* file watcher threads
    Clients,    \* handlers of TCP connections
    Batches,    \* handlers of POST /ingest of the network ingester
    Posters,    \* handlers of POST /ingest of the HTTP server
    Slots,      \* the capacity of the ring buffer
    PoolSize,   \* the number of workers
    MaxLines    \* bound: how many lines are read in all

Sources == Watchers \cup Clients \cup Batches \cup Posters
Positions == 1..MaxLines

ASSUME SizesAssumption ==
    /\ Slots \in Nat \ {0}
    /\ PoolSize \in Nat \ {0}
    /\ MaxLines \in Nat

VARIABLES
    stop,       \* g_stop
    spc,        \* where each source is
    entry,      \* the entry each source has in hand: "none", "line" or "blank"
    place,      \* the position each source has reserved for it, 0 if none
    lines,      \* how many lines the sources have read
    log, ready, out,            \* the ring buffer
    cpc,        \* where the consumer is
    queue, running, closed,     \* the thread pool
    matched,    \* history: how often each entry went through the matcher
    stored,     \* how often each entry is in the time-series database
    disk,       \* the database as TSDB::stop has written it to disk
    mpc         \* where main is

sourceVars == <<spc, entry, place, lines>>
ringVars == <<log, ready, out>>
poolVars == <<queue, running, closed>>
vars == <<stop, sourceVars, ringVars, cpc, poolVars, matched, stored, disk, mpc>>

\* A log entry has its text, or its text has been moved away.
Entry == {"line", "blank"}

Ring == INSTANCE ReservationQueue WITH Items <- Entry, Bound <- Slots
Pool == INSTANCE TaskPool WITH Tasks <- Positions, Size <- PoolSize

\* Batches and posters are born with a request in hand.
Init ==
    /\ stop = FALSE
    /\ spc = [s \in Sources |-> IF s \in Watchers \cup Clients THEN "loop" ELSE "read"]
    /\ entry = [s \in Sources |-> "none"]
    /\ place = [s \in Sources |-> 0]
    /\ lines = 0
    /\ Ring!QInit
    /\ cpc = "loop"
    /\ Pool!TInit
    /\ matched = [n \in Positions |-> 0]
    /\ stored = [n \in Positions |-> 0]
    /\ disk = [n \in Positions |-> 0]
    /\ mpc = "run"

-----------------------------------------------------------------------------
(* The sources *)

Goto(s, l) == spc' = [spc EXCEPT ![s] = l]
Hold(s, e) == entry' = [entry EXCEPT ![s] = e]

SourceOnly ==
    UNCHANGED <<stop, ringVars, cpc, poolVars, matched, stored, disk, mpc>>

\* The loop of a watcher and of a TCP handler looks at the stop flag.
SourceStops(s) ==
    /\ spc[s] = "loop" /\ stop
    /\ Goto(s, "exit")
    /\ UNCHANGED <<entry, place, lines>> /\ SourceOnly

SourceGoesOn(s) ==
    /\ spc[s] = "loop" /\ ~stop
    /\ Goto(s, "read")
    /\ UNCHANGED <<entry, place, lines>> /\ SourceOnly

\* There is another line: in the file, on the connection, in the request.  A
\* poster serves one request after the other while the server runs.
ReadLine(s) ==
    /\ spc[s] = "read"
    /\ lines < MaxLines
    /\ lines' = lines + 1
    /\ Hold(s, "line")
    /\ Goto(s, "push")
    /\ UNCHANGED place /\ SourceOnly

\* There is none: the watcher has read the file to its end and waits for the next
\* change, a request is served, and a client has closed its connection.  The
\* server's threads end when main has stopped it.
ReadEnds(s) ==
    /\ spc[s] = "read"
    /\ s \in Posters => mpc = "http"
    /\ Goto(s, IF s \in Watchers THEN "loop" ELSE "exit")
    /\ UNCHANGED <<entry, place, lines>> /\ SourceOnly

\* try_push reserves a slot.
PushReserves(s) ==
    /\ spc[s] = "push"
    /\ Ring!Reserve(entry[s])
    /\ place' = [place EXCEPT ![s] = Len(log) + 1]
    /\ Hold(s, "none")
    /\ Goto(s, "commit")
    /\ UNCHANGED <<stop, lines, cpc, poolVars, matched, stored, disk, mpc>>

\* Mutant: the retry loop does not look at the stop flag.
PushFullForever(s) ==
    /\ spc[s] = "push"
    /\ ~Ring!HasRoom
    /\ Hold(s, IF s \in Posters THEN "line" ELSE "blank")
    /\ Goto(s, "push")
    /\ UNCHANGED <<place, lines>> /\ SourceOnly

\* The buffer is full: try_push returns false, but its parameter, into which the
\* caller moved the entry, is gone.  Sources with more than one line to push retry; a
\* poster, and a batch whose request is a single line, ignore the result.
PushFull(s) ==
    /\ spc[s] = "push"
    /\ ~Ring!HasRoom
    /\ \/ s \in Posters \cup Batches /\ Hold(s, "none") /\ Goto(s, "read")
       \/ s \notin Posters /\ Hold(s, "blank") /\ Goto(s, "full")
    /\ UNCHANGED <<place, lines>> /\ SourceOnly

\* The retry loop gives up after a stop: a watcher leaves its file, a TCP handler
\* its connection, a batch goes on with its next line.
GiveUp(s) ==
    /\ spc[s] = "full" /\ stop
    /\ Hold(s, "none")
    /\ Goto(s, IF s \in Watchers THEN "loop" ELSE IF s \in Clients THEN "exit" ELSE "read")
    /\ UNCHANGED <<place, lines>> /\ SourceOnly

Retry(s) ==
    /\ spc[s] = "full" /\ ~stop
    /\ Goto(s, "push")
    /\ UNCHANGED <<entry, place, lines>> /\ SourceOnly

\* try_push publishes the slot and returns true.
PushCommits(s) ==
    /\ spc[s] = "commit"
    /\ Ring!Commit(place[s])
    /\ place' = [place EXCEPT ![s] = 0]
    /\ Goto(s, IF s \in Clients THEN "loop" ELSE "read")
    /\ UNCHANGED <<stop, entry, lines, cpc, poolVars, matched, stored, disk, mpc>>

SourceStep(s) ==
    \/ SourceStops(s) \/ SourceGoesOn(s)
    \/ PushReserves(s) \/ PushFull(s) \/ GiveUp(s) \/ Retry(s) \/ PushCommits(s)

-----------------------------------------------------------------------------
(* The consumer: LogPipeline::run and drain.  total_lines is Len(out). *)

ConsumerLoop ==
    /\ cpc = "loop"
    /\ cpc' = IF stop THEN "drain" ELSE "pop"
    /\ UNCHANGED <<stop, sourceVars, ringVars, poolVars, matched, stored, disk, mpc>>

Pop ==
    /\ cpc \in {"pop", "drain"}
    /\ Ring!Take
    /\ cpc' = IF cpc = "pop" THEN "dispatch" ELSE "handle"
    /\ UNCHANGED <<stop, sourceVars, poolVars, matched, stored, disk, mpc>>

\* Mutant: the consumer takes an empty buffer for the end of the input.
PopNothingEnds ==
    /\ cpc \in {"pop", "drain"}
    /\ ~Ring!CanTake
    /\ cpc' = "done"
    /\ UNCHANGED <<stop, sourceVars, ringVars, poolVars, matched, stored, disk, mpc>>

\* The buffer is empty, or its oldest entry is not committed.
PopNothing ==
    /\ cpc \in {"pop", "drain"}
    /\ ~Ring!CanTake
    /\ cpc' = IF cpc = "pop" THEN "loop" ELSE "done"
    /\ UNCHANGED <<stop, sourceVars, ringVars, poolVars, matched, stored, disk, mpc>>

\* enqueue hands the entry to the pool, or drops it when the pool is closed.
Dispatch ==
    /\ cpc = "dispatch"
    /\ Pool!Accept(Len(out)) \/ Pool!Refused
    /\ cpc' = "loop"
    /\ UNCHANGED <<stop, sourceVars, ringVars, matched, stored, disk, mpc>>

\* drain matches the entry itself and does not call the entry callback.
HandleDrained ==
    /\ cpc = "handle"
    /\ matched' = [matched EXCEPT ![Len(out)] = @ + 1]
    /\ cpc' = "drain"
    /\ UNCHANGED <<stop, sourceVars, ringVars, poolVars, stored, disk, mpc>>

ConsumerStep == ConsumerLoop \/ Pop \/ PopNothing \/ Dispatch \/ HandleDrained

-----------------------------------------------------------------------------
(* The workers: process_entry, and the callback that main has set *)

StartTask ==
    /\ Pool!Start
    /\ UNCHANGED <<stop, sourceVars, ringVars, cpc, matched, stored, disk, mpc>>

Match(n) ==
    /\ n \in running /\ matched[n] = 0
    /\ matched' = [matched EXCEPT ![n] = @ + 1]
    /\ UNCHANGED <<stop, sourceVars, ringVars, cpc, poolVars, stored, disk, mpc>>

\* Mutant: the callback is called only for some entries.
StoreSome(n) ==
    /\ matched[n] = 1
    /\ \/ stored' = [stored EXCEPT ![n] = @ + 1]
       \/ stored' = stored
    /\ Pool!Complete(n)
    /\ UNCHANGED <<stop, sourceVars, ringVars, cpc, matched, disk, mpc>>

\* The callback inserts the entry, with which the task ends.
Store(n) ==
    /\ matched[n] = 1
    /\ stored' = [stored EXCEPT ![n] = @ + 1]
    /\ Pool!Complete(n)
    /\ UNCHANGED <<stop, sourceVars, ringVars, cpc, matched, disk, mpc>>

WorkerStep(n) == Match(n) \/ Store(n)

-----------------------------------------------------------------------------
(* main *)

MainOnly == UNCHANGED <<sourceVars, ringVars, cpc, matched, stored>>

\* SIGINT or SIGTERM.
Signal ==
    /\ ~stop
    /\ stop' = TRUE
    /\ UNCHANGED <<poolVars, disk, mpc>> /\ MainOnly

MainGoes(from, to) ==
    /\ mpc = from
    /\ mpc' = to
    /\ UNCHANGED stop /\ MainOnly

\* The main loop ends and main sets the flag once more.
BeginShutdown ==
    /\ stop
    /\ MainGoes("run", "network")
    /\ UNCHANGED <<poolVars, disk>>

\* NetworkIngester::stop joins the handlers of the connections.
StopNetwork ==
    /\ \A s \in Clients \cup Batches : spc[s] = "exit"
    /\ MainGoes("network", "http")
    /\ UNCHANGED <<poolVars, disk>>

\* HttpServer::stop joins the server's threads.
StopHttp ==
    /\ \A s \in Posters : spc[s] = "exit"
    /\ MainGoes("http", "pipeline")
    /\ UNCHANGED <<poolVars, disk>>

\* Mutant: main does not wait for the consumer before it closes the pool.
JoinPipelineNot ==
    /\ MainGoes("pipeline", "watchers")
    /\ UNCHANGED <<poolVars, disk>>

JoinPipeline ==
    /\ cpc = "done"
    /\ MainGoes("pipeline", "watchers")
    /\ UNCHANGED <<poolVars, disk>>

JoinWatchers ==
    /\ \A s \in Watchers : spc[s] = "exit"
    /\ MainGoes("watchers", "pool")
    /\ UNCHANGED <<poolVars, disk>>

ClosePool ==
    /\ MainGoes("pool", "workers")
    /\ Pool!Close
    /\ UNCHANGED disk

\* Mutant: ThreadPool::shutdown does not join the workers.
JoinWorkersNot ==
    /\ MainGoes("workers", "tsdb")
    /\ UNCHANGED <<poolVars, disk>>

JoinWorkers ==
    /\ Pool!Drained
    /\ MainGoes("workers", "tsdb")
    /\ UNCHANGED <<poolVars, disk>>

\* TSDB::stop writes the database once more.
StopTsdb ==
    /\ MainGoes("tsdb", "exited")
    /\ disk' = stored
    /\ UNCHANGED poolVars

MainStep ==
    \/ BeginShutdown \/ StopNetwork \/ StopHttp \/ JoinPipeline \/ JoinWatchers
    \/ ClosePool \/ JoinWorkers \/ StopTsdb

Exited == mpc = "exited" /\ UNCHANGED vars

-----------------------------------------------------------------------------
Next ==
    \/ \E s \in Sources : ReadLine(s) \/ ReadEnds(s) \/ SourceStep(s)
    \/ ConsumerStep
    \/ StartTask
    \/ \E n \in Positions : WorkerStep(n)
    \/ Signal
    \/ MainStep
    \/ Exited

Spec == Init /\ [][Next]_vars

\* Every thread is scheduled.  The end of a file and of a request come without
\* anybody's help; the end of a connection is up to the client.
Fairness ==
    /\ \A s \in Sources : WF_vars(SourceStep(s))
    /\ \A s \in Sources \ Clients : WF_vars(ReadLine(s) \/ ReadEnds(s))
    /\ WF_vars(ConsumerStep)
    /\ WF_vars(StartTask)
    /\ \A n \in Positions : WF_vars(WorkerStep(n))
    /\ WF_vars(MainStep)

\* And every client closes its connection some day or sends a line.
FairSpec == Spec /\ Fairness /\ \A s \in Clients : WF_vars(ReadLine(s) \/ ReadEnds(s))

-----------------------------------------------------------------------------
(* Properties *)

TypeOK ==
    /\ stop \in BOOLEAN
    /\ spc \in [Sources -> {"loop", "read", "push", "full", "commit", "exit"}]
    /\ entry \in [Sources -> Entry \cup {"none"}]
    /\ place \in [Sources -> 0..MaxLines]
    /\ lines \in 0..MaxLines
    /\ log \in Seq(Entry) /\ Len(log) <= lines
    /\ ready \subseteq 1..Len(log)
    /\ out \in Seq(Entry) /\ Len(out) <= Len(log)
    /\ cpc \in {"loop", "pop", "dispatch", "drain", "handle", "done"}
    /\ queue \in Seq(Positions)
    /\ running \subseteq Positions /\ Cardinality(running) <= PoolSize
    /\ closed \in BOOLEAN
    /\ matched \in [Positions -> {0, 1}]
    /\ stored \in [Positions -> {0, 1}]
    /\ disk \in [Positions -> {0, 1}]
    /\ mpc \in {"run", "network", "http", "pipeline", "watchers", "pool", "workers",
                "tsdb", "exited"}

Popped == 1..Len(out)
InHand == IF cpc \in {"dispatch", "handle"} THEN {Len(out)} ELSE {}
Queued == Range(queue)
Matched == {n \in Positions : matched[n] = 1}
InDatabase == {n \in Positions : stored[n] = 1}

\* Every entry the consumer has popped is in its hand, in the pool's queue, with
\* a worker, or has been matched, and no entry is waiting that was matched before.
Placed ==
    /\ Popped = InHand \cup Queued \cup running \cup Matched
    /\ Queued \cap (running \cup Matched) = {}
    /\ InHand \cap (Queued \cup running \cup Matched) = {}

\* It is matched once, and in one place only.  enqueue, which drops the task when the
\* pool is closed, never drops one.
EachEntryOnce == Placed /\ Cardinality(Queued) = Len(queue)

\* Workers may store entries in another order than they were read, but when an
\* entry is stored fewer than PoolSize entries before it are not.
StoredAlmostInOrder ==
    \A n \in Positions : stored[n] = 1 =>
        Cardinality({m \in 1..(n - 1) : stored[m] = 0}) < PoolSize

\* When main returns, every entry that was popped has been matched, the entries
\* the pool got are stored, all up to the first one that drain handled, and what
\* is stored is on disk.
CleanExit ==
    mpc = "exited" =>
        /\ \A n \in Popped : matched[n] = 1
        /\ queue = <<>> /\ running = {}
        /\ \A n \in Positions : stored[n] = 1 => \A m \in 1..n : stored[m] = 1
        /\ disk = stored

\* Sources that have a line in hand without a position for it in the ring.
Holding == {s \in Sources : spc[s] \in {"push", "full"}}

\* A line is in a source's hand or in the log.
LinesCounted ==
    /\ \A s \in Holding : entry[s] # "none"
    /\ IsFiniteSet(Holding) /\ Len(log) + Cardinality(Holding) <= lines

\* The entries that went to the pool, and not through drain.
Dispatched == Queued \cup running \cup InDatabase

\* They are an initial part of what was popped, all of it before the stop; the pool
\* starts them in their order, and stores only what was matched.
InOrder ==
    /\ \A i, j \in 1..Len(queue) : i < j => queue[i] < queue[j]
    /\ \A q \in Queued, n \in running \cup InDatabase : n < q
    /\ \A n \in Dispatched : 1..n \subseteq Dispatched
    /\ cpc \in {"loop", "pop", "dispatch"} => Popped \ InHand \subseteq Dispatched
    /\ InDatabase \subseteq Matched \ running

\* What main has waited for.
Joined ==
    /\ closed <=> mpc \in {"workers", "tsdb", "exited"}
    /\ mpc \in {"watchers", "pool", "workers", "tsdb", "exited"} => cpc = "done"
    /\ mpc \in {"tsdb", "exited"} => queue = <<>> /\ running = {}
    /\ mpc = "exited" => disk = stored

\* The inductive invariant behind these properties.
IInv == TypeOK /\ LinesCounted /\ Placed /\ InOrder /\ Joined

\* While nobody stops the program, every line that was pushed is matched.
PushedIsMatched ==
    \A n \in Positions : n \in ready ~> matched[n] = 1 \/ stop

\* Once stopped, the program ends.
ShutdownEnds == stop ~> mpc = "exited"

\* "Try to push; if buffer is full, spin briefly then retry" (FileWatcher.hpp:199):
\* the entry that is pushed in the end is the line that was read.
RetryKeepsEntry == \A i \in 1..Len(log) : log[i] # "blank"
=============================================================================

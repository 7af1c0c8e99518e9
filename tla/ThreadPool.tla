----------------------------- MODULE ThreadPool -----------------------------
(***************************************************************************)
(* The fixed-size thread pool of src/ThreadPool.hpp: a task queue under a  *)
(* mutex, a condition variable, workers that run the tasks, and shutdown.  *)
(*                                                                         *)
(* Each critical section is one action, and each notification, which the   *)
(* code sends after it has released the mutex, is another.  A worker in    *)
(* condition_.wait may wake up for no reason.  The n-th task the pool      *)
(* accepts is the number n.                                                *)
(***************************************************************************)
EXTENDS Integers, Sequences, FiniteSets

CONSTANTS
    Workers,    \* the pool's threads
    Clients,    \* the threads that call enqueue or submit
    Closers,    \* the threads that call shutdown, the destructor included
    MaxCalls    \* bound: how often each client calls

\* The constructor starts at least one thread.
ASSUME ThreadsAssumption ==
    /\ IsFiniteSet(Workers) /\ Workers # {}
    /\ IsFiniteSet(Clients)
    /\ MaxCalls \in Nat

VARIABLES
    tasks,      \* tasks_: the accepted tasks nobody has taken
    stop,       \* stop_
    wpc,        \* where each worker is in worker_loop
    job,        \* the task each worker runs, 0 if none
    client,     \* where each client is in enqueue or submit
    calls,      \* how often each client has called
    closer,     \* where each closer is in shutdown
    accepted,   \* history: how many tasks were accepted
    taken,      \* history: how many tasks were taken from the queue
    finished    \* history: the tasks whose run has returned

vars == <<tasks, stop, wpc, job, client, calls, closer, accepted, taken, finished>>

Init ==
    /\ tasks = <<>>
    /\ stop = FALSE
    /\ wpc = [w \in Workers |-> "check"]
    /\ job = [w \in Workers |-> 0]
    /\ client = [c \in Clients |-> "idle"]
    /\ calls = [c \in Clients |-> 0]
    /\ closer = [c \in Closers |-> "idle"]
    /\ accepted = 0
    /\ taken = 0
    /\ finished = {}

Waiting == {w \in Workers : wpc[w] = "wait"}

-----------------------------------------------------------------------------
(* enqueue and submit *)

Call(c) ==
    /\ client[c] = "idle"
    /\ calls[c] < MaxCalls
    /\ calls' = [calls EXCEPT ![c] = @ + 1]

\* Mutant: notifies only when the queue was empty.
EnqueueNotifiesFirst(c) ==
    /\ Call(c)
    /\ ~stop
    /\ tasks' = Append(tasks, accepted + 1)
    /\ accepted' = accepted + 1
    /\ client' = [client EXCEPT ![c] = IF tasks = <<>> THEN "notify" ELSE "idle"]
    /\ UNCHANGED <<stop, wpc, job, closer, taken, finished>>

\* The task enters the queue.
Enqueue(c) ==
    /\ Call(c)
    /\ ~stop
    /\ tasks' = Append(tasks, accepted + 1)
    /\ accepted' = accepted + 1
    /\ client' = [client EXCEPT ![c] = "notify"]
    /\ UNCHANGED <<stop, wpc, job, closer, taken, finished>>

\* The pool is shut down: enqueue drops the task, submit throws.
Refuse(c) ==
    /\ Call(c)
    /\ stop
    /\ UNCHANGED <<tasks, stop, wpc, job, client, closer, accepted, taken, finished>>

\* notify_one, after the mutex was released.
NotifyOne(c) ==
    /\ client[c] = "notify"
    /\ \/ \E w \in Waiting : wpc' = [wpc EXCEPT ![w] = "check"]
       \/ Waiting = {} /\ wpc' = wpc
    /\ client' = [client EXCEPT ![c] = "idle"]
    /\ UNCHANGED <<tasks, stop, job, calls, closer, accepted, taken, finished>>

-----------------------------------------------------------------------------
(* worker_loop: "check" is the evaluation of the wait's predicate *)

\* Mutant: waits without looking at the predicate first.
WaitBlindly(w) ==
    /\ wpc[w] = "check"
    /\ wpc' = [wpc EXCEPT ![w] = "wait"]
    /\ UNCHANGED <<tasks, stop, job, client, calls, closer, accepted, taken, finished>>

\* The predicate is false: release the mutex and wait.
Wait(w) ==
    /\ wpc[w] = "check"
    /\ ~stop /\ tasks = <<>>
    /\ wpc' = [wpc EXCEPT ![w] = "wait"]
    /\ UNCHANGED <<tasks, stop, job, client, calls, closer, accepted, taken, finished>>

\* A spurious wakeup.
WakeSpuriously(w) ==
    /\ wpc[w] = "wait"
    /\ wpc' = [wpc EXCEPT ![w] = "check"]
    /\ UNCHANGED <<tasks, stop, job, client, calls, closer, accepted, taken, finished>>

\* Mutant: takes the newest task.
TakeNewest(w) ==
    /\ wpc[w] = "check"
    /\ tasks # <<>>
    /\ job' = [job EXCEPT ![w] = tasks[Len(tasks)]]
    /\ tasks' = SubSeq(tasks, 1, Len(tasks) - 1)
    /\ taken' = taken + 1
    /\ wpc' = [wpc EXCEPT ![w] = "run"]
    /\ UNCHANGED <<stop, client, calls, closer, accepted, finished>>

\* Take the oldest task and release the mutex.
Take(w) ==
    /\ wpc[w] = "check"
    /\ tasks # <<>>
    /\ job' = [job EXCEPT ![w] = Head(tasks)]
    /\ tasks' = Tail(tasks)
    /\ taken' = taken + 1
    /\ wpc' = [wpc EXCEPT ![w] = "run"]
    /\ UNCHANGED <<stop, client, calls, closer, accepted, finished>>

\* The task returns.
Finish(w) ==
    /\ wpc[w] = "run"
    /\ finished' = finished \cup {job[w]}
    /\ job' = [job EXCEPT ![w] = 0]
    /\ wpc' = [wpc EXCEPT ![w] = "check"]
    /\ UNCHANGED <<tasks, stop, client, calls, closer, accepted, taken>>

\* Mutant: leaves as soon as the pool is stopped.
ExitAtOnce(w) ==
    /\ wpc[w] = "check"
    /\ stop
    /\ wpc' = [wpc EXCEPT ![w] = "exit"]
    /\ UNCHANGED <<tasks, stop, job, client, calls, closer, accepted, taken, finished>>

\* The pool is stopped and drained.
Exit(w) ==
    /\ wpc[w] = "check"
    /\ stop /\ tasks = <<>>
    /\ wpc' = [wpc EXCEPT ![w] = "exit"]
    /\ UNCHANGED <<tasks, stop, job, client, calls, closer, accepted, taken, finished>>

-----------------------------------------------------------------------------
(* shutdown *)

\* The first call sets stop_.
Stop(c) ==
    /\ closer[c] = "idle"
    /\ ~stop
    /\ stop' = TRUE
    /\ closer' = [closer EXCEPT ![c] = "notify"]
    /\ UNCHANGED <<tasks, wpc, job, client, calls, accepted, taken, finished>>

\* A later call returns at once, whether the threads are joined or not.
StopAgain(c) ==
    /\ closer[c] = "idle"
    /\ stop
    /\ closer' = [closer EXCEPT ![c] = "returned"]
    /\ UNCHANGED <<tasks, stop, wpc, job, client, calls, accepted, taken, finished>>

\* Mutant: wakes one worker up.
NotifyOnlyOne(c) ==
    /\ closer[c] = "notify"
    /\ \/ \E w \in Waiting : wpc' = [wpc EXCEPT ![w] = "check"]
       \/ Waiting = {} /\ wpc' = wpc
    /\ closer' = [closer EXCEPT ![c] = "join"]
    /\ UNCHANGED <<tasks, stop, job, client, calls, accepted, taken, finished>>

\* notify_all, after the mutex was released.
NotifyAll(c) ==
    /\ closer[c] = "notify"
    /\ wpc' = [w \in Workers |-> IF wpc[w] = "wait" THEN "check" ELSE wpc[w]]
    /\ closer' = [closer EXCEPT ![c] = "join"]
    /\ UNCHANGED <<tasks, stop, job, client, calls, accepted, taken, finished>>

\* Every worker has been joined: shutdown returns.
Join(c) ==
    /\ closer[c] = "join"
    /\ \A w \in Workers : wpc[w] = "exit"
    /\ closer' = [closer EXCEPT ![c] = "joined"]
    /\ UNCHANGED <<tasks, stop, wpc, job, client, calls, accepted, taken, finished>>

-----------------------------------------------------------------------------
ClientStep(c) == Enqueue(c) \/ Refuse(c) \/ NotifyOne(c)

WorkerStep(w) == Wait(w) \/ Take(w) \/ Finish(w) \/ Exit(w)

CloserStep(c) == Stop(c) \/ StopAgain(c) \/ NotifyAll(c) \/ Join(c)

\* Everything there was to do is done; without this step TLC would take the
\* state for a deadlock.
Finished ==
    /\ \A c \in Clients : client[c] = "idle" /\ calls[c] = MaxCalls
    /\ \A c \in Closers : closer[c] \in {"joined", "returned"}
    /\ UNCHANGED vars

Next ==
    \/ \E c \in Clients : ClientStep(c)
    \/ \E w \in Workers : WorkerStep(w) \/ WakeSpuriously(w)
    \/ \E c \in Closers : CloserStep(c)
    \/ Finished

Spec == Init /\ [][Next]_vars

\* The threads the pool runs are scheduled, tasks return, and a call that is
\* past its critical section goes on.  Nobody has to call.
Fairness ==
    /\ \A w \in Workers : WF_vars(WorkerStep(w))
    /\ \A c \in Clients : WF_vars(NotifyOne(c))
    /\ \A c \in Closers : WF_vars(NotifyAll(c) \/ Join(c))

FairSpec == Spec /\ Fairness

-----------------------------------------------------------------------------
(* Properties *)

TypeOK ==
    /\ tasks \in Seq(Nat)
    /\ stop \in BOOLEAN
    /\ wpc \in [Workers -> {"check", "wait", "run", "exit"}]
    /\ job \in [Workers -> Nat]
    /\ client \in [Clients -> {"idle", "notify"}]
    /\ calls \in [Clients -> 0..MaxCalls]
    /\ closer \in [Closers -> {"idle", "notify", "join", "joined", "returned"}]
    /\ accepted \in Nat
    /\ taken \in 0..accepted
    /\ finished \subseteq 1..taken

\* The queue holds the accepted tasks that were not taken, oldest first: none
\* is lost, taken twice or overtaken.
QueueInOrder ==
    /\ Len(tasks) = accepted - taken
    /\ \A i \in 1..Len(tasks) : tasks[i] = taken + i

\* Every task that was taken is finished or run by one worker, never by two.
RunOnce ==
    /\ \A w \in Workers : wpc[w] = "run" => job[w] \in (1..taken) \ finished
    /\ \A v, w \in Workers : v # w /\ wpc[v] = "run" /\ wpc[w] = "run" => job[v] # job[w]
    /\ \A n \in (1..taken) \ finished : \E w \in Workers : wpc[w] = "run" /\ job[w] = n

\* Workers leave only a stopped pool with an empty queue; once notify_all is done
\* no worker of the stopped pool sleeps, and shutdown returns when all have left.
StopInv ==
    /\ \A w \in Workers : wpc[w] = "exit" => stop /\ tasks = <<>>
    /\ \A c \in Closers :
          /\ closer[c] \in {"notify", "join", "joined"} => stop
          /\ closer[c] \in {"join", "joined"} => Waiting = {}
          /\ closer[c] = "joined" => \A w \in Workers : wpc[w] = "exit"

\* When the shutdown that stopped the pool returns, every task ever accepted has
\* run to its end ("Drain remaining tasks before exiting", ThreadPool.hpp:132).
ShutdownDrains ==
    \A c \in Closers : closer[c] = "joined" =>
        /\ finished = 1..accepted
        /\ \A w \in Workers : wpc[w] = "exit"

Checking == {w \in Workers : wpc[w] = "check"}
Notifying == {c \in Clients : client[c] = "notify"}

\* One notify_one for each task is enough: no worker sleeps while a task waits
\* for which no other worker is awake and no notification is on its way.
NoWorkerIdles ==
    Waiting # {} =>
        Len(tasks) <= Cardinality(Checking) + Cardinality(Notifying)

\* The inductive invariant.
IInv == TypeOK /\ QueueInOrder /\ RunOnce /\ StopInv /\ NoWorkerIdles

\* Nothing is accepted once the pool is stopped.
NothingAfterStop == [][stop => stop' /\ accepted' = accepted]_vars

\* Every accepted task is run to its end, shutdown or not.
AcceptedFinishes ==
    \A n \in 1..Cardinality(Clients) * MaxCalls :
        accepted >= n ~> n \in finished

\* The shutdown that stopped the pool returns.
ShutdownReturns ==
    \A c \in Closers : closer[c] = "notify" ~> closer[c] = "joined"
\* The thread pool implements the pool of tasks.
Pool == INSTANCE TaskPool WITH
    Tasks <- 1..Cardinality(Clients) * MaxCalls, Size <- Cardinality(Workers),
    queue <- tasks, closed <- stop,
    running <- {job[w] : w \in {v \in Workers : wpc[v] = "run"}}

ImplementsPool == Pool!TSpec
=============================================================================

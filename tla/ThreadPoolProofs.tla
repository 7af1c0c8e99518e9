-------------------------- MODULE ThreadPoolProofs --------------------------
(***************************************************************************)
(* Safety of the thread pool for every number of workers, clients, closers *)
(* and calls: the invariant IInv of ThreadPool is inductive, and with it   *)
(* every safety property TLC checks on small pools; and the threads, the   *)
(* mutex and the condition variable implement the pool of tasks on which   *)
(* the models of the rest of the program rely.                             *)
(***************************************************************************)
EXTENDS ThreadPool, FiniteSetTheorems, TLAPS

\* What the proofs use of the bound on calls.
LEMMA BoundIsNat == MaxCalls \in Nat
BY ThreadsAssumption

\* A pool that was just constructed satisfies the invariant.
LEMMA InvInit == Init => IInv
<1>. SUFFICES ASSUME Init
              PROVE  IInv
  OBVIOUS
<1>1. TypeOK
  <2>1. calls \in [Clients -> 0..MaxCalls]
    BY BoundIsNat DEF Init
  <2>2. tasks \in Seq(Nat)
    BY DEF Init
  <2>3. /\ wpc \in [Workers -> {"check", "wait", "run", "exit"}]
        /\ job \in [Workers -> Nat]
        /\ client \in [Clients -> {"idle", "notify"}]
        /\ closer \in [Closers -> {"idle", "notify", "join", "joined", "returned"}]
    BY DEF Init
  <2>4. accepted \in Nat /\ taken \in 0..accepted /\ finished \subseteq 1..taken
    BY DEF Init
  <2>. QED  BY <2>1, <2>2, <2>3, <2>4 DEF Init, TypeOK
<1>2. QueueInOrder /\ RunOnce /\ StopInv
  BY DEF Init, QueueInOrder, RunOnce, StopInv
<1>3. NoWorkerIdles
  BY DEF Init, NoWorkerIdles, Waiting
<1>. QED  BY <1>1, <1>2, <1>3 DEF IInv

-----------------------------------------------------------------------------
(* Types, the order of the queue, and who runs what *)

\* Every step keeps the types; the histories need the order of the queue.
LEMMA TypeNext ==
    ASSUME TypeOK, RunOnce, QueueInOrder, [Next]_vars
    PROVE  TypeOK'
<1>. USE BoundIsNat DEF TypeOK
<1>1. ASSUME NEW c \in Clients, Enqueue(c)
      PROVE  TypeOK'
  BY <1>1 DEF Enqueue, Call
<1>2. ASSUME NEW c \in Clients, Refuse(c)
      PROVE  TypeOK'
  BY <1>2 DEF Refuse, Call
<1>3. ASSUME NEW c \in Clients, NotifyOne(c)
      PROVE  TypeOK'
  BY <1>3 DEF NotifyOne, Waiting
<1>4. ASSUME NEW w \in Workers, Wait(w) \/ WakeSpuriously(w) \/ Exit(w)
      PROVE  TypeOK'
  BY <1>4 DEF Wait, WakeSpuriously, Exit
<1>5. ASSUME NEW w \in Workers, Take(w)
      PROVE  TypeOK'
  <2>1. /\ Head(tasks) \in Nat /\ Tail(tasks) \in Seq(Nat)
        /\ taken + 1 \in 0..accepted
    BY <1>5 DEF Take, QueueInOrder
  <2>. QED  BY <1>5, <2>1 DEF Take
<1>6. ASSUME NEW w \in Workers, Finish(w)
      PROVE  TypeOK'
  BY <1>6 DEF Finish, RunOnce
<1>7. ASSUME NEW c \in Closers, CloserStep(c)
      PROVE  TypeOK'
  BY <1>7 DEF CloserStep, Stop, StopAgain, NotifyAll, Join
<1>8. CASE UNCHANGED vars
  BY <1>8 DEF vars
<1>. QED
  BY <1>1, <1>2, <1>3, <1>4, <1>5, <1>6, <1>7, <1>8
  DEF Next, ClientStep, WorkerStep, Finished

\* Tasks enter at the end of the queue and leave at its front.
LEMMA OrderNext ==
    ASSUME TypeOK, QueueInOrder, [Next]_vars
    PROVE  QueueInOrder'
<1>. USE DEF TypeOK, QueueInOrder
<1>1. ASSUME NEW c \in Clients, Enqueue(c)
      PROVE  QueueInOrder'
  BY <1>1 DEF Enqueue
<1>2. ASSUME NEW w \in Workers, Take(w)
      PROVE  QueueInOrder'
  BY <1>2 DEF Take
<1>3. CASE UNCHANGED <<tasks, accepted, taken>>
  BY <1>3
<1>. QED
  BY <1>1, <1>2, <1>3
  DEF Next, ClientStep, WorkerStep, CloserStep, Finished, Refuse, NotifyOne, Wait,
      WakeSpuriously, Finish, Exit, Stop, StopAgain, NotifyAll, Join, vars

\* The task a worker takes is new, and the task it finishes was its own.
LEMMA RunOnceNext ==
    ASSUME TypeOK, QueueInOrder, RunOnce, [Next]_vars
    PROVE  RunOnce'
<1>. USE DEF TypeOK, RunOnce
<1>1. ASSUME NEW w \in Workers, Take(w)
      PROVE  RunOnce'
  <2>1. Head(tasks) = taken + 1
    BY <1>1 DEF Take, QueueInOrder
  <2>2. /\ job' = [job EXCEPT ![w] = taken + 1]
        /\ wpc' = [wpc EXCEPT ![w] = "run"]
        /\ wpc[w] # "run"
        /\ taken' = taken + 1 /\ finished' = finished
    BY <1>1, <2>1 DEF Take
  <2>3. /\ \A v \in Workers : wpc'[v] = "run" <=> (v = w \/ wpc[v] = "run")
        /\ \A v \in Workers \ {w} : job'[v] = job[v]
        /\ job'[w] = taken + 1
    BY <2>2
  <2>4. \A v \in Workers : wpc'[v] = "run" => job'[v] \in (1..taken') \ finished'
    BY <2>2, <2>3
  <2>5. \A u, v \in Workers :
           u # v /\ wpc'[u] = "run" /\ wpc'[v] = "run" => job'[u] # job'[v]
    BY <2>3
  <2>6. \A n \in (1..taken') \ finished' : \E v \in Workers : wpc'[v] = "run" /\ job'[v] = n
    <3>. TAKE n \in (1..taken') \ finished'
    <3>1. CASE n = taken + 1
      BY <2>3, <3>1
    <3>2. CASE n # taken + 1
      <4>1. n \in (1..taken) \ finished
        BY <2>2, <3>2
      <4>2. PICK v \in Workers : wpc[v] = "run" /\ job[v] = n
        BY <4>1
      <4>. QED  BY <2>2, <2>3, <4>2
    <3>. QED  BY <3>1, <3>2
  <2>. QED  BY <2>4, <2>5, <2>6
<1>2. ASSUME NEW w \in Workers, Finish(w)
      PROVE  RunOnce'
  <2>1. /\ job' = [job EXCEPT ![w] = 0]
        /\ wpc' = [wpc EXCEPT ![w] = "check"]
        /\ wpc[w] = "run"
        /\ taken' = taken /\ finished' = finished \cup {job[w]}
    BY <1>2 DEF Finish
  <2>2. /\ \A v \in Workers : wpc'[v] = "run" <=> (v # w /\ wpc[v] = "run")
        /\ \A v \in Workers \ {w} : job'[v] = job[v]
    BY <2>1
  <2>. QED  BY <2>1, <2>2
<1>3. CASE /\ UNCHANGED <<job, taken, finished>>
           /\ \A w \in Workers : wpc'[w] = "run" <=> wpc[w] = "run"
  BY <1>3
<1>. QED
  BY <1>1, <1>2, <1>3
  DEF Next, ClientStep, WorkerStep, CloserStep, Finished, Enqueue, Refuse, NotifyOne, Wait,
      WakeSpuriously, Exit, Stop, StopAgain, NotifyAll, Join, vars, Waiting

\* Nothing restarts a worker that has left, and nobody falls asleep in a stopped
\* pool.
LEMMA StopNext ==
    ASSUME TypeOK, StopInv, [Next]_vars
    PROVE  StopInv'
<1>. USE DEF TypeOK, StopInv, Waiting
<1>1. ASSUME NEW c \in Clients, ClientStep(c)
      PROVE  StopInv'
  BY <1>1 DEF ClientStep, Enqueue, Refuse, NotifyOne
<1>2. ASSUME NEW w \in Workers, WorkerStep(w) \/ WakeSpuriously(w)
      PROVE  StopInv'
  BY <1>2 DEF WorkerStep, Wait, WakeSpuriously, Take, Finish, Exit
<1>3. ASSUME NEW c \in Closers, CloserStep(c)
      PROVE  StopInv'
  BY <1>3 DEF CloserStep, Stop, StopAgain, NotifyAll, Join
<1>4. CASE UNCHANGED vars
  BY <1>4 DEF vars
<1>. QED  BY <1>1, <1>2, <1>3, <1>4 DEF Next, Finished

-----------------------------------------------------------------------------
(* No worker sleeps while there is work for it *)

\* The workers at the predicate and the notifications on their way are finitely
\* many.
LEMMA Counts ==
    /\ IsFiniteSet(Checking) /\ Cardinality(Checking) \in Nat
    /\ IsFiniteSet(Notifying) /\ Cardinality(Notifying) \in Nat
BY ThreadsAssumption, FS_Subset, FS_CardinalityType DEF Checking, Notifying

\* Each accepted task brings a notification, which turns a sleeping worker into
\* one that will look at the queue; a worker that takes a task is one less.
LEMMA IdleNext ==
    ASSUME TypeOK, NoWorkerIdles, [Next]_vars
    PROVE  NoWorkerIdles'
<1>. DEFINE load == Cardinality(Checking) + Cardinality(Notifying)
<1>1. ASSUME NEW c \in Clients, Enqueue(c)
      PROVE  NoWorkerIdles'
  <2>1. /\ Waiting' = Waiting /\ Checking' = Checking
        /\ Notifying' = Notifying \cup {c} /\ c \notin Notifying
    BY <1>1 DEF Enqueue, Call, Waiting, Checking, Notifying, TypeOK
  <2>2. Cardinality(Notifying') = Cardinality(Notifying) + 1
    BY <2>1, Counts, FS_AddElement
  <2>3. Len(tasks') = Len(tasks) + 1 /\ Len(tasks) \in Nat
    BY <1>1 DEF Enqueue, TypeOK
  <2>. QED  BY <2>1, <2>2, <2>3, Counts DEF NoWorkerIdles
<1>2. ASSUME NEW c \in Clients, NotifyOne(c)
      PROVE  NoWorkerIdles'
  <2>1. /\ Notifying' = Notifying \ {c} /\ c \in Notifying /\ tasks' = tasks
    BY <1>2 DEF NotifyOne, Notifying, TypeOK
  <2>2. Cardinality(Notifying') = Cardinality(Notifying) - 1
    BY <2>1, Counts, FS_RemoveElement
  <2>3. CASE Waiting = {} /\ wpc' = wpc
    BY <2>3 DEF NoWorkerIdles, Waiting
  <2>4. ASSUME NEW w \in Waiting, wpc' = [wpc EXCEPT ![w] = "check"]
        PROVE  NoWorkerIdles'
    <3>1. Checking' = Checking \cup {w} /\ w \notin Checking
      BY <2>4 DEF Checking, Waiting, TypeOK
    <3>2. Cardinality(Checking') = Cardinality(Checking) + 1
      BY <3>1, Counts, FS_AddElement
    <3>. QED  BY <2>1, <2>2, <2>4, <3>2, Counts DEF NoWorkerIdles
  <2>. QED  BY <1>2, <2>3, <2>4 DEF NotifyOne
<1>3. ASSUME NEW w \in Workers, Wait(w) \/ Exit(w)
      PROVE  NoWorkerIdles'
  <2>1. tasks' = <<>>
    BY <1>3 DEF Wait, Exit
  <2>2. Len(tasks') = 0
    BY <2>1
  <2>3. load' \in Nat
    <3>1. /\ IsFiniteSet(Checking') /\ IsFiniteSet(Notifying')
      BY ThreadsAssumption, FS_Subset DEF Checking, Notifying
    <3>. QED  BY <3>1, FS_CardinalityType
  <2>. QED  BY <2>2, <2>3 DEF NoWorkerIdles
<1>4. ASSUME NEW w \in Workers, WakeSpuriously(w) \/ Finish(w)
      PROVE  NoWorkerIdles'
  <2>1. /\ Checking' = Checking \cup {w} /\ w \notin Checking
        /\ Waiting' \subseteq Waiting /\ Notifying' = Notifying /\ tasks' = tasks
    BY <1>4 DEF WakeSpuriously, Finish, Checking, Waiting, Notifying, TypeOK
  <2>2. Cardinality(Checking') = Cardinality(Checking) + 1
    BY <2>1, Counts, FS_AddElement
  <2>3. Len(tasks) \in Nat
    BY DEF TypeOK
  <2>. QED  BY <2>1, <2>2, <2>3, Counts DEF NoWorkerIdles
<1>5. ASSUME NEW w \in Workers, Take(w)
      PROVE  NoWorkerIdles'
  <2>1. /\ Checking' = Checking \ {w} /\ w \in Checking
        /\ Waiting' = Waiting /\ Notifying' = Notifying
    BY <1>5 DEF Take, Checking, Waiting, Notifying, TypeOK
  <2>2. Cardinality(Checking') = Cardinality(Checking) - 1
    BY <2>1, Counts, FS_RemoveElement
  <2>3. Len(tasks') = Len(tasks) - 1 /\ Len(tasks) \in Nat
    BY <1>5 DEF Take, TypeOK
  <2>. QED  BY <2>1, <2>2, <2>3, Counts DEF NoWorkerIdles
<1>6. ASSUME NEW c \in Closers, NotifyAll(c)
      PROVE  NoWorkerIdles'
  BY <1>6 DEF NotifyAll, NoWorkerIdles, Waiting
<1>7. CASE UNCHANGED <<tasks, wpc, client>>
  BY <1>7 DEF NoWorkerIdles, Waiting, Checking, Notifying
<1>. QED
  BY <1>1, <1>2, <1>3, <1>4, <1>5, <1>6, <1>7
  DEF Next, ClientStep, WorkerStep, CloserStep, Finished, Refuse, Stop, StopAgain, Join, vars

-----------------------------------------------------------------------------
(* The theorems *)

\* IInv, the conjunction of the invariants above, holds in every reachable state.
THEOREM InvCorrect == Spec => []IInv
<1>1. IInv /\ [Next]_vars => IInv'
  BY TypeNext, OrderNext, RunOnceNext, StopNext, IdleNext DEF IInv
<1>. QED  BY <1>1, InvInit, PTL DEF Spec

\* The states of ThreadPool.hpp's model have the declared types.
THEOREM TypeCorrect == Spec => []TypeOK
<1>. QED  BY InvCorrect, PTL DEF IInv

\* Tasks leave the queue in the order in which they were accepted, none is lost.
THEOREM TakesInOrder == Spec => []QueueInOrder
<1>. QED  BY InvCorrect, PTL DEF IInv

\* No task is run twice, and each one taken is running or finished.
THEOREM RunsOnce == Spec => []RunOnce
<1>. QED  BY InvCorrect, PTL DEF IInv

\* A notification for each task keeps the workers busy: none sleeps beside a
\* task that no awake worker and no pending notification accounts for.
THEOREM KeepsWorkersBusy == Spec => []NoWorkerIdles
<1>. QED  BY InvCorrect, PTL DEF IInv

\* When the shutdown that stopped the pool returns, all accepted tasks have run.
THEOREM DrainsOnShutdown == Spec => []ShutdownDrains
<1>1. ASSUME IInv
      PROVE  ShutdownDrains
  <2>. SUFFICES ASSUME NEW c \in Closers, closer[c] = "joined"
                PROVE  finished = 1..accepted /\ \A w \in Workers : wpc[w] = "exit"
    BY DEF ShutdownDrains
  <2>1. \A w \in Workers : wpc[w] = "exit"
    BY <1>1 DEF IInv, StopInv
  <2>2. tasks = <<>>
    BY <1>1, <2>1, ThreadsAssumption DEF IInv, StopInv
  <2>3. taken = accepted
    BY <1>1, <2>2 DEF IInv, TypeOK, QueueInOrder
  <2>4. finished = 1..taken
    BY <1>1, <2>1 DEF IInv, TypeOK, RunOnce
  <2>. QED  BY <2>1, <2>3, <2>4
<1>. QED  BY <1>1, InvCorrect, PTL

\* Once the pool is stopped nothing is accepted.
THEOREM StopsAccepting == Spec => NothingAfterStop
<1>1. [Next]_vars => (stop => stop' /\ accepted' = accepted)
  BY DEF Next, ClientStep, WorkerStep, CloserStep, Finished, Enqueue, Refuse, NotifyOne, Wait,
     WakeSpuriously, Take, Finish, Exit, Stop, StopAgain, NotifyAll, Join, vars
<1>. QED  BY <1>1, PTL DEF Spec, NothingAfterStop

-----------------------------------------------------------------------------
(* The pool of threads implements the pool of tasks *)

Busy == {w \in Workers : wpc[w] = "run"}
Jobs == {job[w] : w \in Busy}

\* The calls that were made, each with its number.
Made == {p \in Clients \X (1..MaxCalls) : p[2] <= calls[p[1]]}

\* No more tasks were accepted than calls were made.
CallsCounted == accepted <= Cardinality(Made)

LEMMA MadeIsFinite ==
    /\ IsFiniteSet(Clients \X (1..MaxCalls))
    /\ Cardinality(Clients \X (1..MaxCalls)) = Cardinality(Clients) * MaxCalls
    /\ IsFiniteSet(Made) /\ Cardinality(Made) \in Nat
<1>1. IsFiniteSet(1..MaxCalls) /\ Cardinality(1..MaxCalls) = MaxCalls
  BY BoundIsNat, FS_Interval
<1>2. /\ IsFiniteSet(Clients \X (1..MaxCalls))
      /\ Cardinality(Clients \X (1..MaxCalls)) = Cardinality(Clients) * MaxCalls
  BY <1>1, ThreadsAssumption, FS_Product
<1>3. IsFiniteSet(Made)
  <2>1. Made \in SUBSET (Clients \X (1..MaxCalls))
    BY DEF Made
  <2>. QED  BY <1>2, <2>1, FS_Subset
<1>. QED  BY <1>2, <1>3, FS_CardinalityType

\* A call adds one to the calls that were made, of which there was one left.
LEMMA CallAddsOne ==
    ASSUME TypeOK, NEW c \in Clients, Call(c)
    PROVE  /\ Cardinality(Made') = Cardinality(Made) + 1
           /\ Cardinality(Made) < Cardinality(Clients) * MaxCalls
<1>. DEFINE p == <<c, calls[c] + 1>>
<1>1. calls' = [calls EXCEPT ![c] = @ + 1] /\ calls[c] < MaxCalls /\ calls[c] \in Nat
  BY DEF Call, TypeOK
<1>2. p \in Clients \X (1..MaxCalls) /\ p \notin Made
  BY <1>1, BoundIsNat DEF Made
<1>3. Made' = Made \cup {p}
  <2>1. ASSUME NEW d \in Clients, NEW k \in 1..MaxCalls
        PROVE  <<d, k>> \in Made' <=> <<d, k>> \in Made \cup {p}
    <3>1. CASE d = c
      BY <1>1, <3>1 DEF Made, TypeOK
    <3>2. CASE d # c
      BY <1>1, <3>2 DEF Made, TypeOK
    <3>. QED  BY <3>1, <3>2
  <2>2. Made' \subseteq Clients \X (1..MaxCalls) /\ Made \cup {p} \subseteq Clients \X (1..MaxCalls)
    BY <1>2 DEF Made
  <2>. QED  BY <2>1, <2>2
<1>4. Cardinality(Made') = Cardinality(Made) + 1
  BY <1>2, <1>3, MadeIsFinite, FS_AddElement
<1>5. Cardinality(Made) <= Cardinality(Clients) * MaxCalls
      /\ (Cardinality(Clients) * MaxCalls = Cardinality(Made) => Clients \X (1..MaxCalls) = Made)
  <2>1. Made \in SUBSET (Clients \X (1..MaxCalls))
    BY DEF Made
  <2>. QED  BY <2>1, MadeIsFinite, FS_Subset
<1>6. Cardinality(Clients) * MaxCalls \in Nat
  BY ThreadsAssumption, FS_CardinalityType
<1>. QED  BY <1>2, <1>4, <1>5, <1>6, MadeIsFinite

\* Every accepted task is the task of a call.
LEMMA CallsCountedNext ==
    ASSUME TypeOK, CallsCounted, [Next]_vars
    PROVE  CallsCounted'
<1>1. ASSUME NEW c \in Clients, Enqueue(c) \/ Refuse(c)
      PROVE  CallsCounted'
  <2>1. Call(c) /\ accepted' \in {accepted, accepted + 1}
    BY <1>1 DEF Enqueue, Refuse
  <2>2. Cardinality(Made') = Cardinality(Made) + 1
    BY <2>1, CallAddsOne
  <2>. QED  BY <2>1, <2>2, MadeIsFinite DEF CallsCounted, TypeOK
<1>2. CASE UNCHANGED <<calls, accepted>>
  BY <1>2 DEF CallsCounted, Made
<1>. QED
  BY <1>1, <1>2
  DEF Next, ClientStep, WorkerStep, CloserStep, Finished, NotifyOne, Wait, Take,
      WakeSpuriously, Finish, Exit, Stop, StopAgain, NotifyAll, Join, vars

\* The pool takes a task only when a worker is free.
LEMMA FewerJobsThanWorkers ==
    ASSUME NEW w \in Workers, wpc[w] # "run"
    PROVE  Cardinality(Jobs) < Cardinality(Workers)
<1>1. IsFiniteSet(Workers \ {w}) /\ Cardinality(Workers \ {w}) = Cardinality(Workers) - 1
  BY ThreadsAssumption, FS_RemoveElement
<1>2. IsFiniteSet(Busy) /\ Cardinality(Busy) <= Cardinality(Workers) - 1
  <2>1. Busy \in SUBSET (Workers \ {w})
    BY DEF Busy
  <2>. QED  BY <1>1, <2>1, FS_Subset
<1>3. IsFiniteSet(Jobs) /\ Cardinality(Jobs) <= Cardinality(Busy)
  <2>. DEFINE f == [v \in Busy |-> job[v]]
  <2>1. f \in Surjection(Busy, Jobs)
    BY DEF Surjection, Jobs
  <2>. QED  BY <1>2, <2>1, FS_Surjection
<1>4. Cardinality(Jobs) \in Nat /\ Cardinality(Busy) \in Nat /\ Cardinality(Workers) \in Nat
  BY <1>2, <1>3, ThreadsAssumption, FS_CardinalityType
<1>. QED  BY <1>2, <1>3, <1>4

\* Every step of the threads is a step of the pool of tasks, or none.
LEMMA PoolStep ==
    ASSUME IInv, CallsCounted, [Next]_vars
    PROVE  [Pool!TNext]_(Pool!tvars)
<1>. USE DEF IInv, Pool!TNext, Pool!tvars
<1>1. ASSUME NEW c \in Clients, Enqueue(c)
      PROVE  Pool!TNext
  <2>1. accepted + 1 \in 1..Cardinality(Clients) * MaxCalls
    <3>1. accepted < Cardinality(Clients) * MaxCalls /\ accepted \in Nat
      BY <1>1, CallAddsOne, MadeIsFinite, ThreadsAssumption, FS_CardinalityType
      DEF Enqueue, CallsCounted, TypeOK
    <3>2. Cardinality(Clients) * MaxCalls \in Nat
      BY ThreadsAssumption, FS_CardinalityType
    <3>. QED  BY <3>1, <3>2
  <2>2. Pool!Accept(accepted + 1)
    BY <1>1 DEF Enqueue, Pool!Accept
  <2>. QED  BY <2>1, <2>2
<1>2. ASSUME NEW w \in Workers, Take(w)
      PROVE  Pool!TNext
  <2>1. Jobs' = Jobs \cup {Head(tasks)}
    <3>1. Busy' = Busy \cup {w} /\ w \notin Busy
      BY <1>2 DEF Take, TypeOK, Busy
    <3>2. job' = [job EXCEPT ![w] = Head(tasks)] /\ job \in [Workers -> Nat]
      BY <1>2 DEF Take, TypeOK
    <3>3. job'[w] = Head(tasks) /\ \A v \in Busy : job'[v] = job[v]
      BY <3>1, <3>2 DEF Busy
    <3>. QED  BY <3>1, <3>3 DEF Jobs
  <2>2. Cardinality(Jobs) < Cardinality(Workers)
    BY <1>2, FewerJobsThanWorkers DEF Take
  <2>3. Pool!Start
    BY <1>2, <2>1, <2>2 DEF Take, Pool!Start, Jobs, Busy, Pool!Cardinality, Cardinality
  <2>. QED  BY <2>3
<1>3. ASSUME NEW w \in Workers, Finish(w)
      PROVE  Pool!TNext
  <2>1. Jobs' = Jobs \ {job[w]} /\ job[w] \in Jobs
    <3>1. Busy' = Busy \ {w} /\ w \in Busy
      BY <1>3 DEF Finish, TypeOK, Busy
    <3>2. \A v \in Busy \ {w} : job'[v] = job[v] /\ job[v] # job[w]
      BY <1>3, <3>1 DEF Finish, TypeOK, RunOnce, Busy
    <3>. QED  BY <3>1, <3>2 DEF Jobs
  <2>2. PICK n \in Nat : n = job[w]
    BY DEF TypeOK
  <2>3. Pool!Complete(n)
    BY <1>3, <2>1, <2>2 DEF Finish, Pool!Complete, Jobs, Busy
  <2>4. n \in {job[v] : v \in {u \in Workers : wpc[u] = "run"}}
    BY <1>3, <2>2 DEF Finish
  <2>. QED  BY <2>3, <2>4
<1>4. ASSUME NEW c \in Closers, Stop(c)
      PROVE  Pool!TNext
  <2>1. Pool!Close
    BY <1>4 DEF Stop, Pool!Close
  <2>. QED  BY <2>1
<1>5. CASE /\ UNCHANGED <<tasks, stop, job>>
           /\ \A w \in Workers : wpc'[w] = "run" <=> wpc[w] = "run"
  BY <1>5
<1>. QED
  BY <1>1, <1>2, <1>3, <1>4, <1>5
  DEF Next, ClientStep, WorkerStep, CloserStep, Finished, Refuse, NotifyOne, Wait,
      WakeSpuriously, Exit, StopAgain, NotifyAll, Join, vars, Waiting, TypeOK

\* The thread pool implements TaskPool: tasks start in the order in which they were
\* accepted, never more at once than there are workers, each once; and a closed pool
\* accepts nothing but runs what it has.
THEOREM Implements == Spec => ImplementsPool
<1>1. Init => Pool!TInit
  BY DEF Init, Pool!TInit
<1>2. Init => CallsCounted
  BY MadeIsFinite DEF Init, CallsCounted
<1>3. TypeOK /\ CallsCounted /\ [Next]_vars => CallsCounted'
  BY CallsCountedNext
<1>4. IInv /\ CallsCounted /\ [Next]_vars => [Pool!TNext]_(Pool!tvars)
  BY PoolStep
<1>5. IInv => TypeOK
  BY DEF IInv
<1>. QED
  BY <1>1, <1>2, <1>3, <1>4, <1>5, InvCorrect, PTL DEF Spec, ImplementsPool, Pool!TSpec

=============================================================================

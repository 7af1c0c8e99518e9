--------------------------- MODULE PipelineProofs ---------------------------
(***************************************************************************)
(* Safety of the ingestion pipeline for all numbers of sources, slots,     *)
(* workers and lines: IInv of Pipeline is inductive, and with it no entry  *)
(* is lost or matched twice between the ring and the database, entries are *)
(* stored almost in order, and nothing is left undone when main returns.   *)
(***************************************************************************)
EXTENDS Pipeline, FunctionTheorems, FiniteSetTheorems, TLAPS

-----------------------------------------------------------------------------
(* Queues *)

\* What Append does to the elements of a queue.
LEMMA AppendRange ==
    ASSUME NEW S, NEW q \in Seq(S), NEW x \in S
    PROVE  Range(Append(q, x)) = Range(q) \cup {x}
<1>1. /\ DOMAIN Append(q, x) = 1..(Len(q) + 1) /\ DOMAIN q = 1..Len(q)
      /\ Append(q, x)[Len(q) + 1] = x
      /\ \A i \in 1..Len(q) : Append(q, x)[i] = q[i]
  OBVIOUS
<1>2. ASSUME NEW y \in Range(Append(q, x)) PROVE y \in Range(q) \cup {x}
  BY <1>1 DEF Range
<1>3. ASSUME NEW y \in Range(q) PROVE y \in Range(Append(q, x))
  <2>1. PICK i \in 1..Len(q) : y = q[i]
    BY <1>1, <1>3 DEF Range
  <2>2. i \in 1..(Len(q) + 1) /\ Append(q, x)[i] = y
    BY <1>1, <2>1
  <2> QED BY <1>1, <2>2 DEF Range
<1>4. x \in Range(Append(q, x))
  <2>1. Len(q) + 1 \in 1..(Len(q) + 1)
    OBVIOUS
  <2> QED BY <1>1, <2>1 DEF Range
<1> QED BY <1>2, <1>3, <1>4

\* A queue consists of its head and of its tail.
LEMMA TailRange ==
    ASSUME NEW S, NEW q \in Seq(S), q # <<>>
    PROVE  /\ Head(q) \in S /\ Tail(q) \in Seq(S)
           /\ Range(q) = {Head(q)} \cup Range(Tail(q))
<1>1. /\ Head(q) \in S /\ Tail(q) \in Seq(S) /\ Len(q) \in Nat \ {0}
      /\ DOMAIN q = 1..Len(q) /\ DOMAIN Tail(q) = 1..(Len(q) - 1)
      /\ Head(q) = q[1] /\ \A i \in 1..(Len(q) - 1) : Tail(q)[i] = q[i + 1]
  OBVIOUS
<1>2. ASSUME NEW y \in Range(q) PROVE y \in {Head(q)} \cup Range(Tail(q))
  <2>1. PICK i \in 1..Len(q) : y = q[i]
    BY <1>1, <1>2 DEF Range
  <2>2. CASE i # 1
    <3>1. i - 1 \in 1..(Len(q) - 1) /\ Tail(q)[i - 1] = y
      BY <1>1, <2>1, <2>2
    <3> QED BY <1>1, <3>1 DEF Range
  <2> QED BY <1>1, <2>1, <2>2
<1>3. ASSUME NEW y \in Range(Tail(q)) PROVE y \in Range(q)
  <2>1. PICK i \in 1..(Len(q) - 1) : y = Tail(q)[i]
    BY <1>1, <1>3 DEF Range
  <2>2. i + 1 \in 1..Len(q) /\ q[i + 1] = y
    BY <1>1, <2>1
  <2> QED BY <1>1, <2>2 DEF Range
<1>4. Head(q) \in Range(q)
  <2>1. 1 \in 1..Len(q)
    BY <1>1
  <2> QED BY <1>1, <2>1 DEF Range
<1> QED BY <1>1, <1>2, <1>3, <1>4

\* A queue whose elements increase has as many elements as entries.
LEMMA IncreasingCounts ==
    ASSUME NEW q \in Seq(Nat), \A i, j \in 1..Len(q) : i < j => q[i] < q[j]
    PROVE  Cardinality(Range(q)) = Len(q)
<1>1. q \in [1..Len(q) -> Range(q)] /\ DOMAIN q = 1..Len(q)
  BY DEF Range
<1>2. \A i, j \in 1..Len(q) : q[i] = q[j] => i = j
  <2>1. SUFFICES ASSUME NEW i \in 1..Len(q), NEW j \in 1..Len(q), i # j PROVE q[i] # q[j]
    OBVIOUS
  <2>2. q[i] \in Nat /\ q[j] \in Nat /\ (i < j \/ j < i)
    BY <2>1
  <2> QED BY <2>2
<1>3. \A y \in Range(q) : \E i \in 1..Len(q) : q[i] = y
  BY <1>1 DEF Range
<1>4. q \in Bijection(1..Len(q), Range(q))
  <2>1. IsInjective(q)
    BY <1>1, <1>2 DEF IsInjective
  <2>2. q \in Injection(1..Len(q), Range(q))
    BY <1>1, <2>1 DEF Injection
  <2>3. q \in Surjection(1..Len(q), Range(q))
    BY <1>1, <1>3 DEF Surjection
  <2> QED BY <2>2, <2>3 DEF Bijection
<1>5. IsFiniteSet(1..Len(q)) /\ Cardinality(1..Len(q)) = Len(q)
  <2>1. Len(q) \in Nat /\ Len(q) \in Int /\ 1 \in Int
    OBVIOUS
  <2>2. /\ IsFiniteSet(1..Len(q))
        /\ Cardinality(1..Len(q)) = IF 1 > Len(q) THEN 0 ELSE Len(q) - 1 + 1
    BY <2>1, FS_Interval, Zenon
  <2> QED BY <2>1, <2>2
<1> QED BY <1>4, <1>5, FS_Bijection DEF ExistsBijection

-----------------------------------------------------------------------------
(* The beginning, and the steps of the sources *)

LEMMA InvInit == Init => IInv
<1> SUFFICES ASSUME Init PROVE IInv
  OBVIOUS
<1> USE SizesAssumption DEF Init, Ring!QInit, Pool!TInit
<1>1. /\ Range(queue) = {} /\ Holding = {} /\ Matched = {} /\ InDatabase = {}
      /\ Popped = {} /\ InHand = {}
  <2>1. \A s \in Sources : spc[s] \in {"loop", "read"}
    OBVIOUS
  <2>2. Holding = {}
    BY <2>1 DEF Holding
  <2>3. Range(queue) = {}
    BY DEF Range
  <2>4. Popped = {}
    BY DEF Popped
  <2> QED BY <2>2, <2>3, <2>4 DEF Matched, InDatabase, InHand
<1>2. TypeOK
  <2>1. /\ spc \in [Sources -> {"loop", "read", "push", "full", "commit", "exit"}]
        /\ entry \in [Sources -> Entry \cup {"none"}]
        /\ place \in [Sources -> 0..MaxLines]
    OBVIOUS
  <2>2. log \in Seq(Entry) /\ Len(log) = 0 /\ out \in Seq(Entry) /\ queue \in Seq(Positions)
    OBVIOUS
  <2>3. Cardinality(running) <= PoolSize
    BY FS_EmptySet
  <2>4. lines \in 0..MaxLines /\ lines = 0 /\ Len(out) = 0
    OBVIOUS
  <2>5. /\ matched \in [Positions -> {0, 1}] /\ stored \in [Positions -> {0, 1}]
        /\ disk \in [Positions -> {0, 1}]
    OBVIOUS
  <2>6. /\ Len(log) <= lines /\ Len(out) <= Len(log)
        /\ ready \subseteq 1..Len(log) /\ running \subseteq Positions
    BY <2>2, <2>4
  <2>7. /\ stop \in BOOLEAN /\ closed \in BOOLEAN
        /\ cpc \in {"loop", "pop", "dispatch", "drain", "handle", "done"}
        /\ mpc \in {"run", "network", "http", "pipeline", "watchers", "pool", "workers",
                    "tsdb", "exited"}
    OBVIOUS
  <2> HIDE DEF Init, Ring!QInit, Pool!TInit
  <2> QED BY <2>1, <2>2, <2>3, <2>4, <2>5, <2>6, <2>7 DEF TypeOK
<1>3. LinesCounted
  BY <1>1, FS_EmptySet DEF LinesCounted
<1>4. Placed /\ InOrder /\ Joined
  BY <1>1 DEF Placed, InOrder, Joined, Queued, Dispatched
<1> QED BY <1>2, <1>3, <1>4 DEF IInv

\* What the consumer, the workers and main own stays when a source makes a step.
LEMMA RestStays ==
    ASSUME Placed, InOrder, Joined,
           UNCHANGED <<out, cpc, queue, running, closed, matched, stored, disk, mpc>>
    PROVE  Placed' /\ InOrder' /\ Joined'
<1>1. /\ Popped' = Popped /\ InHand' = InHand /\ Queued' = Queued
      /\ Matched' = Matched /\ InDatabase' = InDatabase /\ Dispatched' = Dispatched
  BY DEF Popped, InHand, Queued, Matched, InDatabase, Dispatched
<1>2. Placed'
  BY <1>1 DEF Placed
<1>3. InOrder'
  BY <1>1 DEF InOrder
<1>4. Joined'
  BY DEF Joined
<1> QED BY <1>2, <1>3, <1>4

\* A source takes a line in hand, or gives it up, or keeps what it has.
LEMMA HoldingMoves ==
    ASSUME TypeOK, NEW s \in Sources, NEW l, spc' = [spc EXCEPT ![s] = l]
    PROVE  /\ l \in {"push", "full"} => Holding' = Holding \cup {s}
           /\ l \notin {"push", "full"} => Holding' = Holding \ {s}
BY DEF TypeOK, Holding

\* Every step of a source keeps the invariant: it takes a line before it reserves a
\* position for it.
LEMMA SourceKeeps ==
    ASSUME IInv, NEW s \in Sources, ReadLine(s) \/ ReadEnds(s) \/ SourceStep(s)
    PROVE  IInv'
<1> USE SizesAssumption DEF IInv
<1> DEFINE n == Cardinality(Holding)
<1>1. n \in Nat /\ IsFiniteSet(Holding) /\ Len(log) + n <= lines
  BY FS_CardinalityType DEF LinesCounted
<1>2. ASSUME UNCHANGED <<stop, lines, ringVars, cpc, poolVars, matched, stored, disk, mpc>>,
             UNCHANGED place,
             NEW l \in {"loop", "read", "push", "full", "exit"},
             spc' = [spc EXCEPT ![s] = l],
             l \in {"push", "full"} => s \in Holding,
             NEW e \in Entry \cup {"none"}, entry' = [entry EXCEPT ![s] = e],
             l \in {"push", "full"} => e # "none"
      PROVE  IInv'
  <2>1. Placed' /\ InOrder' /\ Joined'
    BY <1>2, RestStays DEF ringVars, poolVars
  <2>2. TypeOK'
    BY <1>2 DEF TypeOK, ringVars, poolVars
  <2>3. Holding' = Holding \/ Holding' = Holding \ {s}
    <3>1. CASE l \in {"push", "full"}
      <4>1. Holding' = Holding \cup {s}
        BY <1>2, <3>1, HoldingMoves
      <4> QED BY <1>2, <3>1, <4>1
    <3>2. CASE l \notin {"push", "full"}
      BY <1>2, <3>2, HoldingMoves
    <3> QED BY <3>1, <3>2
  <2>4. IsFiniteSet(Holding') /\ Cardinality(Holding') \in Nat /\ Cardinality(Holding') <= n
    <3>1. CASE Holding' = Holding
      BY <1>1, <3>1
    <3>2. CASE Holding' = Holding \ {s}
      <4>1. /\ IsFiniteSet(Holding \ {s})
            /\ Cardinality(Holding \ {s}) = IF s \in Holding THEN n - 1 ELSE n
        BY <1>1, FS_RemoveElement
      <4>2. Cardinality(Holding \ {s}) \in Nat
        BY <4>1, FS_CardinalityType
      <4> QED BY <1>1, <3>2, <4>1, <4>2
    <3> QED BY <2>3, <3>1, <3>2
  <2>5. \A t \in Holding' : entry'[t] # "none"
    BY <1>2 DEF LinesCounted, Holding, TypeOK
  <2>6. LinesCounted'
    BY <1>1, <1>2, <2>4, <2>5 DEF LinesCounted, ringVars, TypeOK
  <2> QED BY <2>1, <2>2, <2>6
<1>3. CASE ReadLine(s)
  <2>1. Placed' /\ InOrder' /\ Joined'
    BY <1>3, RestStays DEF ReadLine, SourceOnly, ringVars, poolVars
  <2>2. TypeOK'
    BY <1>3 DEF ReadLine, SourceOnly, Hold, Goto, TypeOK, ringVars, poolVars, Entry
  <2>3. s \notin Holding /\ Holding' = Holding \cup {s}
    BY <1>3, HoldingMoves DEF ReadLine, Goto, Holding
  <2>4. IsFiniteSet(Holding') /\ Cardinality(Holding') = n + 1
    BY <1>1, <2>3, FS_AddElement
  <2>5. lines \in Nat /\ lines' = lines + 1 /\ log' = log /\ Len(log) \in Nat
    BY <1>3 DEF ReadLine, SourceOnly, ringVars, TypeOK
  <2>6. \A t \in Holding' : entry'[t] # "none"
    BY <1>3, <2>3 DEF ReadLine, Hold, LinesCounted, TypeOK, Holding
  <2>7. LinesCounted'
    BY <1>1, <2>4, <2>5, <2>6 DEF LinesCounted
  <2> QED BY <2>1, <2>2, <2>7
<1>4. CASE PushReserves(s)
  <2>1. Placed' /\ InOrder' /\ Joined'
    BY <1>4, RestStays DEF PushReserves, Ring!Reserve, poolVars
  <2>2. s \in Holding /\ Holding' = Holding \ {s}
    <3>1. s \in Holding /\ spc' = [spc EXCEPT ![s] = "commit"]
      BY <1>4 DEF PushReserves, Goto, Holding
    <3>2. "commit" \notin {"push", "full"}
      OBVIOUS
    <3>3. Holding' = Holding \ {s}
      BY <3>1, <3>2, HoldingMoves, Zenon
    <3> QED BY <3>1, <3>3
  <2>3. IsFiniteSet(Holding') /\ Cardinality(Holding') = n - 1
    BY <1>1, <2>2, FS_RemoveElement
  <2>4. n # 0
    BY <1>1, <2>2, FS_EmptySet
  <2>5. entry[s] \in Entry
    BY <1>4, <2>2 DEF LinesCounted, TypeOK
  <2>6. log' \in Seq(Entry) /\ Len(log') = Len(log) + 1 /\ lines' = lines
    BY <1>4, <2>5 DEF PushReserves, Ring!Reserve, TypeOK
  <2>7. \A t \in Holding' : entry'[t] # "none"
    BY <1>4, <2>2 DEF PushReserves, Hold, LinesCounted, TypeOK, Holding
  <2>8. LinesCounted' /\ Len(log) + 1 <= lines
    BY <1>1, <2>3, <2>4, <2>6, <2>7 DEF LinesCounted, TypeOK
  <2>9. TypeOK'
    BY <1>4, <2>6, <2>8 DEF PushReserves, Ring!Reserve, Hold, Goto, TypeOK, poolVars
  <2> QED BY <2>1, <2>8, <2>9
<1>5. CASE PushCommits(s)
  <2>1. Placed' /\ InOrder' /\ Joined'
    BY <1>5, RestStays DEF PushCommits, Ring!Commit, poolVars
  <2>2. TypeOK'
    <3>1. spc' \in [Sources -> {"loop", "read", "push", "full", "commit", "exit"}]
      BY <1>5 DEF PushCommits, Goto, TypeOK
    <3>2. place' \in [Sources -> 0..MaxLines]
      BY <1>5 DEF PushCommits, TypeOK
    <3>3. ready' \subseteq 1..Len(log) /\ log' = log /\ out' = out
      BY <1>5 DEF PushCommits, Ring!Commit, TypeOK
    <3> QED BY <1>5, <3>1, <3>2, <3>3 DEF PushCommits, TypeOK, poolVars
  <2>3. Holding' = Holding
    BY <1>5, HoldingMoves DEF PushCommits, Goto, Holding
  <2>4. LinesCounted'
    BY <1>1, <1>5, <2>3 DEF PushCommits, Ring!Commit, LinesCounted, TypeOK
  <2> QED BY <2>1, <2>2, <2>4
<1>6. CASE SourceStops(s) \/ SourceGoesOn(s) \/ ReadEnds(s)
  <2>1. entry[s] \in Entry \cup {"none"} /\ entry' = [entry EXCEPT ![s] = entry[s]]
    BY <1>6 DEF SourceStops, SourceGoesOn, ReadEnds, TypeOK
  <2> QED BY <1>2, <1>6, <2>1 DEF SourceStops, SourceGoesOn, ReadEnds, SourceOnly, Goto
<1>7. CASE Retry(s)
  <2>1. s \in Holding /\ entry[s] # "none"
    BY <1>7 DEF Retry, Holding, LinesCounted
  <2>2. entry[s] \in Entry \cup {"none"} /\ entry' = [entry EXCEPT ![s] = entry[s]]
    BY <1>7 DEF Retry, TypeOK
  <2> QED BY <1>2, <1>7, <2>1, <2>2 DEF Retry, SourceOnly, Goto
<1>8. CASE PushFull(s)
  <2>1. s \in Holding
    BY <1>8 DEF PushFull, Holding
  <2>2. CASE Hold(s, "none") /\ Goto(s, "read")
    BY <1>2, <1>8, <2>1, <2>2 DEF PushFull, SourceOnly, Goto, Hold
  <2>3. CASE Hold(s, "blank") /\ Goto(s, "full")
    BY <1>2, <1>8, <2>1, <2>3 DEF PushFull, SourceOnly, Goto, Hold, Entry
  <2> QED BY <1>8, <2>2, <2>3 DEF PushFull
<1>9. CASE GiveUp(s)
  <2>1. PICK l \in {"loop", "read", "exit"} : spc' = [spc EXCEPT ![s] = l]
    <3>1. CASE s \in Watchers BY <1>9, <3>1 DEF GiveUp, Goto
    <3>2. CASE s \notin Watchers /\ s \in Clients BY <1>9, <3>2 DEF GiveUp, Goto
    <3>3. CASE s \notin Watchers \cup Clients BY <1>9, <3>3 DEF GiveUp, Goto
    <3> QED BY <3>1, <3>2, <3>3
  <2> QED BY <1>2, <1>9, <2>1 DEF GiveUp, SourceOnly, Hold
<1> QED BY <1>3, <1>4, <1>5, <1>6, <1>7, <1>8, <1>9 DEF SourceStep

-----------------------------------------------------------------------------
(* The consumer *)

\* What the sources and main own stays when the consumer or a worker makes a step.
LEMMA OthersStay ==
    ASSUME LinesCounted, UNCHANGED <<spc, entry, lines, log>>
    PROVE  LinesCounted'
BY DEF LinesCounted, Holding

\* The consumer takes the next entry, which was nowhere yet, in hand.
LEMMA PopKeeps ==
    ASSUME IInv, Pop
    PROVE  IInv'
<1> USE SizesAssumption DEF IInv
<1>1. /\ UNCHANGED <<stop, sourceVars, poolVars, matched, stored, disk, mpc, log, ready>>
      /\ cpc \in {"pop", "drain"} /\ cpc' = IF cpc = "pop" THEN "dispatch" ELSE "handle"
      /\ out' = Append(out, log[Len(out) + 1]) /\ Len(out) + 1 \in ready
  BY DEF Pop, Ring!Take, Ring!CanTake, Ring!Oldest
<1>2. Len(out) \in Nat /\ Len(out) + 1 \in Positions /\ Len(out) + 1 \in 1..Len(log)
  BY <1>1 DEF TypeOK, Positions
<1>3. out' \in Seq(Entry) /\ Len(out') = Len(out) + 1
  BY <1>1, <1>2 DEF TypeOK
<1>4. TypeOK'
  BY <1>1, <1>2, <1>3 DEF TypeOK, sourceVars, poolVars
<1>5. LinesCounted'
  BY <1>1, OthersStay DEF sourceVars
<1>6. /\ Queued' = Queued /\ Matched' = Matched /\ InDatabase' = InDatabase
      /\ Dispatched' = Dispatched /\ InHand = {} /\ InHand' = {Len(out) + 1}
      /\ Popped' = Popped \cup {Len(out) + 1} /\ Len(out) + 1 \notin Popped
  BY <1>1, <1>2, <1>3
  DEF Queued, Matched, InDatabase, Dispatched, InHand, Popped, poolVars
<1>7. Placed'
  BY <1>1, <1>6 DEF Placed, poolVars
<1>8. InOrder'
  BY <1>1, <1>6 DEF InOrder, poolVars
<1>9. Joined'
  BY <1>1 DEF Joined, poolVars
<1> QED BY <1>4, <1>5, <1>7, <1>8, <1>9

\* The entry in hand goes to the end of the pool's queue: the pool is open as long as
\* the consumer runs.
LEMMA DispatchKeeps ==
    ASSUME IInv, Dispatch
    PROVE  IInv'
<1> USE SizesAssumption DEF IInv
<1>1. /\ UNCHANGED <<stop, sourceVars, ringVars, matched, stored, disk, mpc, running, closed>>
      /\ cpc = "dispatch" /\ cpc' = "loop"
      /\ queue' = Append(queue, Len(out))
  BY DEF Dispatch, Joined, TypeOK, Pool!Accept, Pool!Refused
<1>2. InHand = {Len(out)} /\ InHand' = {} /\ Popped' = Popped
  BY <1>1 DEF InHand, Popped, ringVars
<1>3. Len(out) \in Popped /\ Len(out) \in Positions
  BY <1>2 DEF Placed, Popped, TypeOK, Positions
<1>4. Queued' = Queued \cup {Len(out)}
  BY <1>1, <1>3, AppendRange DEF Queued, TypeOK
<1>5. TypeOK'
  BY <1>1, <1>3 DEF TypeOK, sourceVars, ringVars
<1>6. LinesCounted'
  BY <1>1, OthersStay DEF sourceVars, ringVars
<1>7. /\ Matched' = Matched /\ InDatabase' = InDatabase
      /\ Dispatched' = Dispatched \cup {Len(out)}
  BY <1>1, <1>4 DEF Matched, InDatabase, Dispatched
<1>8. Placed'
  BY <1>1, <1>2, <1>4, <1>7 DEF Placed
<1>9. Joined'
  BY <1>1, <1>5 DEF Joined, TypeOK
<1>10. \A n \in Dispatched : n \in Popped /\ n < Len(out)
  <2>1. Dispatched \subseteq Popped \ InHand
    BY DEF Placed, InOrder, Dispatched
  <2> QED BY <1>2, <2>1 DEF Popped, TypeOK
<1>11. InOrder'
  <2>1. \A i, j \in 1..Len(queue') : i < j => queue'[i] < queue'[j]
    <3>1. SUFFICES ASSUME NEW i \in 1..Len(queue'), NEW j \in 1..Len(queue'), i < j
                   PROVE  queue'[i] < queue'[j]
      OBVIOUS
    <3>2. /\ Len(queue) \in Nat /\ Len(queue') = Len(queue) + 1 /\ i \in 1..Len(queue)
          /\ queue'[i] = queue[i] /\ queue'[Len(queue) + 1] = Len(out)
          /\ j \in 1..Len(queue) => queue'[j] = queue[j]
      BY <1>1, <3>1 DEF TypeOK
    <3>3. queue[i] \in Dispatched
      BY <3>2 DEF Dispatched, Queued, Range, TypeOK
    <3>4. CASE j \in 1..Len(queue)
      BY <3>1, <3>2, <3>4 DEF InOrder
    <3>5. CASE j = Len(queue) + 1
      BY <1>10, <3>2, <3>3, <3>5
    <3> QED BY <3>2, <3>4, <3>5
  <2>2. \A q \in Queued', n \in running' \cup InDatabase' : n < q
    BY <1>1, <1>4, <1>7, <1>10 DEF InOrder, Dispatched
  <2>3. 1..Len(out) \subseteq Dispatched'
    BY <1>1, <1>2, <1>7 DEF InOrder, Popped
  <2>4. \A n \in Dispatched' : 1..n \subseteq Dispatched'
    BY <1>7, <2>3 DEF InOrder
  <2>5. Popped' \ InHand' \subseteq Dispatched'
    BY <1>2, <2>3 DEF Popped
  <2> QED BY <1>1, <1>7, <2>1, <2>2, <2>4, <2>5 DEF InOrder
<1> QED BY <1>5, <1>6, <1>8, <1>9, <1>11

\* Every step of the consumer keeps the invariant.
LEMMA ConsumerKeeps ==
    ASSUME IInv, ConsumerStep
    PROVE  IInv'
<1> USE SizesAssumption DEF IInv
<1>1. ASSUME UNCHANGED <<stop, sourceVars, ringVars, poolVars, matched, stored, disk, mpc>>,
             cpc \in {"loop", "pop", "drain"},
             cpc' \in {"loop", "pop", "drain", "done"},
             cpc' \in {"loop", "pop"} => cpc \in {"loop", "pop"}
      PROVE  IInv'
  <2>1. /\ Queued' = Queued /\ Matched' = Matched /\ InDatabase' = InDatabase
        /\ Dispatched' = Dispatched /\ InHand = {} /\ InHand' = {} /\ Popped' = Popped
    BY <1>1 DEF Queued, Matched, InDatabase, Dispatched, InHand, Popped, poolVars, ringVars
  <2>2. TypeOK' /\ LinesCounted'
    BY <1>1, OthersStay DEF TypeOK, sourceVars, ringVars, poolVars
  <2>3. Placed'
    BY <1>1, <2>1 DEF Placed, poolVars
  <2>4. InOrder'
    BY <1>1, <2>1 DEF InOrder, poolVars
  <2>5. Joined'
    BY <1>1 DEF Joined, poolVars
  <2> QED BY <2>2, <2>3, <2>4, <2>5
<1>2. CASE ConsumerLoop
  BY <1>1, <1>2 DEF ConsumerLoop
<1>3. CASE PopNothing
  BY <1>1, <1>3 DEF PopNothing
<1>4. CASE HandleDrained
  <2>1. /\ UNCHANGED <<stop, sourceVars, ringVars, poolVars, stored, disk, mpc>>
        /\ cpc = "handle" /\ cpc' = "drain"
        /\ matched' = [matched EXCEPT ![Len(out)] = @ + 1]
    BY <1>4 DEF HandleDrained
  <2>2. InHand = {Len(out)} /\ InHand' = {} /\ Popped' = Popped
    BY <2>1 DEF InHand, Popped, ringVars
  <2>3. Len(out) \in Popped /\ Len(out) \in Positions /\ Len(out) \notin Matched
    BY <2>2 DEF Placed, Popped, TypeOK, Positions
  <2>4. matched[Len(out)] = 0
    BY <2>3 DEF Matched, TypeOK
  <2>5. matched' \in [Positions -> {0, 1}] /\ Matched' = Matched \cup {Len(out)}
    BY <2>1, <2>3, <2>4 DEF Matched, TypeOK
  <2>6. TypeOK' /\ LinesCounted'
    BY <2>1, <2>5, OthersStay DEF TypeOK, sourceVars, ringVars, poolVars
  <2>7. Queued' = Queued /\ InDatabase' = InDatabase /\ Dispatched' = Dispatched
    BY <2>1 DEF Queued, InDatabase, Dispatched, poolVars
  <2>8. Placed'
    BY <2>1, <2>2, <2>5, <2>7 DEF Placed, poolVars
  <2>9. InOrder'
    BY <2>1, <2>5, <2>7 DEF InOrder, poolVars
  <2>10. Joined'
    BY <2>1 DEF Joined, poolVars
  <2> QED BY <2>6, <2>8, <2>9, <2>10
<1> QED BY <1>2, <1>3, <1>4, PopKeeps, DispatchKeeps DEF ConsumerStep

-----------------------------------------------------------------------------
(* The workers *)

\* A worker starts the oldest task of the queue, which comes after all that run or are
\* stored.
LEMMA StartKeeps ==
    ASSUME IInv, StartTask
    PROVE  IInv'
<1> USE SizesAssumption DEF IInv
<1> DEFINE h == Head(queue)
<1>1. /\ UNCHANGED <<stop, sourceVars, ringVars, cpc, matched, stored, disk, mpc, closed>>
      /\ queue # <<>> /\ queue' = Tail(queue)
      /\ running' = running \cup {h} /\ Cardinality(running) < PoolSize
  <2>1. UNCHANGED <<stop, sourceVars, ringVars, cpc, matched, stored, disk, mpc>>
    BY DEF StartTask
  <2>2. queue # <<>> /\ Cardinality(running) < PoolSize
    BY DEF StartTask, Pool!Start, Pool!Cardinality, Cardinality
  <2>3. UNCHANGED closed /\ queue' = Tail(queue) /\ running' = running \cup {h}
    BY DEF StartTask, Pool!Start
  <2> QED BY <2>1, <2>2, <2>3
<1>2. /\ h \in Positions /\ queue' \in Seq(Positions)
      /\ Queued = {h} \cup Queued'
  BY <1>1, TailRange DEF TypeOK, Queued
<1>3. /\ Len(queue) \in Nat /\ Len(queue') = Len(queue) - 1 /\ queue[1] = h
      /\ DOMAIN queue' = 1..Len(queue')
      /\ \A i \in 1..Len(queue') : i + 1 \in 1..Len(queue) /\ queue'[i] = queue[i + 1]
  BY <1>1 DEF TypeOK
<1>4. \A q \in Queued' : h < q
  <2>1. SUFFICES ASSUME NEW i \in 1..Len(queue') PROVE h < queue'[i]
    BY <1>3 DEF Queued, Range
  <2>2. 1 \in 1..Len(queue) /\ i + 1 \in 1..Len(queue) /\ 1 < i + 1
    BY <1>3
  <2> QED BY <1>3, <2>2 DEF InOrder
<1>5. TypeOK'
  <2>1. IsFiniteSet(running)
    <3>1. IsFiniteSet(Positions)
      BY FS_Interval DEF Positions
    <3> QED BY <3>1, FS_Subset DEF TypeOK
  <2>2. /\ Cardinality(running) \in Nat
        /\ Cardinality(running \cup {h}) =
              IF h \in running THEN Cardinality(running) ELSE Cardinality(running) + 1
    BY <2>1, FS_AddElement, FS_CardinalityType, Zenon
  <2>3. Cardinality(running') <= PoolSize
    BY <1>1, <2>2
  <2> HIDE DEF h
  <2> QED BY <1>1, <1>2, <2>3 DEF TypeOK, sourceVars, ringVars
<1>6. LinesCounted'
  BY <1>1, OthersStay DEF sourceVars, ringVars
<1>7. /\ Matched' = Matched /\ InDatabase' = InDatabase /\ Popped' = Popped
      /\ InHand' = InHand /\ Dispatched' = Dispatched
  BY <1>1, <1>2 DEF Matched, InDatabase, Dispatched, Popped, InHand, ringVars
<1>8. h \notin Queued'
  BY <1>2, <1>4 DEF Positions
<1>9. Placed'
  BY <1>1, <1>2, <1>7, <1>8 DEF Placed
<1>10. InOrder'
  <2>1. \A i, j \in 1..Len(queue') : i < j => queue'[i] < queue'[j]
    <3>1. SUFFICES ASSUME NEW i \in 1..Len(queue'), NEW j \in 1..Len(queue'), i < j
                   PROVE  queue'[i] < queue'[j]
      OBVIOUS
    <3>2. i + 1 < j + 1 /\ i + 1 \in 1..Len(queue) /\ j + 1 \in 1..Len(queue)
      BY <1>3, <3>1
    <3> QED BY <1>3, <3>2 DEF InOrder
  <2>2. \A q \in Queued', n \in running' \cup InDatabase' : n < q
    BY <1>1, <1>2, <1>4, <1>7 DEF InOrder
  <2>3. InDatabase' \subseteq Matched' \ running'
    BY <1>1, <1>2, <1>7 DEF InOrder, Placed
  <2> QED BY <1>1, <1>7, <2>1, <2>2, <2>3 DEF InOrder
<1>11. Joined'
  BY <1>1 DEF Joined
<1> QED BY <1>5, <1>6, <1>9, <1>10, <1>11

\* process_entry matches an entry that a worker has and that was not matched before.
LEMMA MatchKeeps ==
    ASSUME IInv, NEW n \in Positions, Match(n)
    PROVE  IInv'
<1> USE SizesAssumption DEF IInv
<1>1. /\ UNCHANGED <<stop, sourceVars, ringVars, cpc, poolVars, stored, disk, mpc>>
      /\ n \in running /\ matched[n] = 0 /\ matched' = [matched EXCEPT ![n] = @ + 1]
  BY DEF Match
<1>2. matched' \in [Positions -> {0, 1}] /\ Matched' = Matched \cup {n}
  BY <1>1 DEF Matched, TypeOK
<1>3. TypeOK' /\ LinesCounted'
  BY <1>1, <1>2, OthersStay DEF TypeOK, sourceVars, ringVars, poolVars
<1>4. /\ Queued' = Queued /\ InDatabase' = InDatabase /\ Popped' = Popped
      /\ InHand' = InHand /\ Dispatched' = Dispatched
  BY <1>1 DEF Queued, InDatabase, Dispatched, Popped, InHand, ringVars, poolVars
<1>5. Placed'
  BY <1>1, <1>2, <1>4 DEF Placed, poolVars
<1>6. InOrder'
  <2>1. n \notin InDatabase
    BY <1>1 DEF InOrder
  <2> QED BY <1>1, <1>2, <1>4, <2>1 DEF InOrder, poolVars
<1>7. Joined'
  BY <1>1 DEF Joined, poolVars
<1> QED BY <1>3, <1>5, <1>6, <1>7

\* The callback stores an entry that a worker has and that was not stored before.
LEMMA StoreKeeps ==
    ASSUME IInv, NEW n \in Positions, Store(n)
    PROVE  IInv'
<1> USE SizesAssumption DEF IInv
<1>1. /\ UNCHANGED <<stop, sourceVars, ringVars, cpc, matched, disk, mpc, queue, closed>>
      /\ n \in running /\ matched[n] = 1
      /\ stored' = [stored EXCEPT ![n] = @ + 1] /\ running' = running \ {n}
  BY DEF Store, Pool!Complete
<1>2. stored[n] = 0
  BY <1>1 DEF InOrder, InDatabase, TypeOK
<1>3. stored' \in [Positions -> {0, 1}] /\ InDatabase' = InDatabase \cup {n} /\ n \in Matched
  BY <1>1, <1>2 DEF InDatabase, Matched, TypeOK
<1>4. TypeOK'
  <2>1. IsFiniteSet(running)
    <3>1. IsFiniteSet(Positions)
      BY FS_Interval DEF Positions
    <3> QED BY <3>1, FS_Subset DEF TypeOK
  <2>2. /\ Cardinality(running) \in Nat
        /\ Cardinality(running \ {n}) =
              IF n \in running THEN Cardinality(running) - 1 ELSE Cardinality(running)
    BY <2>1, FS_RemoveElement, FS_CardinalityType, Zenon
  <2>3. Cardinality(running') <= PoolSize
    BY <1>1, <2>2 DEF TypeOK
  <2> QED BY <1>1, <1>3, <2>3 DEF TypeOK, sourceVars, ringVars
<1>5. LinesCounted'
  BY <1>1, OthersStay DEF sourceVars, ringVars
<1>6. /\ Queued' = Queued /\ Matched' = Matched /\ Popped' = Popped
      /\ InHand' = InHand /\ Dispatched' = Dispatched
  BY <1>1, <1>3 DEF Queued, Matched, Dispatched, Popped, InHand, ringVars
<1>7. Placed'
  BY <1>1, <1>3, <1>6 DEF Placed
<1>8. InOrder'
  BY <1>1, <1>3, <1>6 DEF InOrder
<1>9. Joined'
  BY <1>1 DEF Joined
<1> QED BY <1>4, <1>5, <1>7, <1>8, <1>9

-----------------------------------------------------------------------------
(* main *)

\* Every step of main keeps the invariant: it closes the pool when the consumer is done,
\* and saves the database when the pool is empty.
LEMMA MainKeeps ==
    ASSUME IInv, Signal \/ MainStep
    PROVE  IInv'
<1> USE SizesAssumption DEF IInv, MainOnly, MainGoes
<1>1. UNCHANGED <<sourceVars, ringVars, cpc, matched, stored, queue, running>>
  BY DEF Signal, MainStep, BeginShutdown, StopNetwork, StopHttp, JoinPipeline, JoinWatchers,
         ClosePool, JoinWorkers, StopTsdb, Pool!Close, poolVars
<1>2. /\ Queued' = Queued /\ Matched' = Matched /\ InDatabase' = InDatabase
      /\ Dispatched' = Dispatched /\ Popped' = Popped /\ InHand' = InHand
  BY <1>1 DEF Queued, Matched, InDatabase, Dispatched, Popped, InHand, ringVars
<1>3. LinesCounted' /\ Placed'
  BY <1>1, <1>2, OthersStay DEF Placed, sourceVars, ringVars
<1>4. InOrder'
  BY <1>1, <1>2 DEF InOrder
<1>5. TypeOK'
  BY <1>1
  DEF TypeOK, Signal, MainStep, BeginShutdown, StopNetwork, StopHttp, JoinPipeline,
      JoinWatchers, ClosePool, JoinWorkers, StopTsdb, Pool!Close, poolVars, sourceVars, ringVars
<1>6. Joined'
  <2>1. CASE Signal \/ BeginShutdown \/ StopNetwork \/ StopHttp
    BY <1>1, <2>1 DEF Joined, Signal, BeginShutdown, StopNetwork, StopHttp, poolVars
  <2>2. CASE JoinPipeline \/ JoinWatchers
    BY <1>1, <2>2 DEF Joined, JoinPipeline, JoinWatchers, poolVars
  <2>3. CASE ClosePool
    BY <1>1, <2>3 DEF Joined, ClosePool, Pool!Close
  <2>4. CASE JoinWorkers
    BY <1>1, <2>4 DEF Joined, JoinWorkers, Pool!Drained, poolVars
  <2>5. CASE StopTsdb
    BY <1>1, <2>5 DEF Joined, StopTsdb, poolVars
  <2> QED BY <2>1, <2>2, <2>3, <2>4, <2>5 DEF MainStep
<1> QED BY <1>3, <1>4, <1>5, <1>6

-----------------------------------------------------------------------------
(* The theorems *)

LEMMA InvNext == IInv /\ [Next]_vars => IInv'
<1> SUFFICES ASSUME IInv, [Next]_vars PROVE IInv'
  OBVIOUS
<1>1. CASE UNCHANGED vars
  <2>1. UNCHANGED <<stop, spc, entry, place, lines, log, ready, out, cpc, queue, running,
                    closed, matched, stored, disk, mpc>>
    BY <1>1 DEF vars, sourceVars, ringVars, poolVars
  <2>2. TypeOK' /\ LinesCounted'
    BY <2>1, OthersStay DEF IInv, TypeOK
  <2> QED BY <2>1, <2>2, RestStays DEF IInv
<1>2. CASE Next
  BY <1>1, <1>2, SourceKeeps, ConsumerKeeps, StartKeeps, MatchKeeps, StoreKeeps, MainKeeps
  DEF Next, WorkerStep, Exited
<1> QED BY <1>1, <1>2

\* Every behaviour of the pipeline satisfies the inductive invariant, and so the types.
THEOREM InvCorrect == Spec => []IInv
<1>1. Init => IInv
  BY InvInit
<1>2. IInv /\ [Next]_vars => IInv'
  BY InvNext
<1> QED BY <1>1, <1>2, PTL DEF Spec

\* Every entry the consumer pops is in one place only and matched once, and none is
\* dropped by a closed pool, for all numbers of sources, slots, workers and lines.
THEOREM NoEntryLost == Spec => []EachEntryOnce
<1>1. IInv => EachEntryOnce
  <2>1. SUFFICES ASSUME IInv PROVE Cardinality(Queued) = Len(queue)
    BY DEF IInv, EachEntryOnce
  <2>2. queue \in Seq(Nat)
    BY <2>1, SizesAssumption DEF IInv, TypeOK, Positions
  <2> QED BY <2>1, <2>2, IncreasingCounts DEF IInv, InOrder, Queued
<1> QED BY <1>1, InvCorrect, PTL

\* When an entry is stored, fewer than PoolSize entries before it are not: those that
\* the other workers have at that moment.
THEOREM StoresAlmostInOrder == Spec => []StoredAlmostInOrder
<1> DEFINE Missing(n) == {m \in 1..(n - 1) : stored[m] = 0}
<1>1. Init => StoredAlmostInOrder
  BY DEF Init, StoredAlmostInOrder
<1>2. IInv /\ StoredAlmostInOrder /\ [Next]_vars => StoredAlmostInOrder'
  <2>1. SUFFICES ASSUME IInv, StoredAlmostInOrder, [Next]_vars PROVE StoredAlmostInOrder'
    OBVIOUS
  <2>2. CASE stored' = stored
    BY <2>1, <2>2 DEF StoredAlmostInOrder
  <2>3. ASSUME NEW k \in Positions, Store(k) PROVE StoredAlmostInOrder'
    <3>1. /\ k \in running /\ stored' = [stored EXCEPT ![k] = @ + 1]
      BY <2>3 DEF Store, Pool!Complete
    <3>2. stored \in [Positions -> {0, 1}] /\ stored[k] = 0 /\ Positions \subseteq Nat
      <4>1. stored \in [Positions -> {0, 1}] /\ k \notin InDatabase
        BY <2>1, <3>1 DEF IInv, TypeOK, InOrder
      <4>2. Positions \subseteq Nat
        BY SizesAssumption DEF Positions
      <4> QED BY <4>1, <4>2 DEF InDatabase
    <3>3. IsFiniteSet(running) /\ Cardinality(running) \in Nat /\ Cardinality(running) <= PoolSize
      <4>1. IsFiniteSet(Positions)
        BY FS_Interval, SizesAssumption DEF Positions
      <4> QED BY <2>1, <4>1, FS_Subset, FS_CardinalityType DEF IInv, TypeOK
    <3>4. SUFFICES ASSUME NEW n \in Positions, stored'[n] = 1
                   PROVE  Cardinality(Missing(n)') < PoolSize
      BY DEF StoredAlmostInOrder
    <3>5. 1..(n - 1) \subseteq Positions
      BY SizesAssumption DEF Positions
    <3>6. Missing(n)' \subseteq Missing(n)
      BY <3>1, <3>2, <3>5
    <3>7. CASE n # k
      <4>1. stored[n] = 1
        BY <3>1, <3>2, <3>4, <3>7
      <4>2. Cardinality(Missing(n)) < PoolSize
        BY <2>1, <4>1 DEF StoredAlmostInOrder
      <4>3. IsFiniteSet(Missing(n))
        <5>1. IsFiniteSet(1..(n - 1))
          BY <3>2, FS_Interval
        <5> QED BY <5>1, FS_Subset
      <4>4. /\ Cardinality(Missing(n)) \in Nat /\ Cardinality(Missing(n)') \in Nat
            /\ Cardinality(Missing(n)') <= Cardinality(Missing(n))
        <5> HIDE DEF Missing
        <5> QED BY <3>6, <4>3, FS_Subset, FS_CardinalityType
      <4> HIDE DEF Missing
      <4> QED BY <4>2, <4>4, SizesAssumption
    <3>8. CASE n = k
      <4>1. Missing(n)' \subseteq running \ {k}
        <5>1. SUFFICES ASSUME NEW m \in 1..(n - 1), stored'[m] = 0 PROVE m \in running \ {k}
          OBVIOUS
        <5>2. m < k /\ m \in 1..k /\ m \in Positions
          BY <3>2, <3>5, <3>8
        <5>3. stored[m] = 0
          BY <3>1, <3>2, <5>1, <5>2
        <5>4. m \in Dispatched
          BY <2>1, <3>1, <5>2 DEF IInv, InOrder, Dispatched
        <5>5. m \notin Queued
          BY <2>1, <3>1, <3>2, <5>2 DEF IInv, InOrder
        <5> QED BY <3>2, <5>2, <5>3, <5>4, <5>5 DEF Dispatched, InDatabase
      <4>2. /\ IsFiniteSet(running \ {k})
            /\ Cardinality(running \ {k}) =
                  IF k \in running THEN Cardinality(running) - 1 ELSE Cardinality(running)
        BY <3>3, FS_RemoveElement, Zenon
      <4>3. /\ Cardinality(running \ {k}) \in Nat /\ Cardinality(Missing(n)') \in Nat
            /\ Cardinality(Missing(n)') <= Cardinality(running \ {k})
        <5> HIDE DEF Missing
        <5> QED BY <4>1, <4>2, FS_Subset, FS_CardinalityType
      <4> HIDE DEF Missing
      <4> QED BY <3>1, <3>3, <4>2, <4>3, SizesAssumption
    <3> QED BY <3>7, <3>8
  <2>4. stored' = stored \/ \E k \in Positions : Store(k)
    BY <2>1
    DEF Next, vars, ReadLine, ReadEnds, SourceStep, SourceStops, SourceGoesOn, PushReserves,
        PushFull, GiveUp, Retry, PushCommits, SourceOnly, ConsumerStep, ConsumerLoop, Pop,
        PopNothing, Dispatch, HandleDrained, StartTask, WorkerStep, Match, Signal, MainStep,
        BeginShutdown, StopNetwork, StopHttp, JoinPipeline, JoinWatchers, ClosePool,
        JoinWorkers, StopTsdb, MainGoes, MainOnly, Exited
  <2> QED BY <2>2, <2>3, <2>4
<1> QED BY <1>1, <1>2, InvCorrect, PTL DEF Spec

\* When main returns, everything that was popped was matched, what went to the pool is
\* stored, and what is stored is on disk.
THEOREM ExitsClean == Spec => []CleanExit
<1>1. IInv => CleanExit
  <2>1. SUFFICES ASSUME IInv, mpc = "exited" PROVE CleanExit
    BY DEF CleanExit
  <2>2. /\ cpc = "done" /\ queue = <<>> /\ running = {} /\ disk = stored
    BY <2>1 DEF IInv, Joined
  <2>3. InHand = {} /\ Queued = {}
    BY <2>2 DEF InHand, Queued, Range
  <2>4. \A n \in Popped : matched[n] = 1
    BY <2>1, <2>2, <2>3 DEF IInv, Placed, Matched
  <2>5. Dispatched = InDatabase
    BY <2>2, <2>3 DEF Dispatched
  <2>6. \A n \in Positions : stored[n] = 1 => \A m \in 1..n : stored[m] = 1
    BY <2>1, <2>5 DEF IInv, InOrder, InDatabase
  <2> QED BY <2>2, <2>4, <2>6 DEF CleanExit
<1> QED BY <1>1, InvCorrect, PTL
=============================================================================

----------------------------- MODULE RingBuffer -----------------------------
(***************************************************************************)
(* The lock-free ring buffer of src/RingBuffer.hpp: many producers call    *)
(* try_push, one consumer calls try_pop, with one action for each atomic   *)
(* access or access to a slot's storage.                                   *)
(*                                                                         *)
(* Slot n % Capacity is free for position n while its sequence number is   *)
(* n, and holds the published item of position n while it is n + 1.        *)
(*                                                                         *)
(* Loads of head_ are relaxed.  A thread may therefore read an old value   *)
(* of it, but never one older than it has read before; the address of the  *)
(* slot depends on the value read, so the load of the sequence number      *)
(* comes after it and returns the slot's current value.  A failing         *)
(* compare_exchange_weak may also fail for no reason.                      *)
(***************************************************************************)
EXTENDS Integers, Sequences, FiniteSets

CONSTANTS
    Producers,  \* the threads that call try_push
    Capacity,   \* the template parameter
    MaxCalls,   \* bound: how often each producer calls try_push
    Empty       \* storage in which no item is alive

\* The two static_asserts on Capacity (a power of two, 1 included).
ASSUME CapacityAssumption ==
    /\ Capacity \in Nat \ {0}
    /\ \E k \in 0..Capacity : Capacity = 2^k

ASSUME CallsAssumption == MaxCalls \in Nat

\* The k-th call of producer p pushes the item <<p, k>>.
Item == Producers \X (1..MaxCalls)

ASSUME EmptyAssumption == Empty \notin Item

VARIABLES
    head,       \* head_: the next position to claim
    tail,       \* tail_: the next position to pop
    seq,        \* slots_[i].sequence
    cell,       \* slots_[i].storage: the item alive in it, or Empty
    pc,         \* where each producer is in try_push
    pos,        \* each producer's pos, the newest value of head_ it has read
    val,        \* each producer's argument
    calls,      \* how often each producer has called try_push
    cpc,        \* where the consumer is in try_pop
    cval,       \* the consumer's local value
    claimed,    \* history: the items in the order in which their CAS succeeded
    popped      \* history: the items whose slots the consumer has recycled

producerVars == <<pc, pos, val, calls>>
consumerVars == <<tail, cpc, cval, popped>>
vars == <<head, seq, cell, claimed, producerVars, consumerVars>>

Slot(n) == n % Capacity

Init ==
    /\ head = 0
    /\ tail = 0
    /\ seq = [i \in 0..Capacity - 1 |-> i]
    /\ cell = [i \in 0..Capacity - 1 |-> Empty]
    /\ pc = [p \in Producers |-> "idle"]
    /\ pos = [p \in Producers |-> 0]
    /\ val = [p \in Producers |-> Empty]
    /\ calls = [p \in Producers |-> 0]
    /\ cpc = "idle"
    /\ cval = Empty
    /\ claimed = <<>>
    /\ popped = <<>>

-----------------------------------------------------------------------------
(* try_push *)

Goto(p, label) == pc' = [pc EXCEPT ![p] = label]

\* The call, and the relaxed load of head_.
PushCall(p) ==
    /\ pc[p] = "idle"
    /\ calls[p] < MaxCalls
    /\ calls' = [calls EXCEPT ![p] = @ + 1]
    /\ val' = [val EXCEPT ![p] = <<p, calls[p] + 1>>]
    /\ \E h \in pos[p]..head : pos' = [pos EXCEPT ![p] = h]
    /\ Goto(p, "load")
    /\ UNCHANGED <<head, seq, cell, claimed, consumerVars>>

\* Mutant: goes for the CAS without looking at the slot's sequence number.
PushSlotUnchecked(p) ==
    /\ pc[p] = "load"
    /\ Goto(p, "cas")
    /\ UNCHANGED <<head, seq, cell, claimed, pos, val, calls, consumerVars>>

\* The slot is free for our position: try to claim it.
PushSlotFree(p) ==
    /\ pc[p] = "load"
    /\ seq[Slot(pos[p])] = pos[p]
    /\ Goto(p, "cas")
    /\ UNCHANGED <<head, seq, cell, claimed, pos, val, calls, consumerVars>>

\* The slot still belongs to the previous lap: return false.
PushFull(p) ==
    /\ pc[p] = "load"
    /\ seq[Slot(pos[p])] < pos[p]
    /\ Goto(p, "idle")
    /\ UNCHANGED <<head, seq, cell, claimed, pos, val, calls, consumerVars>>

\* Another producer has published at our position: load head_ again.  The
\* acquire load that showed it the publication makes that producer's CAS visible.
PushReload(p) ==
    /\ pc[p] = "load"
    /\ seq[Slot(pos[p])] > pos[p]
    /\ \E h \in (pos[p] + 1)..head : pos' = [pos EXCEPT ![p] = h]
    /\ UNCHANGED <<head, seq, cell, claimed, pc, val, calls, consumerVars>>

\* Mutant: publishes the slot together with the claim, before it holds the item.
PushCasPublishes(p) ==
    /\ pc[p] = "cas"
    /\ head = pos[p]
    /\ head' = head + 1
    /\ claimed' = Append(claimed, val[p])
    /\ seq' = [seq EXCEPT ![Slot(pos[p])] = pos[p] + 1]
    /\ Goto(p, "construct")
    /\ UNCHANGED <<cell, pos, val, calls, consumerVars>>

\* compare_exchange_weak succeeds: the position is ours.
PushCas(p) ==
    /\ pc[p] = "cas"
    /\ head = pos[p]
    /\ head' = head + 1
    /\ claimed' = Append(claimed, val[p])
    /\ Goto(p, "construct")
    /\ UNCHANGED <<seq, cell, pos, val, calls, consumerVars>>

\* compare_exchange_weak fails, perhaps spuriously, and stores what it read in pos.
PushCasFails(p) ==
    /\ pc[p] = "cas"
    /\ \E h \in pos[p]..head : pos' = [pos EXCEPT ![p] = h]
    /\ Goto(p, "load")
    /\ UNCHANGED <<head, seq, cell, claimed, val, calls, consumerVars>>

\* Construct the item in the slot's storage.
PushConstruct(p) ==
    /\ pc[p] = "construct"
    /\ cell' = [cell EXCEPT ![Slot(pos[p])] = val[p]]
    /\ Goto(p, "publish")
    /\ UNCHANGED <<head, seq, claimed, pos, val, calls, consumerVars>>

\* Mutant: stores pos, the value the slot already has.
PushPublishSame(p) ==
    /\ pc[p] = "publish"
    /\ seq' = [seq EXCEPT ![Slot(pos[p])] = pos[p]]
    /\ Goto(p, "idle")
    /\ UNCHANGED <<head, cell, claimed, pos, val, calls, consumerVars>>

\* Publish it with a release store and return true.
PushPublish(p) ==
    /\ pc[p] = "publish"
    /\ seq' = [seq EXCEPT ![Slot(pos[p])] = pos[p] + 1]
    /\ Goto(p, "idle")
    /\ UNCHANGED <<head, cell, claimed, pos, val, calls, consumerVars>>

-----------------------------------------------------------------------------
(* try_pop *)

\* Mutant: gives the slot back before the item has been moved out of it.
PopReadyRecycles ==
    /\ cpc = "idle"
    /\ seq[Slot(tail)] = tail + 1
    /\ seq' = [seq EXCEPT ![Slot(tail)] = tail + Capacity]
    /\ cpc' = "move"
    /\ UNCHANGED <<head, cell, claimed, producerVars, tail, cval, popped>>

\* The item at tail_ is published.
PopReady ==
    /\ cpc = "idle"
    /\ seq[Slot(tail)] = tail + 1
    /\ cpc' = "move"
    /\ UNCHANGED <<head, seq, cell, claimed, producerVars, tail, cval, popped>>

\* It is not: return nullopt.
PopEmpty ==
    /\ cpc = "idle"
    /\ seq[Slot(tail)] # tail + 1
    /\ UNCHANGED vars

\* Move the item out and destroy what is left in the storage.
PopMove ==
    /\ cpc = "move"
    /\ cval' = cell[Slot(tail)]
    /\ cell' = [cell EXCEPT ![Slot(tail)] = Empty]
    /\ cpc' = "recycle"
    /\ UNCHANGED <<head, seq, claimed, producerVars, tail, popped>>

\* Mutant: an off-by-one in the recycled sequence number.
PopRecycleShort ==
    /\ cpc = "recycle"
    /\ seq' = [seq EXCEPT ![Slot(tail)] = tail + Capacity - 1]
    /\ popped' = Append(popped, cval)
    /\ cpc' = "advance"
    /\ UNCHANGED <<head, cell, claimed, producerVars, tail, cval>>

\* Give the slot back to the producers, for the position one lap later.
PopRecycle ==
    /\ cpc = "recycle"
    /\ seq' = [seq EXCEPT ![Slot(tail)] = tail + Capacity]
    /\ popped' = Append(popped, cval)
    /\ cpc' = "advance"
    /\ UNCHANGED <<head, cell, claimed, producerVars, tail, cval>>

\* ++tail_, and return the item.
PopAdvance ==
    /\ cpc = "advance"
    /\ tail' = tail + 1
    /\ cpc' = "idle"
    /\ UNCHANGED <<head, seq, cell, claimed, producerVars, cval, popped>>

-----------------------------------------------------------------------------
Push(p) ==
    \/ PushCall(p)
    \/ PushSlotFree(p)
    \/ PushFull(p)
    \/ PushReload(p)
    \/ PushCas(p)
    \/ PushCasFails(p)
    \/ PushConstruct(p)
    \/ PushPublish(p)

Pop == PopReady \/ PopEmpty \/ PopMove \/ PopRecycle \/ PopAdvance

Next == (\E p \in Producers : Push(p)) \/ Pop

Spec == Init /\ [][Next]_vars

\* A producer past its CAS runs straight-line code, and the pipeline thread
\* calls try_pop in a loop.  Nothing is assumed of a producer before its CAS.
Fairness ==
    /\ WF_vars(Pop)
    /\ \A p \in Producers : WF_vars(PushConstruct(p)) /\ WF_vars(PushPublish(p))

FairSpec == Spec /\ Fairness

-----------------------------------------------------------------------------
(* Properties *)

\* The types, and that no producer holds a position head_ has not reached.
TypeOK ==
    /\ head \in Nat
    /\ tail \in Nat
    /\ seq \in [0..Capacity - 1 -> Nat]
    /\ cell \in [0..Capacity - 1 -> Item \cup {Empty}]
    /\ pc \in [Producers -> {"idle", "load", "cas", "construct", "publish"}]
    /\ pos \in [Producers -> 0..head]
    /\ val \in [Producers -> Item \cup {Empty}]
    /\ calls \in [Producers -> 0..MaxCalls]
    /\ cpc \in {"idle", "move", "recycle", "advance"}
    /\ cval \in Item \cup {Empty}
    /\ claimed \in Seq(Item \cup {Empty})
    /\ popped \in Seq(Item \cup {Empty})

\* A producer that has claimed a position and not yet published it.
Holds(p) == pc[p] \in {"construct", "publish"}

\* Position n is claimed and its producer is done with it.
Published(n) == n < head /\ \A p \in Producers : Holds(p) => pos[p] # n

Done == Len(popped)

\* The claimed positions not yet recycled fit in one lap, and tail_ lags behind
\* the recycled slots only between the two statements that end try_pop.
WindowInv ==
    /\ Done <= head
    /\ head <= Done + Capacity
    /\ Len(claimed) = head
    /\ claimed \in Seq(Item)
    /\ cpc = "advance" => Done = tail + 1
    /\ cpc # "advance" => Done = tail

\* A position has one owner at most, its slot is still marked free, and the
\* owner alone knows what is in the storage.
OwnerInv ==
    \A p \in Producers :
        /\ pc[p] # "idle" => val[p] \in Item
        /\ pc[p] = "cas" => seq[Slot(pos[p])] >= pos[p]
        /\ Holds(p) =>
              /\ Done <= pos[p] /\ pos[p] < head
              /\ seq[Slot(pos[p])] = pos[p]
              /\ val[p] = claimed[pos[p] + 1]
              /\ \A q \in Producers \ {p} : Holds(q) => pos[q] # pos[p]
        /\ pc[p] = "construct" => cell[Slot(pos[p])] = Empty
        /\ pc[p] = "publish" => cell[Slot(pos[p])] = val[p]

\* What the slots of the current lap hold.
SlotInv ==
    /\ \A n \in Done..head - 1 : Published(n) =>
          /\ seq[Slot(n)] = n + 1
          /\ ~(cpc = "recycle" /\ n = tail) => cell[Slot(n)] = claimed[n + 1]
    /\ \A n \in head..Done + Capacity - 1 :
          /\ seq[Slot(n)] = n
          /\ cell[Slot(n)] = Empty

\* What the consumer is working on.
ConsumerInv ==
    /\ cpc \in {"move", "recycle"} => Published(tail)
    /\ cpc = "recycle" => cval = claimed[tail + 1] /\ cell[Slot(tail)] = Empty

\* The storage of a slot is plain memory: while a producer constructs an item
\* in it, no other producer does, and the consumer is not moving one out
\* (RingBuffer.hpp:80 and :110 are ordered by the sequence numbers alone).
NoStorageRace ==
    \A p \in Producers : pc[p] = "construct" =>
        /\ \A q \in Producers \ {p} :
              pc[q] = "construct" => Slot(pos[q]) # Slot(pos[p])
        /\ cpc = "move" => Slot(tail) # Slot(pos[p])

\* Storage is constructed only when no item is alive in it, and an item is moved
\* out only where one is: nothing is overwritten unread, leaked or read twice.
StorageLifecycle ==
    /\ \A p \in Producers : pc[p] = "construct" => cell[Slot(pos[p])] = Empty
    /\ cpc = "move" => cell[Slot(tail)] # Empty

\* try_pop returns the items in the order in which try_push claimed their
\* positions: none lost, duplicated, overtaken or torn.
PoppedInClaimOrder ==
    /\ Len(popped) <= Len(claimed)
    /\ \A i \in 1..Len(popped) : popped[i] = claimed[i]

\* The inductive invariant: sequence numbers, storage and owners agree.  It
\* holds for every Capacity but 1, for which n + 1, the mark of a published slot,
\* is also n + Capacity, the mark of a free one.
IInv ==
    /\ TypeOK
    /\ WindowInv
    /\ OwnerInv
    /\ SlotInv
    /\ ConsumerInv
    /\ PoppedInClaimOrder

\* try_push returns false only while all Capacity slots are taken, at the moment
\* it looked: callers drop the entry or retry on the strength of that answer.
RejectedOnlyWhenFull ==
    [][\A p \in Producers :
         pc[p] = "load" /\ pc'[p] = "idle" => head - Len(popped) = Capacity]_vars

\* An item whose position was claimed is popped in the end, whatever the
\* producers before their CAS do, since nobody stops for good past the CAS.
ClaimedIsPopped ==
    \A n \in 1..Cardinality(Producers) * MaxCalls :
        Len(claimed) >= n ~> Len(popped) >= n

\* The positions, counted from 1, whose producer is done with them.
Committed == {i \in 1..Len(claimed) : Published(i - 1)}

\* The ring buffer implements the bounded queue of reservations.
Queue == INSTANCE ReservationQueue WITH
    Items <- Item, Bound <- Capacity,
    log <- claimed, ready <- Committed, out <- popped

ImplementsQueue == Queue!QSpec
=============================================================================

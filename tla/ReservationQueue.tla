-------------------------- MODULE ReservationQueue --------------------------
(***************************************************************************)
(* What the multi-producer, single-consumer ring buffer promises, without  *)
(* slots, sequence numbers or atomics: a bounded queue in which a producer *)
(* first reserves the next position for its item and later commits it, and *)
(* from which the consumer takes the items in the order of their           *)
(* reservations, each one once, and only after it was committed.           *)
(*                                                                         *)
(* The two steps of a producer are part of the promise and not an accident *)
(* of the implementation: an item committed behind an uncommitted one      *)
(* cannot be taken, so the consumer may find the queue empty although a    *)
(* later try_push has already returned true.                               *)
(***************************************************************************)
EXTENDS Integers, Sequences

CONSTANTS
    Items,      \* what producers put in the queue
    Bound       \* how many reserved items the queue holds at most

VARIABLES
    log,        \* every item ever reserved, in reservation order
    ready,      \* the positions of log whose item is committed
    out         \* every item the consumer has taken, in order

qvars == <<log, ready, out>>

QInit ==
    /\ log = <<>>
    /\ ready = {}
    /\ out = <<>>

HasRoom == Len(log) - Len(out) < Bound

\* A producer reserves the next position for x; there is room for it.
Reserve(x) ==
    /\ HasRoom
    /\ log' = Append(log, x)
    /\ UNCHANGED <<ready, out>>

\* The item at a reserved position becomes visible to the consumer.
Commit(i) ==
    /\ i \in (1..Len(log)) \ ready
    /\ ready' = ready \cup {i}
    /\ UNCHANGED <<log, out>>

\* The oldest item, which the consumer can take once it is committed.
CanTake == Len(out) + 1 \in ready
Oldest == log[Len(out) + 1]

Take ==
    /\ CanTake
    /\ out' = Append(out, Oldest)
    /\ UNCHANGED <<log, ready>>

QNext ==
    \/ \E x \in Items : Reserve(x)
    \/ \E i \in 1..Len(log) : Commit(i)
    \/ Take

QSpec == QInit /\ [][QNext]_qvars
=============================================================================

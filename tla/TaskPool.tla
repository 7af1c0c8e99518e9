------------------------------ MODULE TaskPool ------------------------------
(***************************************************************************)
(* What the thread pool promises, without threads, mutex or condition      *)
(* variable: accepted tasks start in the order in which they were          *)
(* accepted, at most Size of them run at once, and each one runs once.     *)
(* After it has been closed the pool accepts nothing more, but goes on     *)
(* until everything it has accepted has run.                               *)
(***************************************************************************)
EXTENDS Integers, Sequences, FiniteSets

CONSTANTS
    Tasks,      \* what clients ask the pool to run
    Size        \* how many tasks run at once at most

VARIABLES
    queue,      \* the accepted tasks that have not started, oldest first
    running,    \* the tasks that are running
    closed      \* the pool accepts no more tasks

tvars == <<queue, running, closed>>

TInit == queue = <<>> /\ running = {} /\ closed = FALSE

Accept(t) ==
    /\ ~closed
    /\ queue' = Append(queue, t)
    /\ UNCHANGED <<running, closed>>

\* A task is refused, silently or with an exception.
Refused == closed /\ UNCHANGED tvars

Start ==
    /\ queue # <<>>
    /\ Cardinality(running) < Size
    /\ running' = running \cup {Head(queue)}
    /\ queue' = Tail(queue)
    /\ UNCHANGED closed

Complete(t) ==
    /\ t \in running
    /\ running' = running \ {t}
    /\ UNCHANGED <<queue, closed>>

Close ==
    /\ ~closed
    /\ closed' = TRUE
    /\ UNCHANGED <<queue, running>>

\* What the thread that closed the pool waits for.
Drained == closed /\ queue = <<>> /\ running = {}

TNext ==
    \/ \E t \in Tasks : Accept(t)
    \/ Start
    \/ \E t \in running : Complete(t)
    \/ Close

TSpec == TInit /\ [][TNext]_tvars
=============================================================================

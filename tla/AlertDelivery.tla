---------------------------- MODULE AlertDelivery ----------------------------
(***************************************************************************)
(* The delivery of alerts in src/AlertDelivery.hpp: the check thread of    *)
(* the rules engine hands over alerts, the threads of a pool post each of  *)
(* them at most MaxRetries times to a receiver, the first time included,   *)
(* and the history keeps the outcome, whatever it is; at the end main      *)
(* joins the check thread and destroys the delivery.  The pool is what     *)
(* TaskPool promises; ThreadPool implements it.  AlertRules says when      *)
(* alerts are fired.                                                       *)
(***************************************************************************)
EXTENDS Integers, Sequences

CONSTANTS
    Silent,     \* the alerts of rules without notify_url
    PoolSize,   \* the number of delivery threads
    MaxRetries, \* MAX_RETRIES: how often a delivery is tried, not how often again
    MaxHistory, \* MAX_HISTORY
    MaxAlerts   \* bound: how many alerts are fired

Alerts == 1..MaxAlerts

ASSUME DeliveryAssumption ==
    /\ MaxAlerts \in Nat /\ Silent \subseteq Alerts
    /\ {PoolSize, MaxRetries, MaxHistory} \subseteq Nat \ {0}

VARIABLES
    sent,       \* the number of alerts that were fired
    queue, running, closed,     \* the pool
    tries,      \* how often the delivery of each alert was tried
    acked,      \* the alerts whose delivery was confirmed
    received,   \* history: how often each alert arrived
    finished,   \* history: the alerts whose task has ended, in this order
    history,    \* history_: alerts with their outcome, oldest first
    engine,     \* the check thread has not ended
    mpc         \* where main is

poolVars == <<queue, running, closed>>
outcomeVars == <<tries, acked, received, finished, history>>
deliveryVars == <<sent, poolVars, outcomeVars, engine, mpc>>

Pool == INSTANCE TaskPool WITH Tasks <- Alerts, Size <- PoolSize

DeliveryInit ==
    /\ sent = 0
    /\ Pool!TInit
    /\ tries = [n \in Alerts |-> 0]
    /\ acked = {}
    /\ received = [n \in Alerts |-> 0]
    /\ finished = <<>>
    /\ history = <<>>
    /\ engine = TRUE
    /\ mpc = "run"

-----------------------------------------------------------------------------
(* The check thread *)

\* send: an alert goes to the pool, which drops it when it is closed.
Send ==
    /\ engine
    /\ sent < MaxAlerts
    /\ sent' = sent + 1
    /\ Pool!Accept(sent + 1) \/ Pool!Refused
    /\ UNCHANGED <<outcomeVars, engine, mpc>>

\* It ends when it sees the stop flag.
EngineEnds ==
    /\ engine
    /\ engine' = FALSE
    /\ UNCHANGED <<sent, poolVars, outcomeVars, mpc>>

-----------------------------------------------------------------------------
(* The delivery threads: the task of send, and deliver *)

DeliveryOnly == UNCHANGED <<sent, engine, mpc>>

StartTask ==
    /\ Pool!Start
    /\ UNCHANGED outcomeVars /\ DeliveryOnly

\* The loop of deliver goes on.
Due(n) == n \notin Silent /\ n \notin acked /\ tries[n] < MaxRetries

Arrives(n) == received' = [received EXCEPT ![n] = @ + 1]

\* Mutant: the count of attempts starts again before it reaches its limit.
AttemptRestarts(n) ==
    /\ n \in running /\ Due(n)
    /\ tries' = [tries EXCEPT ![n] = (@ + 1) % MaxRetries]
    /\ \/ Arrives(n) /\ acked' = acked \cup {n}
       \/ UNCHANGED <<acked, received>>
    /\ UNCHANGED <<poolVars, finished, history>> /\ DeliveryOnly

\* The alert arrives and is confirmed; it arrives, but the answer is lost or is an
\* error; or it does not arrive.
Attempt(n) ==
    /\ n \in running /\ Due(n)
    /\ tries' = [tries EXCEPT ![n] = @ + 1]
    /\ \/ Arrives(n) /\ acked' = acked \cup {n}
       \/ Arrives(n) /\ acked' = acked
       \/ UNCHANGED <<acked, received>>
    /\ UNCHANGED <<poolVars, finished, history>> /\ DeliveryOnly

Delivered(n) == n \in acked \cup Silent

Outcome(n) == [alert |-> n, result |-> IF Delivered(n) THEN "delivered" ELSE "failed"]

\* The history with an alert more, without its oldest if it is too long.
Record(n) ==
    IF Len(history) < MaxHistory THEN Append(history, Outcome(n))
    ELSE Append(Tail(history), Outcome(n))

Finish(n) ==
    /\ n \in running /\ ~Due(n)
    /\ history' = Record(n)
    /\ finished' = Append(finished, n)
    /\ Pool!Complete(n)
    /\ UNCHANGED <<tries, acked, received>> /\ DeliveryOnly

DeliveryStep(n) == Attempt(n) \/ Finish(n)

-----------------------------------------------------------------------------
(* main *)

MainGoes(from, to) ==
    /\ mpc = from
    /\ mpc' = to
    /\ UNCHANGED <<sent, outcomeVars, engine>>

\* Mutant: main does not wait for the check thread.
JoinEngineNot == MainGoes("run", "delivery") /\ UNCHANGED poolVars

\* AlertRulesEngine::stop.
JoinEngine == ~engine /\ MainGoes("run", "delivery") /\ UNCHANGED poolVars

\* The destructor of AlertDelivery, when main returns.
CloseDelivery == MainGoes("delivery", "drain") /\ Pool!Close

Exit == Pool!Drained /\ MainGoes("drain", "exited") /\ UNCHANGED poolVars

MainStep == JoinEngine \/ CloseDelivery \/ Exit

Exited == mpc = "exited" /\ UNCHANGED deliveryVars

-----------------------------------------------------------------------------
DeliveryNext ==
    \/ Send \/ EngineEnds
    \/ StartTask \/ \E n \in Alerts : DeliveryStep(n)
    \/ MainStep
    \/ Exited

DeliverySpec == DeliveryInit /\ [][DeliveryNext]_deliveryVars

\* Threads are scheduled, and an attempt ends after CURLOPT_TIMEOUT at the latest.
\* Nobody has to stop the program.
DeliveryFairSpec ==
    /\ DeliverySpec
    /\ WF_deliveryVars(StartTask) /\ \A n \in Alerts : WF_deliveryVars(DeliveryStep(n))
    /\ WF_deliveryVars(MainStep)

-----------------------------------------------------------------------------
(* Properties *)

Entry == [alert : Alerts, result : {"delivered", "failed"}]

DeliveryTypeOK ==
    /\ sent \in 0..MaxAlerts
    /\ queue \in Seq(Alerts)
    /\ running \subseteq Alerts
    /\ closed \in BOOLEAN
    /\ tries \in [Alerts -> 0..MaxRetries]
    /\ acked \subseteq Alerts /\ finished \in Seq(Alerts)
    /\ received \in [Alerts -> 0..MaxRetries]
    /\ history \in Seq(Entry) /\ Len(history) <= MaxHistory
    /\ engine \in BOOLEAN
    /\ mpc \in {"run", "delivery", "drain", "exited"}

\* The alerts that have left the queue, and those whose task has ended.
Started == 1..(sent - Len(queue))
Ended == {finished[i] : i \in DOMAIN finished}

\* Every alert that was fired is in one place: queued, in order; with a thread; or
\* finished.
EachInOnePlace ==
    /\ \A i \in DOMAIN queue : queue[i] = sent - Len(queue) + i
    /\ running \cup Ended = Started
    /\ running \cap Ended = {}

\* The history holds the alerts that were finished last, in this order, each with
\* its outcome.
Recorded ==
    /\ Len(history) = IF Len(finished) < MaxHistory THEN Len(finished) ELSE MaxHistory
    /\ \A i \in DOMAIN history :
          history[i] = Outcome(finished[Len(finished) - Len(history) + i])

\* How often an alert was posted again.
Retries(n) == tries[n] - 1

\* Every alert that was fired is in one place.  A finished one was confirmed, or had
\* nobody to go to, or was tried again MaxRetries - 1 times in vain, which is twice and
\* not the three times of AlertDelivery.hpp:8; and it was recorded, confirmed or not.
\* What the history calls delivered has arrived.  When main returns, all are finished.
AlertsAccounted ==
    /\ EachInOnePlace
    /\ \A n \in Ended : Delivered(n) \/ Retries(n) = MaxRetries - 1
    /\ Recorded
    /\ \A i \in DOMAIN history : history[i].result = "delivered" =>
          received[history[i].alert] > 0 \/ history[i].alert \in Silent
    /\ mpc = "exited" => Ended = 1..sent

\* The task of every alert ends, whatever the receivers do.
AlertsFinish == \A n \in Alerts : n <= sent ~> n \in Ended
=============================================================================

------------------------------ MODULE AlertProofs -----------------------------
(***************************************************************************)
(* Proofs about AlertRules for every set of rules, with and without a      *)
(* database, and all cooldowns: the types, and one alert per cooldown.     *)
(* The inductive invariant is TypeOK and LeftIsQuiet; the guard of Fire    *)
(* looks only at rules[r].left, and LeftIsQuiet says that no reload has    *)
(* made it differ from quiet[r].                                           *)
(*                                                                         *)
(* Then about AlertDelivery, for any number of alerts, threads, attempts   *)
(* and any length of the history: the types, and that every alert is       *)
(* accounted for.  AlertsAccounted becomes inductive with ShutdownInv,     *)
(* which says how far main is when the pool is closed, so that send never  *)
(* meets a closed pool, and with ArrivalInv, which says what is known of   *)
(* an alert that was confirmed.                                            *)
(***************************************************************************)
EXTENDS AlertRules, AlertDelivery, TLAPS

RulesInv == TypeOK /\ LeftIsQuiet

\* What a well-formed file holds.
LEMMA ContentType ==
    ASSUME NEW c \in Contents
    PROVE  DOMAIN c \subseteq Rules /\ \A r \in DOMAIN c : c[r] \in Cooldowns
  BY DEF Contents

\* A rule that was just created.
LEMMA FreshType ==
    ASSUME NEW n \in Cooldowns
    PROVE  Fresh(n) \in RuleState /\ Fresh(n).left = 0
  BY RulesAssumption DEF Fresh, RuleState

\* A number of ticks, one tick later.
LEMMA LessType == \A n \in Nat : Less(n) \in Nat /\ (Less(n) > 0 => n > 0)
  BY DEF Less

LEMMA InitRules == Init => RulesInv
<1> SUFFICES ASSUME Init PROVE RulesInv
  OBVIOUS
<1> USE DEF Init
<1>1. CASE file = Broken
  BY <1>1 DEF RulesInv, TypeOK, LeftIsQuiet
<1>2. CASE file \in Contents
  <2>1. DOMAIN file \subseteq Rules /\ \A r \in DOMAIN file : file[r] \in Cooldowns
    BY <1>2, ContentType
  <2>2. rules = [r \in DOMAIN file |-> Fresh(file[r])]
    BY <1>2, BrokenAssumption
  <2>3. \A r \in DOMAIN rules : rules[r] \in RuleState /\ rules[r].left = 0
    BY <2>1, <2>2, FreshType
  <2>4. TypeOK
    BY <1>2, <2>1, <2>2, <2>3 DEF TypeOK
  <2>5. ASSUME NEW r \in Rules
        PROVE  /\ quiet[r] = 0
               /\ r \in DOMAIN rules => rules[r].left = 0
    BY <2>3
  <2>6. LeftIsQuiet
    BY <2>1, <2>2, <2>5 DEF LeftIsQuiet
  <2> QED BY <2>4, <2>6 DEF RulesInv
<1> QED BY <1>1, <1>2

\* The file and its watch do not touch what LeftIsQuiet is about.
LEMMA FileStep ==
    ASSUME RulesInv, EditorStep \/ WatchStep \/ Reload
    PROVE  RulesInv'
<1> USE DEF RulesInv, TypeOK, FileOnly
<1>1. LeftIsQuiet'
  BY DEF EditorStep, WatchStep, Truncate, CloseWrite, Replace, WatchStarts, WatchFails, WatchReads,
         Reload, LeftIsQuiet
<1>2. CASE EditorStep
  <2>1. CASE Truncate BY <1>1, <2>1 DEF Truncate
  <2>2. ASSUME NEW c \in Contents \cup {Broken}, CloseWrite(c) PROVE RulesInv'
    BY <1>1, <2>2 DEF CloseWrite
  <2>3. ASSUME NEW c \in Contents \cup {Broken}, Replace(c) PROVE RulesInv'
    BY <1>1, <2>3 DEF Replace
  <2> QED BY <1>2, <2>1, <2>2, <2>3 DEF EditorStep
<1>3. CASE WatchStep
  BY <1>1, <1>3 DEF WatchStep, WatchStarts, WatchFails, WatchReads
<1>4. CASE Reload
  BY <1>1, <1>4 DEF Reload
<1> QED BY <1>2, <1>3, <1>4

\* What load_rules makes of a well-formed file keeps the state of a rule that stays.
LEMMA LoadedType ==
    ASSUME TypeOK, NEW c \in Contents
    PROVE  /\ DOMAIN Loaded(c) = DOMAIN c /\ DOMAIN c \subseteq Rules
           /\ \A r \in DOMAIN c : Loaded(c)[r] \in RuleState
           /\ \A r \in DOMAIN c \cap DOMAIN rules :
                 Loaded(c)[r].left = rules[r].left /\ Loaded(c)[r].state = rules[r].state
           /\ \A r \in DOMAIN c \ DOMAIN rules : Loaded(c)[r].left = 0
<1>1. DOMAIN c \subseteq Rules /\ \A r \in DOMAIN c : c[r] \in Cooldowns
  BY ContentType
<1>2. DOMAIN Loaded(c) = DOMAIN c
  BY DEF Loaded
<1>3. ASSUME NEW r \in DOMAIN c, r \in DOMAIN rules
      PROVE  /\ Loaded(c)[r] \in RuleState
             /\ Loaded(c)[r].left = rules[r].left /\ Loaded(c)[r].state = rules[r].state
  <2>1. Loaded(c)[r] = [rules[r] EXCEPT !.cooldown = c[r]]
    BY <1>3 DEF Loaded
  <2>2. rules[r] \in RuleState /\ c[r] \in Cooldowns
    BY <1>1, <1>3 DEF TypeOK
  <2> QED BY <2>1, <2>2 DEF RuleState
<1>4. ASSUME NEW r \in DOMAIN c, r \notin DOMAIN rules
      PROVE  Loaded(c)[r] \in RuleState /\ Loaded(c)[r].left = 0
  BY <1>1, <1>4, FreshType DEF Loaded
<1> QED BY <1>1, <1>2, <1>3, <1>4

\* The check thread.
LEMMA EngineRules ==
    ASSUME RulesInv, EngineStep
    PROVE  RulesInv'
<1> USE DEF RulesInv, EngineOnly
<1>1. CASE CheckLoop
  BY <1>1 DEF CheckLoop, TypeOK, LeftIsQuiet
<1>2. CASE BeginRound
  BY <1>2 DEF BeginRound, TypeOK, LeftIsQuiet
<1>3. CASE Load
  <2> USE <1>3 DEF Load
  <2>1. CASE file = Broken
    <3>1. rules' = rules /\ file' = file
      BY <2>1
    <3>2. quiet' = quiet
      BY <3>1 DEF TypeOK, LeftIsQuiet
    <3> QED BY <3>1, <3>2 DEF TypeOK, LeftIsQuiet
  <2>2. CASE file \in Contents
    <3>1. rules' = Loaded(file)
      BY <2>2, BrokenAssumption
    <3>2. TypeOK'
      BY <2>2, <3>1, LoadedType DEF TypeOK
    <3>3. LeftIsQuiet'
      BY <2>2, <3>1, LoadedType DEF TypeOK, LeftIsQuiet
    <3> QED BY <3>2, <3>3
  <2> QED BY <2>1, <2>2 DEF TypeOK
<1>4. CASE EndRound
  BY <1>4 DEF EndRound, TypeOK, LeftIsQuiet
<1>5. ASSUME NEW r \in Rules, Skip(r) PROVE RulesInv'
  <2> USE <1>5 DEF Skip, Evaluated
  <2>1. r \in DOMAIN rules /\ rules[r] \in RuleState
    BY DEF TypeOK
  <2>2. CASE Cooling(r)
    BY <2>2 DEF TypeOK, LeftIsQuiet
  <2>3. CASE ~Cooling(r)
    <3>1. rules' = [rules EXCEPT ![r].state = "INACTIVE"]
      BY <2>3
    <3>2. rules[r].left = 0
      BY <2>1, <2>3 DEF Cooling, TypeOK, LeftIsQuiet, RuleState
    <3>3. rules'[r] \in RuleState /\ rules'[r].left = 0
      BY <2>1, <3>1, <3>2 DEF RuleState
    <3>4. TypeOK'
      BY <3>1, <3>3 DEF TypeOK
    <3>5. LeftIsQuiet'
      BY <2>1, <3>1, <3>2, <3>3 DEF TypeOK, LeftIsQuiet
    <3> QED BY <3>4, <3>5
  <2> QED BY <2>2, <2>3
<1>6. ASSUME NEW r \in Rules, Fire(r) PROVE RulesInv'
  <2> USE <1>6 DEF Fire, Evaluated
  <2>1. r \in DOMAIN rules /\ rules[r] \in RuleState
    BY DEF TypeOK
  <2>2. /\ rules'[r] \in RuleState
        /\ rules'[r].left = rules[r].cooldown /\ rules'[r].state = "COOLDOWN"
    BY <2>1, RulesAssumption DEF RuleState
  <2>3. TypeOK'
    BY <2>1, <2>2, RulesAssumption DEF TypeOK, RuleState
  <2>4. LeftIsQuiet'
    BY <2>1, <2>2 DEF TypeOK, LeftIsQuiet
  <2> QED BY <2>3, <2>4
<1> QED BY <1>1, <1>2, <1>3, <1>4, <1>5, <1>6 DEF EngineStep

\* The environment: time lowers both numbers at once.
LEMMA EnvironmentStep ==
    ASSUME RulesInv, Tick \/ (\E r \in Rules : CountCrosses(r)) \/ Signal
    PROVE  RulesInv'
<1> USE DEF RulesInv, EnvironmentOnly
<1>1. CASE Tick
  <2> USE <1>1 DEF Tick
  <2>1. ASSUME NEW r \in DOMAIN rules
        PROVE  /\ rules'[r] \in RuleState
               /\ rules'[r].left = Less(rules[r].left) /\ rules'[r].state = rules[r].state
    <3>1. rules[r] \in RuleState
      BY DEF TypeOK
    <3>2. rules'[r] = [rules[r] EXCEPT !.left = Less(rules[r].left)]
      OBVIOUS
    <3> QED BY <3>1, <3>2, LessType DEF RuleState
  <2>2. quiet' = [r \in Rules |-> Less(quiet[r])] /\ quiet' \in [Rules -> Nat]
    BY LessType DEF TypeOK
  <2>3. DOMAIN rules' = DOMAIN rules /\ DOMAIN rules \subseteq Rules
    BY DEF TypeOK
  <2>4. TypeOK'
    BY <2>1, <2>2, <2>3 DEF TypeOK
  <2>5. ASSUME NEW r \in Rules, r \in DOMAIN rules
        PROVE  rules'[r].left = quiet'[r] /\ (quiet'[r] > 0 => rules'[r].state = "COOLDOWN")
    BY <2>1, <2>2, <2>5, LessType DEF TypeOK, LeftIsQuiet
  <2>6. ASSUME NEW r \in Rules, r \notin DOMAIN rules
        PROVE  quiet'[r] = 0
    BY <2>2, <2>6 DEF LeftIsQuiet, Less
  <2>7. LeftIsQuiet'
    BY <2>3, <2>5, <2>6 DEF LeftIsQuiet
  <2> QED BY <2>4, <2>7
<1>2. ASSUME NEW r \in Rules, CountCrosses(r) PROVE RulesInv'
  BY <1>2 DEF CountCrosses, TypeOK, LeftIsQuiet
<1>3. CASE Signal
  BY <1>3 DEF Signal, TypeOK, LeftIsQuiet
<1> QED BY <1>1, <1>2, <1>3

LEMMA NextRules == RulesInv /\ [Next]_vars => RulesInv'
<1> SUFFICES ASSUME RulesInv, [Next]_vars PROVE RulesInv'
  OBVIOUS
<1>1. CASE EditorStep \/ WatchStep \/ Reload BY <1>1, FileStep
<1>2. CASE EngineStep BY <1>2, EngineRules
<1>3. CASE Tick \/ (\E r \in Rules : CountCrosses(r)) \/ Signal BY <1>3, EnvironmentStep
<1>4. CASE UNCHANGED vars BY <1>4 DEF RulesInv, TypeOK, LeftIsQuiet, vars
<1> QED BY <1>1, <1>2, <1>3, <1>4 DEF Next

\* The inductive invariant holds.
THEOREM RulesCorrect == Spec => []RulesInv
  BY InitRules, NextRules, PTL DEF Spec

\* Every rule has as many ticks left as it must be quiet for, reloads included.
THEOREM KeepsCooldowns == Spec => []LeftIsQuiet
  BY RulesCorrect, PTL DEF RulesInv

\* A rule fires when its quiet time is over.
LEMMA FireIsQuiet ==
    ASSUME RulesInv, NEW r \in DOMAIN rules, Fire(r)
    PROVE  quiet[r] = 0
<1>1. r \in Rules /\ rules[r].left = quiet[r] /\ quiet[r] \in Nat
  BY DEF RulesInv, TypeOK, LeftIsQuiet
<1>2. quiet[r] > 0 => rules[r].state = "COOLDOWN"
  BY DEF RulesInv, LeftIsQuiet
<1> QED BY <1>1, <1>2 DEF Fire, Cooling

\* What lets cooldown_until_ns grow is Fire alone, when the rule's quiet time is over.
LEMMA FiresWhenQuiet ==
    ASSUME RulesInv, [Next]_vars, NEW r \in DOMAIN rules \cap DOMAIN rules',
           rules'[r].left > rules[r].left
    PROVE  quiet[r] = 0
<1> USE DEF RulesInv
<1>1. r \in Rules /\ rules[r] \in RuleState /\ rules[r].left = quiet[r]
  BY DEF TypeOK, LeftIsQuiet
<1>2. rules' # rules
  BY <1>1 DEF RuleState
<1>3. CASE Load
  <2>1. file \in Contents /\ rules' = Loaded(file)
    BY <1>2, <1>3 DEF Load, TypeOK
  <2>2. rules'[r].left = rules[r].left
    BY <2>1, LoadedType
  <2> QED BY <1>1, <2>2 DEF RuleState
<1>4. ASSUME NEW q \in Rules, Skip(q) PROVE quiet[r] = 0
  <2>1. rules'[r].left = rules[r].left
    BY <1>1, <1>4 DEF Skip, RuleState
  <2> QED BY <1>1, <2>1 DEF RuleState
<1>5. ASSUME NEW q \in Rules, Fire(q) PROVE quiet[r] = 0
  <2>1. CASE q = r
    BY <1>1, <1>5, <2>1 DEF Fire, Cooling, RuleState, LeftIsQuiet
  <2>2. CASE q # r
    <3>1. rules'[r] = rules[r]
      BY <1>5, <2>2 DEF Fire
    <3> QED BY <1>1, <3>1 DEF RuleState
  <2> QED BY <2>1, <2>2
<1>6. CASE Tick
  <2>1. rules'[r].left = Less(rules[r].left)
    BY <1>1, <1>6 DEF Tick, RuleState
  <2> QED BY <1>1, <2>1 DEF RuleState, Less
<1> QED
  BY <1>2, <1>3, <1>4, <1>5, <1>6
  DEF Next, EditorStep, WatchStep, EngineStep, Truncate, CloseWrite, Replace, WatchStarts,
      WatchFails, WatchReads, Reload, FileOnly, CheckLoop, BeginRound, EndRound,
      CountCrosses, Signal, vars

\* At most one alert per rule and cooldown, however the file is edited and reloaded.
THEOREM FiresOncePerCooldown == Spec => OncePerCooldown
<1>1. RulesInv /\ [Next]_vars =>
        [\A r \in DOMAIN rules \cap DOMAIN rules' :
            Fire(r) \/ rules'[r].left > rules[r].left => quiet[r] = 0]_vars
  BY FiresWhenQuiet, FireIsQuiet
<1> QED BY <1>1, RulesCorrect, PTL DEF Spec, OncePerCooldown
-----------------------------------------------------------------------------
(* The delivery *)

\* The check thread has ended before the pool is closed, and the pool is empty
\* before main returns.
ShutdownInv ==
    /\ mpc # "run" => ~engine
    /\ closed <=> mpc \in {"drain", "exited"}
    /\ mpc = "exited" => queue = <<>> /\ running = {}

\* A confirmed alert has arrived; the number of arrivals is one of attempts.
ArrivalInv ==
    /\ \A n \in Alerts : received[n] <= tries[n]
    /\ \A n \in acked : received[n] > 0

FinishedInv == \A n \in Ended : Delivered(n) \/ Retries(n) = MaxRetries - 1

DeliveryInv ==
    /\ DeliveryTypeOK /\ EachInOnePlace /\ FinishedInv /\ Recorded
    /\ ShutdownInv /\ ArrivalInv

LEMMA InitDelivery == DeliveryInit => DeliveryInv
<1> SUFFICES ASSUME DeliveryInit PROVE DeliveryInv
  OBVIOUS
<1> USE DeliveryAssumption DEF DeliveryInit, Pool!TInit
<1>1. DeliveryTypeOK
  <2>1. tries \in [Alerts -> 0..MaxRetries] /\ received \in [Alerts -> 0..MaxRetries]
    OBVIOUS
  <2>2. /\ queue \in Seq(Alerts) /\ Len(history) = 0
        /\ history \in Seq(Entry) /\ finished \in Seq(Alerts)
    OBVIOUS
  <2>3. MaxHistory \in Nat /\ 0 \in 0..MaxAlerts
    OBVIOUS
  <2>4. Len(history) <= MaxHistory
    BY <2>2, <2>3
  <2> QED BY <2>1, <2>2, <2>3, <2>4 DEF DeliveryTypeOK
<1>2. EachInOnePlace
  BY DEF EachInOnePlace, Started, Ended
<1>3. FinishedInv /\ ShutdownInv /\ ArrivalInv
  BY DEF FinishedInv, ShutdownInv, ArrivalInv, Ended
<1>4. Recorded
  BY DEF Recorded
<1> QED BY <1>1, <1>2, <1>3, <1>4 DEF DeliveryInv

\* The alerts of which the history tells have ended.
LEMMA LastOnes ==
    ASSUME DeliveryTypeOK, Recorded, NEW i \in DOMAIN history
    PROVE  finished[Len(finished) - Len(history) + i] \in Ended
<1> USE DeliveryAssumption
<1>1. finished \in Seq(Alerts) /\ history \in Seq(Entry) /\ MaxHistory \in Nat
  BY DEF DeliveryTypeOK
<1>2. Len(history) = IF Len(finished) < MaxHistory THEN Len(finished) ELSE MaxHistory
  BY DEF Recorded
<1>3. /\ Len(finished) \in Nat /\ Len(history) \in Nat /\ i \in 1..Len(history)
      /\ DOMAIN finished = 1..Len(finished)
  BY <1>1
<1>4. Len(history) <= Len(finished)
  BY <1>1, <1>2, <1>3
<1>5. Len(finished) - Len(history) + i \in DOMAIN finished
  BY <1>3, <1>4
<1> QED BY <1>5 DEF Ended

\* The history stays right as long as nothing ends and no ended alert is confirmed.
LEMMA SameOutcomes ==
    ASSUME DeliveryTypeOK, Recorded, UNCHANGED <<finished, history>>,
           \A m \in Ended : m \in acked' <=> m \in acked
    PROVE  Recorded'
<1>1. ASSUME NEW m, m \in Ended PROVE Outcome(m)' = Outcome(m)
  <2>1. CASE m \in acked \cup Silent
    <3>1. m \in acked' \cup Silent
      BY <1>1, <2>1
    <3> QED BY <2>1, <3>1 DEF Outcome, Delivered
  <2>2. CASE m \notin acked \cup Silent
    <3>1. m \notin acked' \cup Silent
      BY <1>1, <2>2
    <3> QED BY <2>2, <3>1 DEF Outcome, Delivered
  <2> QED BY <2>1, <2>2
<1>2. ASSUME NEW i, i \in DOMAIN history'
      PROVE  (history[i] = Outcome(finished[Len(finished) - Len(history) + i]))'
  <2>1. PICK m : m = finished[Len(finished) - Len(history) + i]
    OBVIOUS
  <2>2. m \in Ended
    BY <1>2, <2>1, LastOnes
  <2>3. history[i] = Outcome(m)
    BY <1>2, <2>1 DEF Recorded
  <2>4. history'[i] = Outcome(m)'
    BY <1>1, <2>2, <2>3
  <2> QED BY <2>1, <2>4 DEF Outcome, Delivered
<1>3. Len(history') = IF Len(finished') < MaxHistory THEN Len(finished') ELSE MaxHistory
  BY DEF Recorded
<1> QED BY <1>2, <1>3 DEF Recorded

\* An alert joins the queue; the pool cannot be closed.
LEMMA SendStep ==
    ASSUME DeliveryInv, Send
    PROVE  DeliveryInv'
<1> USE DeliveryAssumption DEF DeliveryInv, Send, outcomeVars
<1>1. ~closed
  BY DEF ShutdownInv
<1>2. queue' = Append(queue, sent + 1) /\ UNCHANGED <<running, closed>>
  BY <1>1 DEF Pool!Accept, Pool!Refused
<1>3. sent + 1 \in Alerts /\ sent \in Nat /\ queue \in Seq(Alerts)
  BY DEF DeliveryTypeOK, Alerts
<1>4. Len(queue') = Len(queue) + 1 /\ sent' - Len(queue') = sent - Len(queue)
  BY <1>2, <1>3
<1>5. DeliveryTypeOK'
  BY <1>2, <1>3 DEF DeliveryTypeOK
<1>6. EachInOnePlace'
  <2>1. ASSUME NEW i \in DOMAIN queue'
        PROVE  queue'[i] = sent' - Len(queue') + i
    BY <1>2, <1>3, <1>4 DEF EachInOnePlace
  <2> QED BY <1>2, <1>4, <2>1 DEF EachInOnePlace, Started, Ended
<1>7. FinishedInv' /\ ArrivalInv' /\ Recorded'
  BY SameOutcomes DEF FinishedInv, ArrivalInv, Ended, Delivered, Retries
<1>8. ShutdownInv'
  BY <1>2 DEF ShutdownInv
<1> QED BY <1>5, <1>6, <1>7, <1>8

\* The alerts up to a number, and one more.
LEMMA OneMore ==
    \A k \in Nat : 1..(k + 1) = (1..k) \cup {k + 1} /\ k + 1 \notin 1..k
  OBVIOUS

\* A thread takes the first alert of the queue.
LEMMA StartStep ==
    ASSUME DeliveryInv, StartTask
    PROVE  DeliveryInv'
<1> USE DeliveryAssumption DEF DeliveryInv, StartTask, Pool!Start, DeliveryOnly, outcomeVars
<1>1. queue \in Seq(Alerts) /\ queue # <<>> /\ sent \in Nat
  BY DEF DeliveryTypeOK
<1>2. /\ Len(queue) \in Nat \ {0} /\ Len(queue') = Len(queue) - 1
      /\ queue' \in Seq(Alerts) /\ Head(queue) \in Alerts
      /\ \A i \in DOMAIN queue' : queue'[i] = queue[i + 1] /\ i + 1 \in DOMAIN queue
  BY <1>1
<1>3. Head(queue) = sent - Len(queue) + 1
  BY <1>1 DEF EachInOnePlace
<1>4. DeliveryTypeOK'
  BY <1>2 DEF DeliveryTypeOK
<1>5. EachInOnePlace'
  <2>1. ASSUME NEW i \in DOMAIN queue'
        PROVE  queue'[i] = sent' - Len(queue') + i
    <3>1. i \in Nat
      BY <1>2
    <3> QED BY <1>1, <1>2, <3>1 DEF EachInOnePlace
  <2>2. Started' = Started \cup {Head(queue)} /\ Head(queue) \notin Started
    <3>1. Head(queue) \in Nat \ {0}
      BY <1>2 DEF Alerts
    <3>2. sent - Len(queue) \in Nat
      BY <1>1, <1>2, <1>3, <3>1
    <3>3. sent' - Len(queue') = (sent - Len(queue)) + 1
      BY <1>1, <1>2
    <3> QED BY <1>3, <3>2, <3>3, OneMore DEF Started
  <2>3. Ended' = Ended
    BY DEF Ended
  <2>4. running' \cup Ended' = Started'
    BY <2>2, <2>3 DEF EachInOnePlace
  <2>5. running' \cap Ended' = {}
    BY <2>2, <2>3 DEF EachInOnePlace
  <2> QED BY <2>1, <2>4, <2>5 DEF EachInOnePlace
<1>6. FinishedInv' /\ ArrivalInv' /\ Recorded'
  BY SameOutcomes DEF FinishedInv, ArrivalInv, Ended, Delivered, Retries
<1>7. ShutdownInv'
  BY <1>1 DEF ShutdownInv
<1> QED BY <1>4, <1>5, <1>6, <1>7

\* An attempt touches one alert that is with a thread.
LEMMA AttemptStep ==
    ASSUME DeliveryInv, NEW n \in Alerts, Attempt(n)
    PROVE  DeliveryInv'
<1> USE DeliveryAssumption DEF DeliveryInv, Attempt, DeliveryOnly, poolVars
<1>1. /\ n \in running /\ tries \in [Alerts -> 0..MaxRetries]
      /\ received \in [Alerts -> 0..MaxRetries] /\ MaxRetries \in Nat
      /\ received[n] <= tries[n]
  BY DEF DeliveryTypeOK, ArrivalInv
<1>2. tries[n] < MaxRetries /\ tries' = [tries EXCEPT ![n] = @ + 1]
  BY DEF Due
<1>3. /\ acked' \in {acked, acked \cup {n}}
      /\ received' \in {received, [received EXCEPT ![n] = @ + 1]}
      /\ acked' # acked => received' = [received EXCEPT ![n] = @ + 1]
  BY DEF Arrives
<1>4. tries' \in [Alerts -> 0..MaxRetries] /\ received' \in [Alerts -> 0..MaxRetries]
  BY <1>1, <1>2, <1>3
<1>5. DeliveryTypeOK'
  BY <1>3, <1>4 DEF DeliveryTypeOK
<1>6. EachInOnePlace' /\ ShutdownInv'
  BY DEF EachInOnePlace, Started, Ended, ShutdownInv
<1>7. FinishedInv' /\ Recorded'
  <2>1. /\ n \notin Ended /\ Ended \subseteq Alerts /\ Ended' = Ended
        /\ finished' = finished /\ history' = history
    BY <1>1 DEF EachInOnePlace, DeliveryTypeOK, Ended
  <2>2. \A m \in Ended : tries'[m] = tries[m] /\ (m \in acked' <=> m \in acked)
    BY <1>1, <1>2, <1>3, <2>1
  <2>3. FinishedInv'
    BY <2>1, <2>2 DEF FinishedInv, Delivered, Retries
  <2>4. Recorded'
    BY <2>1, <2>2, SameOutcomes
  <2> QED BY <2>3, <2>4
<1>8. ArrivalInv'
  <2>1. \A m \in Alerts : received'[m] <= tries'[m]
    BY <1>1, <1>2, <1>3 DEF ArrivalInv
  <2>2. ASSUME NEW m \in acked' PROVE received'[m] > 0
    <3>1. m \in Alerts
      BY <1>5 DEF DeliveryTypeOK
    <3>2. CASE m \in acked
      BY <1>1, <1>3, <3>1, <3>2 DEF ArrivalInv
    <3>3. CASE m \notin acked
      BY <1>1, <1>3, <3>3
    <3> QED BY <3>2, <3>3
  <2>3. acked \subseteq acked'
    BY <1>3
  <2> QED BY <2>1, <2>2, <2>3 DEF ArrivalInv
<1> QED BY <1>5, <1>6, <1>7, <1>8

\* What the history is after Record.
LEMMA RecordType ==
    ASSUME DeliveryTypeOK, NEW n \in Alerts
    PROVE  /\ Record(n) \in Seq(Entry)
           /\ Len(Record(n)) = IF Len(history) < MaxHistory THEN Len(history) + 1 ELSE MaxHistory
           /\ Record(n)[Len(Record(n))] = Outcome(n)
           /\ \A i \in 1..(Len(Record(n)) - 1) :
                 /\ Len(history) + 1 - Len(Record(n)) + i \in DOMAIN history
                 /\ Record(n)[i] = history[Len(history) + 1 - Len(Record(n)) + i]
<1> USE DeliveryAssumption
<1>1. history \in Seq(Entry) /\ Len(history) <= MaxHistory
  BY DEF DeliveryTypeOK
<1>2. Outcome(n) \in Entry
  BY DEF Outcome, Entry
<1>3. CASE Len(history) < MaxHistory
  <2>1. Record(n) = Append(history, Outcome(n))
    BY <1>3 DEF Record
  <2> QED BY <1>1, <1>2, <1>3, <2>1
<1>4. CASE ~(Len(history) < MaxHistory)
  <2>1. Record(n) = Append(Tail(history), Outcome(n))
    BY <1>4 DEF Record
  <2>2. Len(history) = MaxHistory /\ history # <<>>
    BY <1>1, <1>4
  <2>3. /\ Tail(history) \in Seq(Entry)
        /\ Len(Tail(history)) = Len(history) - 1
        /\ \A i \in DOMAIN Tail(history) :
              i + 1 \in DOMAIN history /\ Tail(history)[i] = history[i + 1]
    BY <1>1, <2>2
  <2> QED BY <1>2, <2>1, <2>2, <2>3
<1> QED BY <1>3, <1>4

\* The window of the last entries, when it moves by one: the place of the entry that
\* is now at i.
LEMMA WindowMoves ==
    ASSUME NEW f \in Nat, NEW h \in Nat, NEW h2 \in Nat, NEW i \in Nat,
           h <= f, h <= h2, h2 <= h + 1, 1 <= i, i <= h2 - 1
    PROVE  /\ f - h + (h + 1 - h2 + i) = (f + 1) - h2 + i
           /\ f - h + (h + 1 - h2 + i) \in 1..f
OBVIOUS

\* A task ends: its alert is confirmed, silent, or was tried often enough, and its
\* outcome is the newest in the history.
LEMMA FinishStep ==
    ASSUME DeliveryInv, NEW n \in Alerts, Finish(n)
    PROVE  DeliveryInv'
<1> USE DeliveryAssumption DEF DeliveryInv, Finish, DeliveryOnly, Pool!Complete
<1>1. n \in running /\ history' = Record(n) /\ finished' = Append(finished, n)
  OBVIOUS
<1>2. Delivered(n) \/ Retries(n) = MaxRetries - 1
  BY DEF Due, DeliveryTypeOK, Delivered, Retries
<1>3. /\ Len(history) \in Nat /\ Len(finished) \in Nat /\ Len(history) <= MaxHistory
      /\ Len(history) = IF Len(finished) < MaxHistory THEN Len(finished) ELSE MaxHistory
      /\ MaxHistory \in Nat \ {0}
  BY DEF DeliveryTypeOK, Recorded
<1>4. /\ finished' \in Seq(Alerts) /\ Len(finished') = Len(finished) + 1
      /\ finished'[Len(finished) + 1] = n
      /\ \A i \in 1..Len(finished) : finished'[i] = finished[i]
      /\ DOMAIN finished = 1..Len(finished) /\ DOMAIN finished' = 1..(Len(finished) + 1)
  BY <1>1 DEF DeliveryTypeOK
<1>5. /\ history' \in Seq(Entry) /\ DOMAIN history' = 1..Len(history')
      /\ Len(history') = IF Len(history) < MaxHistory THEN Len(history) + 1 ELSE MaxHistory
      /\ history'[Len(history')] = Outcome(n)
      /\ \A i \in 1..(Len(history') - 1) :
            /\ Len(history) + 1 - Len(history') + i \in DOMAIN history
            /\ history'[i] = history[Len(history) + 1 - Len(history') + i]
  BY <1>1, RecordType
<1>6. Len(history') \in Nat /\ Len(history') <= MaxHistory
  BY <1>3, <1>5
<1>7. DeliveryTypeOK'
  BY <1>4, <1>5, <1>6 DEF DeliveryTypeOK
<1>8. Ended' = Ended \cup {n}
  BY <1>3, <1>4 DEF Ended
<1>9. EachInOnePlace'
  BY <1>1, <1>8 DEF EachInOnePlace, Started
<1>10. FinishedInv'
  BY <1>2, <1>8 DEF FinishedInv, Delivered, Retries
<1>11. ShutdownInv' /\ ArrivalInv'
  BY <1>1 DEF ShutdownInv, ArrivalInv
<1>12. Recorded'
  <2>1. Len(history') = IF Len(finished') < MaxHistory THEN Len(finished') ELSE MaxHistory
    BY <1>3, <1>4, <1>5
  <2>2. ASSUME NEW i \in DOMAIN history'
        PROVE  history'[i] = Outcome(finished'[Len(finished') - Len(history') + i])
    <3>1. CASE i = Len(history')
      <4>1. Len(finished') - Len(history') + i = Len(finished) + 1
        BY <1>3, <1>4, <1>6, <3>1
      <4> QED BY <1>4, <1>5, <3>1, <4>1
    <3>2. CASE i # Len(history')
      <4> DEFINE j == Len(history) + 1 - Len(history') + i
      <4>1. i \in 1..(Len(history') - 1)
        BY <1>5, <1>6, <3>2
      <4>2. j \in DOMAIN history /\ history'[i] = history[j]
        BY <1>5, <4>1
      <4>3. history[j] = Outcome(finished[Len(finished) - Len(history) + j])
        BY <4>2 DEF Recorded
      <4>4. /\ Len(finished) - Len(history) + j = Len(finished') - Len(history') + i
            /\ Len(finished) - Len(history) + j \in 1..Len(finished)
        <5> DEFINE f == Len(finished)
                   h == Len(history)
                   h2 == Len(history')
        <5>1. i \in Nat /\ 1 <= i /\ i <= h2 - 1 /\ Len(finished') = f + 1
          BY <1>4, <1>6, <4>1
        <5>2. h <= f /\ h2 <= h + 1 /\ h <= h2
          BY <1>3, <1>5, <1>6
        <5>3. f \in Nat /\ h \in Nat /\ h2 \in Nat
          BY <1>3, <1>6
        <5>4. \A k : k = h + 1 - h2 + i =>
                 f - h + k = (f + 1) - h2 + i /\ f - h + k \in 1..f
          <6> HIDE DEF f, h, h2, DeliveryInv, Finish, DeliveryOnly, Pool!Complete
          <6> QED BY <5>1, <5>2, <5>3, WindowMoves
        <5> HIDE DEF DeliveryInv, Finish, DeliveryOnly, Pool!Complete
        <5> QED BY <5>1, <5>4
      <4>5. finished'[Len(finished') - Len(history') + i]
              = finished[Len(finished) - Len(history) + j]
        BY <1>4, <4>4
      <4> QED BY <4>2, <4>3, <4>5
    <3> QED BY <3>1, <3>2
  <2>3. \A m : Outcome(m)' = Outcome(m)
    BY DEF Outcome, Delivered
  <2> QED BY <2>1, <2>2, <2>3 DEF Recorded
<1> QED BY <1>7, <1>9, <1>10, <1>11, <1>12

\* The end of the check thread, and main.
LEMMA MainDelivery ==
    ASSUME DeliveryInv, EngineEnds \/ MainStep
    PROVE  DeliveryInv'
<1> USE DEF DeliveryInv, outcomeVars, poolVars
<1>1. UNCHANGED <<sent, queue, running, tries, acked, received, finished, history>>
  BY DEF EngineEnds, MainStep, JoinEngine, CloseDelivery, Exit, MainGoes, Pool!Close
<1>2. DeliveryTypeOK'
  BY <1>1 DEF DeliveryTypeOK, EngineEnds, MainStep, JoinEngine, CloseDelivery, Exit, MainGoes,
              Pool!Close
<1>3. EachInOnePlace' /\ FinishedInv' /\ ArrivalInv' /\ Recorded'
  BY <1>1, SameOutcomes
  DEF EachInOnePlace, Started, Ended, FinishedInv, ArrivalInv, Delivered, Retries
<1>4. ShutdownInv'
  <2>1. CASE EngineEnds
    BY <2>1 DEF EngineEnds, ShutdownInv
  <2>2. CASE JoinEngine
    BY <2>2 DEF JoinEngine, MainGoes, ShutdownInv
  <2>3. CASE CloseDelivery
    BY <2>3 DEF CloseDelivery, MainGoes, Pool!Close, ShutdownInv
  <2>4. CASE Exit
    BY <2>4 DEF Exit, MainGoes, Pool!Drained, ShutdownInv
  <2> QED BY <2>1, <2>2, <2>3, <2>4 DEF MainStep
<1> QED BY <1>2, <1>3, <1>4

LEMMA NextDelivery == DeliveryInv /\ [DeliveryNext]_deliveryVars => DeliveryInv'
<1> SUFFICES ASSUME DeliveryInv, [DeliveryNext]_deliveryVars PROVE DeliveryInv'
  OBVIOUS
<1>1. CASE Send BY <1>1, SendStep
<1>2. CASE StartTask BY <1>2, StartStep
<1>3. ASSUME NEW n \in Alerts, DeliveryStep(n) PROVE DeliveryInv'
  BY <1>3, AttemptStep, FinishStep DEF DeliveryStep
<1>4. CASE EngineEnds \/ MainStep BY <1>4, MainDelivery
<1>5. CASE UNCHANGED deliveryVars
  BY <1>5, SameOutcomes
  DEF DeliveryInv, DeliveryTypeOK, EachInOnePlace, Started, Ended, FinishedInv, Delivered,
      Retries, ShutdownInv, ArrivalInv, deliveryVars, poolVars, outcomeVars
<1> QED BY <1>1, <1>2, <1>3, <1>4, <1>5 DEF DeliveryNext, Exited

\* The inductive invariant holds.
THEOREM DeliveryCorrect == DeliverySpec => []DeliveryInv
  BY InitDelivery, NextDelivery, PTL DEF DeliverySpec

\* The types hold; no receiver gets an alert more than MaxRetries times.
THEOREM DeliveryTypes == DeliverySpec => []DeliveryTypeOK
  BY DeliveryCorrect, PTL DEF DeliveryInv

\* Every alert that was fired is accounted for, the finished ones are recorded with
\* their outcome, and all are finished at the end.
THEOREM NoAlertLost == DeliverySpec => []AlertsAccounted
<1>1. DeliveryInv => AlertsAccounted
  <2> SUFFICES ASSUME DeliveryInv PROVE AlertsAccounted
    OBVIOUS
  <2> USE DEF DeliveryInv
  <2>1. ASSUME mpc = "exited" PROVE Ended = 1..sent
    <3>1. Len(queue) = 0 /\ running = {} /\ sent \in Nat
      BY <2>1 DEF ShutdownInv, DeliveryTypeOK
    <3>2. Started = 1..sent
      BY <3>1 DEF Started
    <3> QED BY <3>1, <3>2 DEF EachInOnePlace
  <2>2. ASSUME NEW i \in DOMAIN history, history[i].result = "delivered"
        PROVE  received[history[i].alert] > 0 \/ history[i].alert \in Silent
    <3>1. PICK m : history[i] = Outcome(m)
      BY DEF Recorded
    <3>2. history[i].alert = m /\ m \in acked \cup Silent
      BY <2>2, <3>1 DEF Outcome, Delivered
    <3> QED BY <3>2 DEF ArrivalInv
  <2> QED BY <2>1, <2>2 DEF AlertsAccounted, FinishedInv
<1> QED BY <1>1, DeliveryCorrect, PTL
=============================================================================

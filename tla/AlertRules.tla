------------------------------ MODULE AlertRules -----------------------------
(***************************************************************************)
(* The alert rules of src/AlertRulesEngine.hpp: the thread that evaluates  *)
(* them, the thread that watches alerts.json, and whoever edits that file. *)
(*                                                                         *)
(* Time is the number of ticks that a cooldown has left; how long a round  *)
(* of the check loop takes is abstract.  The content of the file is a      *)
(* function from rule ids, which the documentation wants unique, to        *)
(* cooldowns; whether the count of a rule is above its threshold is up to  *)
(* the environment.  AlertDelivery goes on with the alerts that are fired. *)
(***************************************************************************)
EXTENDS Integers

CONSTANTS
    Rules,      \* the ids of rules
    NoDatabase, \* the rules for whose project there is no database
    Cooldowns,  \* the cooldowns that a rule may have
    Broken      \* a file that load_rules cannot parse

ASSUME RulesAssumption ==
    /\ NoDatabase \subseteq Rules
    /\ Cooldowns \subseteq Nat

VARIABLES
    stop,       \* g_stop
    file,       \* alerts.json
    watch,      \* the inotify watch: "none", "armed", or "lost" with its file; or
                \* "polling" instead of it, or "off"
    event,      \* inotify has something to read, or polling a new time of change
    pending,    \* reload_pending_
    pc,         \* where the check thread is
    todo,       \* the rules it has still to evaluate in this round
    rules,      \* rules_: cooldown, state and ticks until cooldown_until_ns
    high,       \* the rules whose count is above their threshold
    quiet       \* history: for how long a rule must not fire again

vars == <<stop, file, watch, event, pending, pc, todo, rules, high, quiet>>

\* What a well-formed file holds; every other one is Broken.
Contents == UNION {[S -> Cooldowns] : S \in SUBSET Rules}

ASSUME BrokenAssumption == Broken \notin Contents

Fresh(cooldown) == [cooldown |-> cooldown, state |-> "INACTIVE", left |-> 0]

\* The constructor has loaded the file.
Init ==
    /\ stop = FALSE
    /\ file \in Contents \cup {Broken}
    /\ watch = "none" /\ event = FALSE
    /\ pending = FALSE
    /\ pc = "loop" /\ todo = {}
    /\ rules = [r \in IF file = Broken THEN {} ELSE DOMAIN file |-> Fresh(file[r])]
    /\ high = {}
    /\ quiet = [r \in Rules |-> 0]

-----------------------------------------------------------------------------
(* alerts.json and the watch thread *)

FileOnly == UNCHANGED <<stop, pc, todo, rules, high, quiet>>

\* Somebody opens the file and truncates it, which the watch does not report,
Truncate ==
    /\ file # Broken
    /\ file' = Broken
    /\ event' = (event \/ watch = "polling")
    /\ UNCHANGED <<watch, pending>> /\ FileOnly

\* and writes and closes it: IN_CLOSE_WRITE.
CloseWrite(content) ==
    /\ file = Broken
    /\ file' = content
    /\ event' = (event \/ watch \in {"armed", "polling"})
    /\ UNCHANGED <<watch, pending>> /\ FileOnly

\* Another file is renamed to alerts.json.  The watch goes with the old file,
\* which reports its end when nothing else refers to it.
Replace(content) ==
    /\ file' = content
    /\ watch' = IF watch = "armed" THEN "lost" ELSE watch
    /\ event' \in {event \/ watch = "polling", event \/ watch \in {"armed", "polling"}}
    /\ UNCHANGED pending /\ FileOnly

WatchStarts ==
    /\ watch = "none"
    /\ watch' = "armed"
    /\ UNCHANGED <<file, event, pending>> /\ FileOnly

\* inotify_add_watch fails, and the time of change is asked for every 5 seconds; or
\* inotify_init fails, and nothing watches the file.
WatchFails ==
    /\ watch = "none"
    /\ watch' \in {"polling", "off"}
    /\ UNCHANGED <<file, event, pending>> /\ FileOnly

\* The event is read, or the new time of change is seen.
WatchReads ==
    /\ watch # "none" /\ ~stop
    /\ event
    /\ event' = FALSE
    /\ pending' = TRUE
    /\ UNCHANGED <<file, watch>> /\ FileOnly

\* reload(): the key r of the dashboard.
Reload ==
    /\ ~stop
    /\ pending' = TRUE
    /\ UNCHANGED <<file, watch, event>> /\ FileOnly

EditorStep ==
    \/ Truncate
    \/ \E c \in Contents \cup {Broken} : CloseWrite(c) \/ Replace(c)

WatchStep == WatchStarts \/ WatchFails \/ WatchReads

-----------------------------------------------------------------------------
(* The check thread *)

EngineOnly == UNCHANGED <<stop, file, watch, event, high>>

CheckLoop ==
    /\ pc = "loop"
    /\ pc' = IF stop THEN "exit" ELSE "round"
    /\ UNCHANGED <<pending, todo, rules, quiet>> /\ EngineOnly

\* The exchange of reload_pending_.
BeginRound ==
    /\ pc = "round"
    /\ pending' = FALSE
    /\ pc' = IF pending THEN "load" ELSE "evaluate"
    /\ todo' = DOMAIN rules
    /\ UNCHANGED <<rules, quiet>> /\ EngineOnly

\* Mutant: every load starts with fresh rules.
LoadedFresh(content) == [r \in DOMAIN content |-> Fresh(content[r])]

\* What load_rules makes of a file: a rule whose id was there keeps its state.
Loaded(content) ==
    [r \in DOMAIN content |->
        IF r \in DOMAIN rules THEN [rules[r] EXCEPT !.cooldown = content[r]]
        ELSE Fresh(content[r])]

\* load_rules keeps the old rules when it cannot parse the file.
Load ==
    /\ pc = "load"
    /\ rules' = IF file = Broken THEN rules ELSE Loaded(file)
    /\ quiet' = [r \in Rules |-> IF r \in DOMAIN rules' THEN quiet[r] ELSE 0]
    /\ todo' = DOMAIN rules'
    /\ pc' = "evaluate"
    /\ UNCHANGED pending /\ EngineOnly

\* Mutant: a rule stays in its cooldown.
CoolingForever(r) == rules[r].state = "COOLDOWN"

Cooling(r) == rules[r].state = "COOLDOWN" /\ rules[r].left > 0

Evaluated(r) ==
    /\ pc = "evaluate" /\ r \in todo
    /\ todo' = todo \ {r}
    /\ UNCHANGED <<pending, pc>> /\ EngineOnly

\* evaluate_rule returns at once, or finds no database or not enough entries.
Skip(r) ==
    /\ Evaluated(r)
    /\ Cooling(r) \/ r \in NoDatabase \/ r \notin high
    /\ rules' = IF Cooling(r) THEN rules ELSE [rules EXCEPT ![r].state = "INACTIVE"]
    /\ UNCHANGED quiet

\* fire_alert.  It makes the rule FIRING and, before the mutex is released, COOLDOWN,
\* so that the first of the two is not a state of its own here.
Fire(r) ==
    /\ Evaluated(r)
    /\ ~Cooling(r) /\ r \notin NoDatabase /\ r \in high
    /\ rules' = [rules EXCEPT ![r].state = "COOLDOWN", ![r].left = rules[r].cooldown]
    /\ quiet' = [quiet EXCEPT ![r] = rules[r].cooldown]

\* Mutant: the flag is cleared at the end of the round.
EndRoundClears ==
    /\ pc = "evaluate" /\ todo = {}
    /\ pc' = "loop"
    /\ pending' = FALSE
    /\ UNCHANGED <<todo, rules, quiet>> /\ EngineOnly

EndRound ==
    /\ pc = "evaluate" /\ todo = {}
    /\ pc' = "loop"
    /\ UNCHANGED <<pending, todo, rules, quiet>> /\ EngineOnly

EngineStep ==
    \/ CheckLoop \/ BeginRound \/ Load \/ EndRound
    \/ \E r \in Rules : Skip(r) \/ Fire(r)

-----------------------------------------------------------------------------
(* Time passes, counts go up and down, and the program is stopped. *)

EnvironmentOnly == UNCHANGED <<file, watch, event, pending, pc, todo>>

Less(n) == IF n = 0 THEN 0 ELSE n - 1

Tick ==
    /\ \E r \in Rules : quiet[r] > 0
    /\ rules' = [r \in DOMAIN rules |-> [rules[r] EXCEPT !.left = Less(@)]]
    /\ quiet' = [r \in Rules |-> Less(quiet[r])]
    /\ UNCHANGED <<stop, high>> /\ EnvironmentOnly

CountCrosses(r) ==
    /\ high' = IF r \in high THEN high \ {r} ELSE high \cup {r}
    /\ UNCHANGED <<stop, rules, quiet>> /\ EnvironmentOnly

Signal ==
    /\ ~stop
    /\ stop' = TRUE
    /\ UNCHANGED <<rules, high, quiet>> /\ EnvironmentOnly

-----------------------------------------------------------------------------
Next ==
    \/ EditorStep \/ WatchStep \/ Reload
    \/ EngineStep
    \/ Tick \/ (\E r \in Rules : CountCrosses(r)) \/ Signal

Spec == Init /\ [][Next]_vars

\* Both threads are scheduled, and time passes.  Nobody has to edit the file, and
\* counts may stay as they are.
FairSpec == Spec /\ WF_vars(WatchStep) /\ WF_vars(EngineStep) /\ WF_vars(Tick)

-----------------------------------------------------------------------------
(* Properties *)

RuleState == [cooldown : Cooldowns, state : {"INACTIVE", "COOLDOWN"}, left : Nat]

\* The types.  FIRING is left out: see Fire.
TypeOK ==
    /\ stop \in BOOLEAN
    /\ file \in Contents \cup {Broken}
    /\ watch \in {"none", "armed", "lost", "polling", "off"}
    /\ event \in BOOLEAN /\ pending \in BOOLEAN
    /\ pc \in {"loop", "round", "load", "evaluate", "exit"}
    /\ todo \subseteq DOMAIN rules /\ DOMAIN rules \subseteq Rules
    /\ \A r \in DOMAIN rules : rules[r] \in RuleState
    /\ high \subseteq Rules
    /\ quiet \in [Rules -> Nat]

\* "cooldown_seconds: Minimum seconds between repeated firings" (README.md:213):
\* no rule fires, or has its cooldown made longer by anything else, within the
\* cooldown of its last alert, however often the file is reloaded or its cooldown
\* changed, as long as the rule is in it.
OncePerCooldown ==
    [][\A r \in DOMAIN rules \cap DOMAIN rules' :
          Fire(r) \/ rules'[r].left > rules[r].left => quiet[r] = 0]_vars

\* A rule has as many ticks left as it must be quiet for, and is in its cooldown
\* while it has any left: what a reload must not disturb.
LeftIsQuiet ==
    /\ \A r \in DOMAIN rules : rules[r].left = quiet[r]
    /\ \A r \in DOMAIN rules : quiet[r] > 0 => rules[r].state = "COOLDOWN"
    /\ \A r \in Rules \ DOMAIN rules : quiet[r] = 0

\* The rules are those of the file.
UpToDate == file # Broken /\ file = [r \in DOMAIN rules |-> rules[r].cooldown]

\* Whatever the watch reports, at any moment of the check thread's round, leads to
\* a load of the file as it is then, unless the file is broken or the program stops.
ReportedIsLoaded == event ~> stop \/ file = Broken \/ UpToDate

\* Rule r is loaded, its count stays above the threshold, and the program runs:
\* then it fires some day, and again after each cooldown.
KeepsFiring(r) ==
    r \in high /\ r \in DOMAIN rules
        ~> quiet[r] > 0 \/ r \notin high \/ r \notin DOMAIN rules \/ stop

\* It is so for each rule whose database exists.
FiresWithDatabase == \A r \in Rules \ NoDatabase : KeepsFiring(r)

=============================================================================

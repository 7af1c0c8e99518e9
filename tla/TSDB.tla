-------------------------------- MODULE TSDB --------------------------------
(***************************************************************************)
(* The time-series database of src/TSDB.hpp: the entries of each app in    *)
(* memory, sorted by timestamp, a thread that evicts old entries, a thread *)
(* that writes everything to a temporary file which then replaces the      *)
(* persistence file, and the load at the start of the program.             *)
(*                                                                         *)
(* Every critical section of the database's shared mutex is one action;    *)
(* what write_to_disk does before and after it are actions of their own,   *)
(* so that a crash can come between them.  An app without entries is the   *)
(* same as an app that is missing from the map.  Every write succeeds:     *)
(* write_to_disk never looks at the stream's state, and on a full disk     *)
(* nothing below would hold.                                               *)
(***************************************************************************)
EXTENDS Integers, Sequences, FiniteSets, SequencesExt

CONSTANTS
    Apps,       \* application names
    Levels,     \* the level strings that clients send
    Age,        \* EVICTION_AGE_NS
    Window,     \* how far back GET /apps counts: 3600 seconds
    None,
    MaxTime,    \* bound: the last instant
    MaxEntries  \* bound: how many entries are inserted

ASSUME AgeAssumption ==
    /\ {Age, Window, MaxTime, MaxEntries} \subseteq Nat
    /\ Window <= Age

VARIABLES
    now,        \* the system clock
    run,        \* where the program is between start and end
    data,       \* data_: the entries of each app
    lastSeen,   \* last_seen_
    writer,     \* where write_to_disk is
    tmp,        \* the content of the temporary file
    file,       \* the content of the persistence file
    report,     \* where apps_to_json is, or None
    inserted,   \* history: how many entries were inserted
    safe        \* history: what was in memory when the file was last replaced

memVars == <<data, lastSeen>>
diskVars == <<writer, tmp, file, safe>>
vars == <<now, run, memVars, diskVars, report, inserted>>

Times == 1..MaxTime
Named == {"INFO", "WARN", "ERROR", "CRITICAL"}

Nothing == [a \in Apps |-> <<>>]
Unseen == [a \in Apps |-> 0]

\* The positions in K, in their order.
InOrder(K) ==
    CHOOSE m \in [1..Cardinality(K) -> K] :
        K = {m[j] : j \in DOMAIN m} /\ \A i, j \in DOMAIN m : i < j => m[i] < m[j]

\* The entries that are not older than cutoff, in their order: what a loop that skips
\* the others visits, and what erase and remove_if leave.
Since(entries, cutoff) ==
    LET m == InOrder({n \in DOMAIN entries : entries[n].ts >= cutoff})
    IN  [j \in DOMAIN m |-> entries[m[j]]]

\* The entries of all apps.
All(content) == UNION {ToSet(content[a]) : a \in Apps}

Init ==
    /\ now = 1
    /\ run = "up"
    /\ data = Nothing
    /\ lastSeen = Unseen
    /\ writer = "idle"
    /\ tmp = Nothing
    /\ file = Nothing
    /\ report = None
    /\ inserted = 0
    /\ safe = {}

-----------------------------------------------------------------------------
(* insert *)

\* Mutant: every entry goes to the end.
AppendOnly(entries, e) == Append(entries, e)

\* lower_bound: the position of the first entry that is as old or younger.
LowerBound(entries, ts) ==
    CHOOSE n \in DOMAIN entries :
        entries[n].ts >= ts /\ \A m \in 1..(n - 1) : entries[m].ts < ts

\* At the end when the entry is not older than the last one, otherwise in front
\* of that position.
Place(entries, e) ==
    IF entries = <<>> \/ Last(entries).ts <= e.ts
    THEN Append(entries, e)
    ELSE InsertAt(entries, LowerBound(entries, e.ts), e)

\* Mutant: last_seen is the timestamp of the last insert.
InsertForgets(a, ts, level) ==
    /\ run \in {"up", "stopping"}
    /\ inserted < MaxEntries
    /\ data' = [data EXCEPT ![a] = Place(@, [id |-> inserted + 1, ts |-> ts, level |-> level])]
    /\ lastSeen' = [lastSeen EXCEPT ![a] = ts]
    /\ inserted' = inserted + 1
    /\ UNCHANGED <<now, run, diskVars, report>>

\* The timestamp may be any the client sends.
Insert(a, ts, level) ==
    /\ run \in {"up", "stopping"}
    /\ inserted < MaxEntries
    /\ data' = [data EXCEPT ![a] = Place(@, [id |-> inserted + 1, ts |-> ts, level |-> level])]
    /\ lastSeen' = [lastSeen EXCEPT ![a] = IF ts > @ THEN ts ELSE @]
    /\ inserted' = inserted + 1
    /\ UNCHANGED <<now, run, diskVars, report>>

-----------------------------------------------------------------------------
(* Eviction *)

\* Mutant: keeps the old entries and drops the young ones of an app whose oldest
\* entry is too old.
OldestDecides(content) ==
    [a \in Apps |-> IF content[a] # <<>> /\ content[a][1].ts < now - Age
                    THEN <<>> ELSE content[a]]

\* What evict_old_entries leaves.
Fresh(content) == [a \in Apps |-> Since(content[a], now - Age)]

Evict ==
    /\ run \in {"up", "stopping"}
    /\ data' = Fresh(data)
    /\ UNCHANGED <<now, run, lastSeen, diskVars, report, inserted>>

-----------------------------------------------------------------------------
(* Queries; each holds the shared lock *)

\* getLogs without a level, for the last n units of time.
GetLogs(a, n) == Since(data[a], now - n)

GetApps == {a \in Apps : data[a] # <<>>}

GetLastSeen(a) == lastSeen[a]

\* apps_to_json gets the names of the apps, and then of each its last_seen and its
\* count, one lock after the other.
ReportApp(a) ==
    /\ run \in {"up", "stopping"}
    /\ report = None
    /\ a \in GetApps
    /\ report' = [at |-> "listed", app |-> a]
    /\ UNCHANGED <<now, run, memVars, diskVars, inserted>>

ReportLastSeen ==
    /\ report # None /\ report.at = "listed"
    /\ report' = [at |-> "seen", app |-> report.app, seen |-> GetLastSeen(report.app),
                  upto |-> inserted]
    /\ UNCHANGED <<now, run, memVars, diskVars, inserted>>

ReportCount ==
    /\ report # None /\ report.at = "seen"
    /\ report' = None
    /\ UNCHANGED <<now, run, memVars, diskVars, inserted>>

-----------------------------------------------------------------------------
(* write_to_disk, run by the persistence thread and, at the end, by stop *)

\* Mutant: opens the persistence file itself.
OpenInPlace ==
    /\ writer = "idle"
    /\ run \in {"up", "stopping", "saving"}
    /\ file' = Nothing
    /\ tmp' = Nothing
    /\ writer' = "open"
    /\ UNCHANGED <<now, run, memVars, safe, report, inserted>>

\* Open the temporary file, which truncates it.
OpenTmp ==
    /\ writer = "idle"
    /\ run \in {"up", "stopping", "saving"}
    /\ tmp' = Nothing
    /\ writer' = "open"
    /\ UNCHANGED <<now, run, memVars, file, safe, report, inserted>>

\* What level_to_idx and idx_to_level make of a level.
Stored(e) == [e EXCEPT !.level = IF @ \in Named THEN @ ELSE "INFO"]

Binary(content) == [a \in Apps |-> [i \in DOMAIN content[a] |-> Stored(content[a][i])]]

\* write_binary under the shared lock.
WriteTmp ==
    /\ writer = "open"
    /\ tmp' = Binary(data)
    /\ writer' = "written"
    /\ UNCHANGED <<now, run, memVars, file, safe, report, inserted>>

\* The temporary file replaces the persistence file.
Rename ==
    /\ writer = "written"
    /\ file' = tmp
    /\ tmp' = Nothing
    /\ safe' = {<<e.id, e.ts>> : e \in All(tmp)}
    /\ writer' = "idle"
    /\ run' = IF run = "saving" THEN "stopped" ELSE run
    /\ UNCHANGED <<now, memVars, report, inserted>>

-----------------------------------------------------------------------------
(* Start, stop, crash *)

\* The stop flag ends the two threads' loops, after one more round perhaps; entries
\* still arrive.
StopFlag ==
    /\ run = "up"
    /\ run' = "stopping"
    /\ UNCHANGED <<now, memVars, diskVars, report, inserted>>

\* Mutant: the final write is left out.
StopUnsaved ==
    /\ run = "stopping"
    /\ writer = "idle"
    /\ run' = "stopped"
    /\ UNCHANGED <<now, memVars, diskVars, report, inserted>>

\* stop has joined the threads; main calls it when nothing inserts any more and the
\* server, which asks for reports, has stopped.
Stop ==
    /\ run = "stopping"
    /\ writer = "idle" /\ report = None
    /\ run' = "saving"
    /\ UNCHANGED <<now, memVars, diskVars, report, inserted>>

\* The process is killed: what is on disk stays as it is.
Crash ==
    /\ run \in {"up", "stopping", "saving"}
    /\ run' = "down"
    /\ data' = Nothing
    /\ lastSeen' = Unseen
    /\ writer' = "idle"
    /\ report' = None
    /\ UNCHANGED <<now, tmp, file, safe, inserted>>

\* The constructor loads the file, last_seen included, and evicts what is old.
Load ==
    /\ run \in {"stopped", "down"}
    /\ data' = Fresh(file)
    /\ lastSeen' = [a \in Apps |-> IF file[a] = <<>> THEN 0
                                   ELSE Max({e.ts : e \in ToSet(file[a])})]
    /\ run' = "up"
    /\ UNCHANGED <<now, diskVars, report, inserted>>

Tick ==
    /\ now < MaxTime
    /\ now' = now + 1
    /\ UNCHANGED <<run, memVars, diskVars, report, inserted>>

-----------------------------------------------------------------------------
Next ==
    \/ \E a \in Apps, ts \in Times, level \in Levels : Insert(a, ts, level)
    \/ Evict
    \/ (\E a \in Apps : ReportApp(a)) \/ ReportLastSeen \/ ReportCount
    \/ OpenTmp \/ WriteTmp \/ Rename
    \/ StopFlag \/ Stop \/ Crash \/ Load
    \/ Tick

Spec == Init /\ [][Next]_vars

-----------------------------------------------------------------------------
(* Properties *)

Entry == [id : Nat, ts : Times, level : Levels \cup {"INFO"}]
Content == [Apps -> Seq(Entry)]

TypeOK ==
    /\ now \in Nat
    /\ run \in {"up", "stopping", "saving", "stopped", "down"}
    /\ {data, tmp, file} \subseteq Content
    /\ lastSeen \in [Apps -> Nat]
    /\ writer \in {"idle", "open", "written"}
    /\ report \in [at : {"listed"}, app : Apps]
                 \cup [at : {"seen"}, app : Apps, seen : Nat, upto : Nat] \cup {None}
    /\ inserted \in Nat

Sorted(content) ==
    \A a \in Apps : \A i, j \in DOMAIN content[a] :
        i < j => content[a][i].ts <= content[a][j].ts

\* The entries of each app are sorted by timestamp (TSDB.hpp:7), whatever the order
\* in which they arrive, and stay so through eviction, a write and a load.
SortedByTime == Sorted(data)

\* last_seen is not older than any entry of the app, restarts included.  GET /apps
\* says so too although it looks twice: it names a time for each app that it lists, and
\* what it counts next to it is not younger, unless it came in between.
LastSeenCovers ==
    /\ \A a \in Apps : \A e \in ToSet(data[a]) : e.ts <= lastSeen[a]
    /\ report # None /\ report.at = "seen" =>
          /\ report.seen > 0
          /\ \A e \in ToSet(GetLogs(report.app, Window)) :
                e.ts <= report.seen \/ e.id > report.upto

Tagged(content) == {<<e.id, e.ts>> : e \in All(content)}

\* Each of the entries is in memory, or old.
Survive(entries) == \A e \in entries : e \in Tagged(data) \/ e[2] < now - Age

\* What has once been written survives every crash and restart until it is a day
\* old ("binary file written every 60 seconds (atomic rename)", TSDB.hpp:10).
WrittenSurvives == run \in {"up", "stopping"} => Survive(safe)

\* After stop everything in memory is in the file.
StopSavesAll == run = "stopped" => Tagged(data) = Tagged(file)

\* The report is made while the program runs, of an app that has been seen; what has
\* come since it looked is what was inserted since.
ReportKnows ==
    report # None =>
        /\ run \in {"up", "stopping"}
        /\ report.at = "listed" => lastSeen[report.app] > 0
        /\ report.at = "seen" =>
              /\ report.seen > 0 /\ report.upto <= inserted
              /\ \A e \in ToSet(data[report.app]) : e.ts <= report.seen \/ e.id > report.upto

\* What is about to replace the file is in memory or old, and after stop all of it.
WriterKnows ==
    /\ safe = Tagged(file)
    /\ writer # "idle" => run \in {"up", "stopping", "saving"}
    /\ writer = "written" =>
          IF run = "saving" THEN Tagged(tmp) = Tagged(data) ELSE Survive(Tagged(tmp))

\* The inductive invariant.
IInv ==
    /\ TypeOK
    /\ \A content \in {data, tmp, file} : Sorted(content)
    /\ \A a \in Apps : \A e \in ToSet(data[a]) : e.ts <= lastSeen[a]
    /\ ReportKnows /\ WriterKnows /\ WrittenSurvives /\ StopSavesAll

\* While the program runs, only entries that are too old leave the memory, and
\* no entry comes back.
OnlyOldLeave ==
    [][{run, run'} \subseteq {"up", "stopping"} =>
          (\A e \in Tagged(data) \ Tagged(data') : e[2] < now - Age)
          /\ (\A e \in Tagged(data') \ Tagged(data) : e[1] > inserted)]_vars
=============================================================================

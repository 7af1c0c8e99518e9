# A TLA+ model of the log monitor

This directory holds a TLA+ development of the log monitoring server in `src/`:
models of its components, the properties that make them correct, TLC
configurations that check the properties on small instances, and TLAPS proofs of
the most important ones for every instance. `PROJECT.json` says for each
definition which lines of the source it stands for, for each run which
properties it checks, and for each property a small change of the model that
breaks it.

## The system

One process ingests log lines from files, TCP connections and HTTP requests,
matches them against regular expressions, stores them in an in-memory
time-series database with a file behind it, evaluates alert rules on the
database and serves an HTTP API to several tenants.

    FileWatcher threads ----\
    NetworkIngester (8) -----+--> RingBuffer --> LogPipeline --> ThreadPool (4)
    HttpServer (10) --------/      (MPSC)         (1 thread)      |  PatternEngine, AlertManager
         |                                                        v
         +--> TenantManager --> TSDB per project <-------- entry callback of main
                                 legacy TSDB     <----------------+
                                     ^
           AlertRulesEngine ---------+--> AlertDelivery (5) --> web hooks, SMTP

### Inventory

| Component | State | Operations | Hard because | What makes it correct |
|---|---|---|---|---|
| `RingBuffer` | `head_`, `tail_`, a sequence number and storage per slot | `try_push` (many threads), `try_pop` (one) | lock-free, relaxed loads, CAS races, wrap-around | FIFO in claim order, no access to storage by two threads, "full" only when full, every claimed item comes out |
| `ThreadPool` | task queue, stop flag, worker threads | `enqueue`, `submit`, `shutdown` | condition variable, notification outside the mutex, spurious wakeups, shutdown with tasks in the queue | tasks start in order and run once, no wakeup is lost, shutdown drains and returns |
| `LogPipeline` | counters, recent lines | `run`, `process_entry`, `drain` | hands entries from one concurrent structure to another, and changes its behaviour at the stop | nothing popped is dropped or handled twice |
| `main` | the stop flag, all components | start, signal, shutdown sequence | order of the joins, threads that wait for each other | the program ends; what was processed is on disk |
| `TSDB` | entries of each app sorted by time, `last_seen_`, a file | insert, queries, eviction, write, load | several writers, out-of-order timestamps, crashes between the steps of a write | order, nothing but old entries disappears, what was written survives a crash |
| `FileWatcher` | file position and size | `read_new_lines`, inotify loop | races with the writer of the file, rotation, back-pressure | every line is pushed once and as it was read |
| `NetworkIngester` | connections, a pool of 8 handlers | two acceptors, TCP and HTTP handlers, `stop` | blocking reads, more connections than handlers, stop while connections arrive | lines are pushed or refused, not lost; stop ends |
| `HttpServer` | rate buckets, counters | authentication, ingest, project and data routes | concurrent requests, rotation and deletion during requests | a tenant sees and writes only its own data; the rate limit |
| `TenantManager` | map from project to TSDB | lazy creation, ingest routing, `stop_all` | two-phase locking | one database per project |
| `ProjectStore`, `UserStore` | vectors with index maps, a JSON file | create, find, delete, rotate, load | index consistency across operations and restarts | indexes agree with the data, and the file with both |
| `AuthManager` | revoked token ids | create, verify, revoke | two clock reads, pruning | a revoked or expired token never verifies |
| `AlertRulesEngine` | rules with state and cooldown, reload flag | check loop, fire, reload, file watch | hot reload against evaluation, missed file events | at most one alert per cooldown, a changed file is loaded |
| `AlertDelivery` | pool of 5, history | send, deliver with retries | lost responses, order of completion, shutdown | every alert is tried and recorded |
| `AlertManager`, `StatsAggregator` | counters, log file | `handle_alert`, snapshots | counters read one by one | not modelled |
| `PatternEngine`, `CodeIndexer` | rules, an index; fixed after start | `match`, `query` | pure functions | not modelled |
| `TcpSocket`, `HttpParser`, `Dashboard`, `WebUI`, `WebDashboard`, SDK | none that others depend on | system calls, parsing, presentation, client | | not modelled, but for the descriptors of `TcpSocket` |

Components interact by calls, except that sources, consumer and workers meet in
the ring buffer and the pool, and that everybody polls one stop flag.

## The modules

| Module | Stands for | Built on |
|---|---|---|
| `ReservationQueue` | what the ring buffer promises | |
| `RingBuffer` | `RingBuffer.hpp` | implements `ReservationQueue` |
| `TaskPool` | what the thread pool promises | |
| `ThreadPool` | `ThreadPool.hpp` | implements `TaskPool` |
| `Pipeline` | sources, `LogPipeline.hpp`, the callback and the shutdown of `main.cpp` | instances of `ReservationQueue` and `TaskPool` |
| `FileTail` | the reading half of `FileWatcher.hpp` | |
| `Connections` | the accepting half of `NetworkIngester.hpp`, with the descriptors of `TcpSocket.hpp` | instance of `TaskPool` |
| `TSDB` | `TSDB.hpp` | |
| `ProjectStore` | `ProjectStore.hpp` | |
| `Tenants` | the project routes and `POST /ingest` of `HttpServer.hpp`, `TenantManager.hpp`, the callback of `main.cpp` | extends `ProjectStore` |
| `MCTenants` | the values with which TLC checks `Tenants` | |
| `RateLimit` | the token buckets of `HttpServer.hpp` | |
| `Access` | `UserStore.hpp`, `AuthManager.hpp`, register, login and the bearer check of `HttpServer.hpp` | extends `RateLimit` |
| `AlertRules` | `AlertRulesEngine.hpp`, and whoever edits `alerts.json` | |
| `AlertDelivery` | `AlertDelivery.hpp`, and the end of `main.cpp` | instance of `TaskPool` |

The proofs are in modules of their own:

| Module | About |
|---|---|
| `RingBufferProofs`, `ThreadPoolProofs`, `PipelineProofs`, `TSDBProofs` | the module of that name |
| `SourcesProofs` | `FileTail` and `Connections` |
| `TenantsProofs` | `ProjectStore` and `Tenants` |
| `AccessProofs` | `RateLimit` and `Access` |
| `AlertProofs` | `AlertRules` and `AlertDelivery` |

`FileTail` and `AlertDelivery` are extended together with another component there,
which is why their specifications carry a prefix: `TailSpec`, `DeliverySpec`.

How the modules fit together. `Pipeline` begins where a source has a line in its
hand; `FileTail` says which lines a watcher gets, `Connections` which connections
a handler gets. `Pipeline` and `Connections` use the promises of ring and pool,
which `RingBuffer` and `ThreadPool` are shown to keep. `Pipeline` ends with an
insert; `TSDB` says what becomes of it in one database, `Tenants` which database
it is. `Access` decides who makes the requests that `Tenants` serves.

A definition whose comment begins with "Mutant:" is a variant of the one that
follows it. No specification uses it; it documents which slip in the code a
property would notice.

### RingBuffer

`head`, `tail`, `seq` and `cell` are `head_`, `tail_` and the two members of a
slot; `pos`, `val` and `pc` are each producer's local variables and place in
`try_push`, `cval` and `cpc` the consumer's. There is one action for each atomic
access and each access to a slot's storage. A relaxed load of `head_` may return
any value between the newest one the thread has read and the current one: that
is the coherence order of C++. The load of the sequence number has an address
that depends on that value and is modelled as current; a stale sequence number
would be one of an earlier lap, with which the code does the same as with a
stale head. `compare_exchange_weak` may fail for no reason. Positions are not
bounded (2^64 pushes are out of reach).

`claimed` and `popped` are histories. `ReservationQueue` is the same structure
without slots: reserve, commit, take. That a producer needs two steps is part of
the promise, because an item that is committed behind an uncommitted one is
invisible: `try_pop` may return nothing although a `try_push` has returned true.

### ThreadPool

One action for each critical section, one for each notification sent after it.
`"check"` is the evaluation of the wait's predicate, under the mutex. `submit`
and `enqueue` differ only in how they refuse. A task is a number in order of
acceptance. `StopAgain` is the early return of a second `shutdown`, which does
not wait for the joins of the first.

### Pipeline

`Watchers`, `Clients`, `Batches` and `Posters` are the four kinds of source:
they differ in whether they look at the stop flag between lines, what they do
after a failed push and what they do when they give up. `spc`, `entry` and
`place` are the source's place in its loop, the entry in its hand and the
position it has reserved. Of an entry the model keeps only whether its text was
moved away. From its reservation on, an entry is known by its position in `log`.
A batch with one line ignores a failed push, one with several retries; `PushFull`
leaves both open for each push of a batch.

The consumer is `ConsumerLoop`, `Pop`, `PopNothing`, `Dispatch` and
`HandleDrained`; a worker's task is `StartTask`, `Match` and `Store`. `mpc` goes
through main's shutdown in the order of `main.cpp:353-374`. `TSDB::stop` appears
as one write; `TSDB` models writing.

### FileTail

A file is a sequence of numbered pieces: a line is written in one piece or in
several, of which the last has the newline, and what `getline` returns is a
sequence of pieces. The environment appends, truncates and removes; the watcher
is `Open`, `OpenFails` or `WaitForFile`, `FirstSize` (the size before the watch), `AddWatch`, then one `Drain`
per event and the steps of `read_new_lines`: `CheckSize`, one `GetLine` per line,
`Underflow` when the stream's buffer is empty and the file is asked again,
`MeetEnd` and `SeekEnd`. The last two are separate in the code (the stream fails,
is cleared, and seeks to the end), and what is written between them is skipped:
the history `skipped` records it, and `NothingElseLost` says that nothing else is.
`racy` is the history of truncations that the code cannot notice, because they
come in the middle of a read or the file has grown again before its size is read.
`file_size` throws when the file is gone; the thread has no handler, so that the
program ends (`"terminated"`).

### Connections

`backlog` are the connections that the kernel holds, `open` the process's
descriptors, of which `Accept` takes the lowest free one, as POSIX says. The TCP
acceptor enters the connection in `table` (`Track`) and hands it to the pool
(`HandOver`); a handler is `SeeFlag`, `Receive` or `LineEnds`, `Push`, `Erase`
and `CloseFd`, where the destructor of the socket closes the descriptor. An
`accept` that fails ends the acceptor's thread. `stop` is `ClosePool`, `JoinPool`
and `JoinAcceptors`. `dropped` and `gaveUp` are histories of the two ways in which
something stays behind: the pool refused the task, whose lambda held only the
number of the descriptor; and the handler returned from inside its retry loop,
before the line that erases the entry.

### TSDB

One action per critical section of the shared mutex. `write_to_disk` is
`OpenTmp`, `WriteTmp`, `Rename`, so that a crash can come between them. Levels
other than the four named ones become INFO on disk. Timestamps are any the client
sends; the clock advances between any two steps. `ReportApp`, `ReportLastSeen` and
`ReportCount` are the three locks of `apps_to_json`, between which inserts and the
eviction go on. The other queries take one lock and change nothing; `GetLogs` is
the window they all rest on.

A disk that is full when the file is written is left out. The code never looks at
the state of the stream, so that a truncated file replaces the good one and its
entries are lost at the next start (`TSDB.hpp:287-292`).

`LowerBound` is `std::lower_bound` by what it finds, `Since` is what a loop or
`remove_if` leaves of a vector: the entries that are not too old, in their order,
given by the positions that `InOrder` lists. Neither is recursive, so that the
proofs can speak about them.

### ProjectStore and Tenants

`projects`, `by_id`, `by_api_key` and `by_owner` are the members of the same names,
`disk` is what can be read of the file. An operation holds the lock to its end and
is one action; it changes the memory first and ends with `Save`, which has three
outcomes. The new file replaces the old one. Or the rename throws: then the file
stays, the client gets an error and the memory keeps the change. Or the disk is
full: the code never looks at the stream, so that a file that was cut short
replaces the good one, and the client is told of success; `torn` says that the file
is in this state, which the next whole write ends. `Load` gives up on such a file
and starts with no projects; otherwise it builds vector and maps from the file, in
any order, since the order of the file does not matter to any property. Ids and
keys are random and taken to be fresh. `answered`, `retired`, `ownerOf`, `issuedTo`
and `lost` are histories: what owners were told, which key was ever issued for
which project, and which projects a load of a torn file has forgotten. The answer
of a handler goes out after the store has released its lock; here it belongs to the
step of the store, so that `AnsweredIsOnDisk` speaks of a client that is told at the
earliest possible moment.

`Tenants` gives each handler of the server a place between the locks it takes.
`VerifyOwnership` looks the project up and releases the lock, `Change` deletes or
rotates; `Route` looks a key up, `Insert` inserts, `PushAndAnswer` pushes and
answers; `get_or_create_tsdb` is `Knows` (the shared lock finds it), `Miss` and
`Create` (the exclusive lock, with its second look). `Callback` and `TapDefault`
are a worker of the pipeline that stores what it popped in the database of the
default project. `Persist` is the periodic write of one database, `StopFlag`,
`StopAll`, `Ended` and `Start` the end and the next start, after a stop or a
crash. A database is a set of entries, each with the way by which it came.

Left out: the second, legacy database that the callback also writes, whose
content is a copy; pages and routes that only read configuration.
`GET /projects/{id}/rules` and `.../history` return the rules and the alerts of
all tenants to each of them; a comment in the code says that this is meant to
change.

### RateLimit and Access

A bucket counts in doubles in the code and in whole numbers of a smaller unit
here, with whole ticks of time; rounding is left out. A bucket belongs to a value
of the header, is made at its first use, also for keys that do not exist, and is
never removed.

`RegisterUser` enters the account in the maps and then calls `SaveLocked`, which
has the three outcomes of `ProjectStore`'s `Save`, with `torn` and `lost` as there.
`verify_token` is `CheckExpiry` and `IsRevoked`, with a clock reading
each, since time passes and other handlers run in between; the pruning in
`is_revoked` is part of the second. The cryptography is taken to be perfect: a
token verifies when it was issued, and a password when it is the right one.
Accounts never change after their registration, and only tests call
`revoke_token`; the model lets the environment call it. `Restart` empties what the
code has only in memory: the map of revocations, the buckets and the handlers. The
secret and the tokens live on, so that a token is valid again that was revoked
before; `barred` is the history of the run of the program in which each token was
last revoked, and `RevokedStaysOut` speaks of that run only.

### AlertRules

Three parties: `EditorStep` is whoever changes `alerts.json`, `WatchStep` the
inotify thread, `EngineStep` the check thread with one round of `check_loop` as
`CheckLoop`, `BeginRound` (the exchange of `reload_pending_`), `Load`, one `Skip`
or `Fire` per rule, and `EndRound`. The round holds the mutex of the rules while
it evaluates them, and no other thread writes them; the file, the clock and the
counts change in between. An editor either truncates, writes and closes the file,
or renames another file onto it, which takes the watch away with the old file
(`watch` becomes `"lost"`).

`rules` is `rules_`, with `left` for the ticks until `cooldown_until_ns`. The
content of the file is a function from ids to cooldowns: ids are taken to be
unique, and the other fields of a rule only decide whether it is in `high`, which
the environment changes at will. `quiet` is a history: it is set to the cooldown
when a rule fires, counts down with time and is cleared when the rule is taken
out of the file. It knows nothing of `rules` afterwards, which is why
`OncePerCooldown` says something about reloads. `Fire` sets the state to COOLDOWN at
once: the code assigns FIRING before it, in the same critical section.

`WatchFails` is a watch that cannot be set up: then the file's time of change is
polled, or nothing watches it. The poll is taken to see each change, that is, the
clock of the file system to tell two changes apart, and to find the file when it
starts: otherwise `last_write_time` throws in a thread without a handler
(`AlertRulesEngine.hpp:446`). Left out are the kqueue branch of macOS and the
history kept for the dashboard.

### AlertDelivery

An alert is a number in order of firing. `Send` hands it to the pool, `StartTask`
lets a thread take it, `Attempt` is one pass through the loop of `deliver`: the
alert arrives and is confirmed, arrives without a confirmation (the answer is
lost or is no 2xx), or does not arrive. `MaxRetries` is the constant of the code,
and counts attempts: an alert that fails is retried one time less. `Finish` appends
the outcome to the bounded history and ends the task, which the code does inside
the task too; `finished` is the history of the order in which that happened.
`JoinEngine`, `CloseDelivery` and `Exit` are the end of `main`: the check thread
is joined by `AlertRulesEngine::stop`, then the destructor shuts the pool down.
The pool is an instance of `TaskPool`, which `ThreadPool` implements.

## What the runs check

| Run | Bounds | Shows |
|---|---|---|
| `ring` | 3 producers, 2 calls each, 2 slots | storage races, FIFO, rejections, progress, refinement |
| `pool` | 3 workers, 2 clients with 2 calls, 2 closers | no idle worker, drain, every task ends, shutdown returns, refinement |
| `pipeline` | one source of each kind, 1 slot, 2 workers, 3 lines | nothing popped is lost or doubled, order up to the pool size, clean exit, progress, termination |
| `pipeline_retry` | watcher and TCP client, 2 lines | **violated**: a retry pushes the line that was read |
| `file_tail` | 5 pieces, 2 truncations, removal | entries in order and once; nothing lost outside the window in which the code skips |
| `connections` | 2 TCP clients, 1 HTTP client, 2 handlers, 3 descriptors | the table, what stays behind, service in turn, the stop |
| `tsdb` | 2 apps, 2 levels, 3 entries, 3 instants | order, last_seen and the report, durability, final write, eviction |
| `tenants` | 2 users, 2 projects, 3 keys, 2 handlers, a worker, 1 entry, 2 starts, short writes | indexes, keys, durable answers, entries stay where they belong, nobody reads another's data, the final write |
| `tenants_isolation` | the same | **violated**: a database holds only entries of its own project |
| `access` | 2 handlers, 2 addresses, 2 accounts, 1 token, 5 ticks, 2 starts, short writes | confirmed accounts, revocation, the rate limit |
| `alerts` | 2 rules, one without a database, cooldowns of 1 and 2 ticks, any edits | one alert per cooldown, no reported change is lost, a rule fires when it should |
| `delivery` | 4 alerts, one without receiver, 2 threads, 3 attempts as in the code, a history of 2 | every alert is in one place, tried as often as it must be and recorded, and accounted for at the end; every delivery ends |

Why the bounds are enough. In the ring two slots and six items mean three laps,
every pair of positions that share a slot, and three threads that can each hold a
claimed slot, a stale position and a lost CAS; the proofs cover all other sizes.
The pool has more workers than clients, so that workers sleep, and more tasks
than workers, so that tasks wait. One slot fills the pipeline's buffer with the
first line; three lines and two workers are the least with which two entries can
be overtaken. Five pieces make lines that are cut by the end of a read, by a
truncation and by both. Three connections on two handlers make one wait, and three
descriptors are used up, freed and used again. In the database three entries make
an out-of-order insert in the middle, and three instants with an age of one make
entries that die in memory, on disk and in between. Two handlers are enough for
any pair of requests, and `tenants` lets one rotate or delete between any two
steps of the other; three keys are the two of a rotation and one of another
project; the proofs cover all other stores. In `access` the bucket pays for two
requests and the ticks for two more, and a token lives two of five ticks. Two
cooldowns let an edit shorten or lengthen one that runs; the number of reloads and
alerts of the rules engine is not bounded. Four alerts fill two threads and a
queue and overflow a history of two.

Deadlock is checked in every run; where a system really ends, its module has a
step that says so (`Finished`, `Exited`, `Stopped`, `Ended`, `Done`).

### Fairness

- Ring: a producer past its CAS and the consumer take their next step. Nothing is
  assumed of producers before the CAS.
- Pool: each worker is scheduled, tasks return, notifications are sent. Nobody
  has to call, and no wakeup is assumed.
- Pipeline: every thread is scheduled; the end of a file and of a request is
  reached, and each client sends or closes. The bound on lines hides two things: a
  file that grows faster than it is read, whose watcher never looks at the stop
  flag, and a source that loses every race for a slot.
- Connections: acceptors, pool, handlers and main are scheduled. `LineEnds` is
  strongly fair: a client may send as long as it likes, but hangs up in the end,
  while its handler is back in `recv` again and again. Without this assumption
  neither `AcceptedIsServed` nor `StopReturns` holds: there is no timeout.
- TSDB, FileTail, Tenants, Access: no liveness is claimed; a watcher that misses an
  event sees the change with the next one only, which the code cannot promise.
- Alert rules: the watch thread and the check thread are scheduled, and time
  passes while a cooldown runs. Nobody has to edit the file, press the reload key
  or stop the program, and counts may stay where they are. That the code sleeps 10
  seconds between rounds, in steps of a second, is not needed.
- Alert delivery: the pool's threads and main are scheduled. An attempt ends
  because of `CURLOPT_TIMEOUT`; whether it succeeds is left open, so that
  `AlertsFinish` does not depend on a receiver.

## What is proved

All theorems hold for every value of the constants that satisfies the module's
assumptions.

*Ring buffer.* `TypeCorrect` holds for every capacity. `InvCorrect` proves the
inductive invariant `IInv` for every capacity but 1, and from it follow
`PopsInOrder`, `StorageRaceFree`, `StorageIsUsedInTurn`, `NoFalseRejection` and
`Implements`, the refinement of `ReservationQueue`. FIFO alone is not inductive:
the argument needs to know what each slot holds. `IInv` describes the window of
positions `Done..head - 1`: it is never wider than the buffer (`WindowInv`),
each position in it is owned by one producer (`OwnerInv`) or published
(`SlotInv`), and the slots in front of it are marked free. Because the window is
at most one lap wide, its positions have different slots; the lemmas on division
with remainder at the head of the module prove that. A capacity of 1 has to be
left out at one place: the CAS (`CasFindsRoom`), where the sequence number
`n + 1` of a published slot must not be the number `n + Capacity` of a free one.

*Thread pool.* `IInv` is the conjunction of `TypeOK`, `QueueInOrder`, `RunOnce`,
`StopInv` and `NoWorkerIdles` and is inductive as it stands. `NoWorkerIdles`
counts: when a worker sleeps, every queued task has a worker at the predicate or
a notification on its way. `DrainsOnShutdown` follows from the invariant, since a
worker leaves only a stopped pool with an empty queue; `StopsAccepting` is an
action property. `Implements` is the refinement of `TaskPool`, on which `Pipeline`,
`Connections` and `AlertDelivery` rest: critical sections map to the actions of
the pool, notifications and wakeups to stuttering. That at most as many tasks run
as there are workers needs an injection from the running tasks to the workers
(`RunOnce`), and that the number of tasks is finite follows from the calls.

*Pipeline.* The three safety properties need to know where each entry is. `IInv`
says that an entry is placed once (`Placed`); that the entries that went to the
pool are an initial part of what was popped, are started in their order and stored
after they were matched (`InOrder`); what main has waited for at each point of the
shutdown (`Joined`), from which it follows that the pool is open while the consumer
runs; and that a line is counted in a source's hand or in the log (`LinesCounted`),
on which only the types rest. `NoEntryLost` and `ExitsClean` follow from it.
`StoresAlmostInOrder` needs a step of its own: when an entry is stored, the
missing entries before it are with the other workers, and later there are not more.
What the proof uses of ring and pool are the actions of `ReservationQueue` and
`TaskPool`.

*Database.* The first part of `TSDBProofs` says what the operators on sequences
return: `Since` keeps exactly the entries that are young enough and keeps their
order, `Place` adds one entry to a sorted sequence and leaves it sorted, and
`LowerBound` exists where it is used. These are statements about sequences of any
length, proved from the least element of a set of naturals (`NatMin`). On them rests
the induction: `IInv` says that memory, temporary file and file are each sorted;
that `lastSeen` covers all entries of its app; what a report has seen between its
three locks (`ReportKnows`); and what the next rename will put in the place of the
file (`WriterKnows`). `WrittenSurvives` alone is not inductive: the temporary file
must hold all that is in memory or is old, also while entries come, are evicted and
the program crashes and reads the file again, which maps the levels. Its
consequences are `SortedCorrect`, `LastSeenCorrect`, `WrittenCorrect` and
`StopCorrect`; `OnlyOldLeaveCorrect` is an action property.

*Watched file.* `TailInv` names two numbers: `Gone`, how many pieces the truncations
have removed, which makes the n-th piece in the file the piece `Gone + n`, and
`Frontier`, the last piece that the watcher has dealt with. The buffer holds the
pieces between frontier and position (`InBuffer`), every entry ends at or before the
frontier (`Behind`), and what is behind the frontier and still in the file was
pushed or skipped (`Covered`). After a truncation the frontier is `Gone`, and that
the next look at the size starts again from the front is the case split of
`CheckInv`: had the file grown again first, the truncation would be racy, and
nothing is claimed then, by the theorems or by the properties. `InOrderCorrect` and
`NothingLost` follow.

*Connections.* A connection is in one place (`OnePlace`): not yet accepted, with an
accepting thread, queued, running, finished or dropped. `OpenFds` ties the open
descriptors to those places in both directions, so that no two live connections
have one descriptor, and from this it follows that tracking one connection or
erasing another never touches the entry of a third (`Table`). `Phases` says what
`stop` has waited for. `ServedCorrect` and `StoppedCorrect` follow. What is used of
the pool are the actions of `TaskPool`.

*Project store.* `StoreInv` joins the indexes with the histories: each
live project has a key that was issued for it, a retired key belongs to
nobody in memory or on disk, and what was answered is on disk, as long as the file
is whole. The hard cases are a change that failed to be written and is written by a
later one, and a write that was cut short: what was confirmed must then be found in
memory by the next save (`AnsweredInv`), unless a load came first, which puts the
projects among the lost. `IndexesCorrect`, `OldKeysDie` and `ConfirmedIsDurable`
follow, for any sets of users, ids and keys; the first two hold after short writes
and loads of torn files too.

*Tenants.* `TenantsUseStore` shows that every step of the handlers is a step of the
project store or leaves it alone, and `StoreInTenants` that its properties hold
among the requests. `TenantInv` adds what a handler knows between two locks. That
is true because it is about the past: `ownerOf` and the home of an entry, the
project its key was made for, never change, while the project itself may be
deleted and its key rotated under the handler's feet (`JobsRightful`). Together
with `OwnEntries`, which says that what came with a request is in the database of
its home, this gives `OwnDataSeen` (entries that the pipeline's callback brought
are excluded there: they are the finding below). `AcceptedStays` needs that the
entry is in the database before it is answered (`Rightful`, for `"push"`), that
`Create` looks a second time, and that a database is read back after each kind of
end; `AcceptedSaved` needs that the handlers have ended before the last write
(`AllIdle`).

*Rate limit.* `RateBound` compares two requests and says nothing of the bucket, so
that it is not inductive; `Paid` is: what is left in the bucket and what got through
since any request is no more than a full bucket and what has flowed in since.
`LimitHolds` states it for the buckets alone and for the server, where a restart
makes them full again and the histories that the bound speaks of begin again.

*Access.* `AccountsStay` rests on `UserInv`, the types with `ConfirmedAccount`: an
account the client was told of is in memory, and in the file unless the last write
was cut short; a registration is confirmed only after the save and never touches an
address that is already in memory (one whose save failed stays there, unconfirmed);
and a restart reads the file, or forgets all accounts when it is torn (`lost`). For
`RevocationHolds` the entry of a token that was revoked in this run of the program
must stay in the map as long as the token lives, which ties the expiry in the map to
the one in the token, and the first clock reading of a verification to the second.
The theorem says nothing of tokens revoked before a restart, which the code lets in.

*Alert rules.* `RulesInv` is `TypeOK` and `LeftIsQuiet`: a rule has as many ticks
left as it must be quiet for, and is in COOLDOWN while it has any. The second half is
the reason that `Fire`, whose guard looks at the state as well as at the clock,
never fires early; `FiresOncePerCooldown` follows with one lemma about each step.
The rules, the cooldowns and the content of the file are arbitrary sets.

*Alert delivery.* `AlertsAccounted` alone is not inductive: `send` would lose an
alert on a closed pool, so `ShutdownInv` has to say that the pool is closed only
after the check thread has ended; and that the history says "delivered" only of
what has arrived needs `ArrivalInv`, which counts arrivals against attempts. That
every finished alert was recorded with its outcome, and that the history has the
last ones in the order in which they ended, rests on a lemma about a sequence that
drops its oldest element (`LastOnes`). `NoAlertLost` states all this.

Every invariant and every action property that a passing run checks is a theorem,
and so are both refinements. Only model-checked are the liveness properties, since
fairness and ENABLED are out of the prover's reach: `ClaimedIsPopped`,
`AcceptedFinishes`, `ShutdownReturns`, `PushedIsMatched`, `ShutdownEnds`,
`ReportedIsLoaded`, `FiresWithDatabase`, `AlertsFinish`, `AcceptedIsServed` and
`StopReturns`. The prover cannot use the induction theorems of the library either,
which take an operator as a parameter; where an induction over data is needed, it is
replaced by the least counterexample (`NatMin`, `LeastNat`), which is a statement
about sets.

## Findings

Two runs show a disagreement between the code and what the repository says of it;
`PROJECT.json` quotes both. The retry after a full buffer pushes an empty entry
(`pipeline_retry`). `POST /ingest` stores an entry in its project's database and
pushes it to the pipeline too, whose callback stores it in the default project's
database, whoever posted it (`tenants_isolation`).

Others were met while modelling and have no run of their own:

- `main.cpp:19` says that all threads drain and exit. `drain` ends at the first
  empty pop while watchers may still push, and does not call the entry callback, so
  that accepted entries are not stored (`LogPipeline.hpp:90`, `:164-176`).
- A client that stays connected and silent blocks the shutdown
  (`NetworkIngester.hpp:149`).
- A full disk destroys the database file (`TSDB.hpp:287-292`).
- It destroys the accounts and the projects as well: `save_locked` does not look at
  the stream and renames the file that was cut short onto the good one
  (`UserStore.hpp:144-147`, `ProjectStore.hpp:216-219`), and the client is told of
  success. The next start then knows no account and no project, and an address can
  be registered anew. `UserStore.hpp:6` says "atomic rename to prevent corruption",
  `ProjectStore.hpp:7` "atomic rename". `AnsweredIsOnDisk` and `ConfirmedAccount` leave out
  exactly this (`torn`, `lost`), and show that a short write does no lasting harm if
  a whole one follows before the program ends.
- Revocations are kept in memory only (`AuthManager.hpp:290`), while the secret and
  the tokens survive a restart: a revoked token is valid again after it.
- `README.md:67` and `HttpServer.hpp:71` of the repository promise 100 requests per
  minute and key, `tests/test_http_server.cpp:14` that more are refused. A bucket
  starts full and refills while it is emptied, so that 200 requests get through in a
  minute (`HttpServer.hpp:67-82`). `RateBound` is the bound that does hold.
- `AlertDelivery.hpp:8` promises 3 retries after 1, 2 and 4 seconds, and the comment
  at `:255` repeats it. The loop makes 3 attempts, which are 2 retries, and never
  pauses for 4 seconds; `AlertsAccounted` counts them.
- A rule file that is replaced by a rename, or changed before the watch is set up,
  is not loaded (`AlertRulesEngine.hpp:150`, `:384`), although `README.md:190` says
  that changes take effect within 10 seconds.
- A rule without `project_id` does not fire when no default project is configured,
  which is how the repository configures it (`AlertRulesEngine.hpp:233-239`).
- Lines are skipped that are written while `read_new_lines` goes from the end it
  met to the end it seeks (`FileWatcher.hpp:213-218`), and lines written between the
  opening of the file and the watch wait for the next change (`:150`, `:226`).
- One failed `accept` ends the accepting thread for good (`NetworkIngester.hpp:140`).

## What is left

1. Proofs: that `Pipeline` with the actions of ring and pool replaced by their
   implementations behaves as it does with the promises; so far this rests on the two
   refinements, one component at a time.
2. `FileTail` composed with `Pipeline`, so that a full buffer delays a read while
   the file changes; a rotation by renaming.
3. The polling and kqueue branches of the watcher.

## What is not modelled

Regular expressions, the code indexer's ranking, cryptography, JSON and HTTP
syntax, the terminal and web pages, and the Python client, which sends one
synchronous request per call. `std::localtime`'s shared buffer, latency counters and
recent lines only affect what is displayed. `AlertManager` and `StatsAggregator`
keep counters, a log and a display file, which no decision depends on. The status
callback that `main` assigns while handlers may call it is a data race at start-up
only. Exceptions that leave a task, such as a regular expression that runs out of
memory, end the process and are not modelled; nor are files that somebody else has
damaged, a full disk under the database, and the branches for macOS. Two failures of
the database's write that leave the file as it was, a temporary file that cannot be
opened and a rename that throws (`TSDB.hpp:285`, `:293-295`), are left out as well,
and so is a temporary file that a crash leaves behind, which the next write begins
anew.

------------------------------- MODULE Tenants -------------------------------
(***************************************************************************)
(* The tenants: the project routes and POST /ingest of src/HttpServer.hpp, *)
(* the databases of src/TenantManager.hpp, the callback of src/main.cpp by *)
(* which the pipeline stores what it has matched in the database of the    *)
(* default project, and the stop of all this, on top of ProjectStore.      *)
(*                                                                         *)
(* A step is one critical section.  A request carries the user whom its    *)
(* token names; Access says which tokens do.  A database is the set of the *)
(* entries in it: TSDB says how it orders and evicts them, and how a write *)
(* of its file survives a crash in the middle.                             *)
(***************************************************************************)
EXTENDS ProjectStore

CONSTANTS
    Handlers,   \* threads of the HTTP server
    Workers,    \* threads of the pipeline's pool
    Default,    \* default_project_id, or None
    RingSize,   \* the capacity of the ring buffer
    MaxEntries, \* bound: how many entries are posted
    MaxStarts   \* bound: how often the program starts

Threads == Handlers \cup Workers
Entries == 1..MaxEntries

ASSUME TenantsAssumption ==
    /\ Default \in Ids \cup {None}
    /\ Handlers \cap Workers = {}
    /\ {RingSize, MaxEntries, MaxStarts} \subseteq Nat

VARIABLES
    thread,     \* what each thread is doing
    map,        \* the ids in tsdb_map_
    tsdb,       \* the entries in each database that is in memory
    bin,        \* the entries in each database's file
    ring,       \* the entries in the ring buffer and in the pool's queue
    phase,      \* where the program is between start and end
    starts,     \* how often it was started
    sent,       \* history: the key with which each entry was posted
    accepted    \* history: the entries that were answered with "accepted"

dataVars == <<map, tsdb, bin>>
lifeVars == <<phase, starts>>
postVars == <<ring, sent, accepted>>
vars == <<storeVars, thread, dataVars, lifeVars, postVars>>

Idle == [at |-> "idle"]

\* An entry reaches a database from the request or from the pipeline's callback.
Stored(n, way) == <<n, way>>

\* What the databases of the projects in m hold when they have loaded their files.
InMemory(m) == [i \in Ids |-> IF i \in m THEN bin[i] ELSE {}]

\* The constructor of TenantManager loads the database of the default project.
Prewarmed(index) == IF Default # None /\ index[Default] # 0 THEN {Default} ELSE {}

Init ==
    /\ StoreInit
    /\ thread = [t \in Threads |-> Idle]
    /\ bin = [i \in Ids |-> {}]
    /\ map = Prewarmed(by_id)
    /\ tsdb = [i \in Ids |-> {}]
    /\ ring = {}
    /\ phase = "up" /\ starts = 1
    /\ sent = <<>> /\ accepted = {}
-----------------------------------------------------------------------------
(* Requests about projects *)

Go(t, job) == thread' = [thread EXCEPT ![t] = job]
Free(h) == phase = "up" /\ thread[h] = Idle

\* handle_proj_create: one call of the store.
PostProject(u, i, k) ==
    /\ \E h \in Handlers : Free(h)
    /\ CreateProject(u, i, k)
    /\ UNCHANGED <<thread, dataVars, lifeVars, postVars>>

\* Mutant: any project that exists will do.
VerifyExists(h, op, u, i) ==
    /\ Free(h)
    /\ by_id[i] # 0
    /\ Go(h, [at |-> op, user |-> u, id |-> i])
    /\ UNCHANGED <<storeVars, dataVars, lifeVars, postVars>>

\* verify_ownership, with which the other requests about project i begin; it answers
\* with an error when the project is unknown or somebody else's.
VerifyOwnership(h, op, u, i) ==
    /\ Free(h)
    /\ by_id[i] # 0 /\ projects[by_id[i]].owner = u
    /\ Go(h, [at |-> op, user |-> u, id |-> i])
    /\ UNCHANGED <<storeVars, dataVars, lifeVars, postVars>>

\* The second half of handle_proj_delete, and of handle_proj_rotate: by now somebody
\* else may have deleted the project.
Change(h) ==
    /\ \/ thread[h].at = "delete" /\ DeleteProject(thread[h].id, thread[h].user)
       \/ thread[h].at = "rotate"
          /\ \E k \in Keys : RotateKey(thread[h].id, thread[h].user, k)
       \/ thread[h].at \in {"delete", "rotate"}
          /\ ~OwnedBy(thread[h].id, thread[h].user) /\ UNCHANGED storeVars
    /\ Go(h, Idle)
    /\ UNCHANGED <<dataVars, lifeVars, postVars>>

-----------------------------------------------------------------------------
(* POST /ingest *)

\* handle_ingest up to find_by_api_key; a request whose key is unknown ends here, with
\* nothing changed.
Route(h, k) ==
    /\ Free(h)
    /\ Len(sent) < MaxEntries
    /\ FindByKey(k) # None
    /\ sent' = Append(sent, k)
    /\ Go(h, [at |-> "ingest", id |-> FindByKey(k), entry |-> Len(sent) + 1])
    /\ UNCHANGED <<storeVars, dataVars, lifeVars, ring, accepted>>

\* try_push, whose result nobody looks at, and the answer.
PushAndAnswer(h) ==
    /\ thread[h].at = "push"
    /\ ring' = IF Cardinality(ring) < RingSize THEN ring \cup {thread[h].entry} ELSE ring
    /\ accepted' = accepted \cup {thread[h].entry}
    /\ Go(h, Idle)
    /\ UNCHANGED <<storeVars, dataVars, lifeVars, sent>>

-----------------------------------------------------------------------------
(* get_or_create_tsdb and what is done with the database *)

\* The database of its project is in the map, which a shared lock tells ...
Knows(t) == thread[t].id \in map

\* ... and if not, the thread waits for the exclusive lock.
Miss(t) ==
    /\ thread[t].at \in {"ingest", "query", "tap"}
    /\ ~Knows(t)
    /\ Go(t, [at |-> "create", then |-> thread[t]])
    /\ UNCHANGED <<storeVars, dataVars, lifeVars, postVars>>

\* Mutant: the map is not looked at again.
CreateUnchecked(t) ==
    /\ thread[t].at = "create"
    /\ LET i == thread[t].then.id
       IN  /\ map' = map \cup {i}
           /\ tsdb' = [tsdb EXCEPT ![i] = bin[i]]
    /\ Go(t, thread[t].then)
    /\ UNCHANGED <<storeVars, bin, lifeVars, postVars>>

\* A new database loads its file, unless another thread was faster.
Create(t) ==
    /\ thread[t].at = "create"
    /\ LET i == thread[t].then.id
       IN  /\ map' = map \cup {i}
           /\ tsdb' = IF i \in map THEN tsdb ELSE [tsdb EXCEPT ![i] = bin[i]]
    /\ Go(t, thread[t].then)
    /\ UNCHANGED <<storeVars, bin, lifeVars, postVars>>

\* The insert of a request.
Insert(h) ==
    /\ thread[h].at = "ingest" /\ Knows(h)
    /\ tsdb' = [tsdb EXCEPT ![thread[h].id] = @ \cup {Stored(thread[h].entry, "request")}]
    /\ Go(h, [at |-> "push", entry |-> thread[h].entry])
    /\ UNCHANGED <<storeVars, map, bin, lifeVars, postVars>>

\* The keys in the answer of handle_proj_list.
KeysListed(u) == {p.key : p \in ListByOwner(u)}

\* What the queries of handle_proj_query, _stats, _apps and _metrics read.
Answer(h) == tsdb[thread[h].id]

Query(h) ==
    /\ thread[h].at = "query" /\ Knows(h)
    /\ Go(h, Idle)
    /\ UNCHANGED <<storeVars, dataVars, lifeVars, postVars>>

-----------------------------------------------------------------------------
(* The callback of the pipeline, on a thread of its pool *)

Callback(w, n) ==
    /\ phase # "down" /\ thread[w] = Idle
    /\ n \in ring
    /\ ring' = ring \ {n}
    /\ Go(w, IF Default = None THEN Idle ELSE [at |-> "tap", id |-> Default, entry |-> n])
    /\ UNCHANGED <<storeVars, dataVars, lifeVars, sent, accepted>>

TapDefault(w) ==
    /\ thread[w].at = "tap" /\ Knows(w)
    /\ tsdb' = [tsdb EXCEPT ![Default] = @ \cup {Stored(thread[w].entry, "callback")}]
    /\ Go(w, Idle)
    /\ UNCHANGED <<storeVars, map, bin, lifeVars, postVars>>

-----------------------------------------------------------------------------
(* Files, stop and start *)

\* The entries of project i: its file's, as long as its database is not loaded.
Contents(i) == IF i \in map THEN tsdb[i] ELSE bin[i]

\* The persistence thread of a database writes its file.
Persist(i) ==
    /\ phase # "down"
    /\ i \in map
    /\ bin' = [bin EXCEPT ![i] = tsdb[i]]
    /\ UNCHANGED <<storeVars, thread, map, tsdb, lifeVars, postVars>>

\* The stop flag; the HTTP server takes no more requests.
StopFlag ==
    /\ phase = "up"
    /\ phase' = "stopping"
    /\ UNCHANGED <<storeVars, thread, dataVars, starts, postVars>>

\* Mutant: the server does not wait for its handlers.
StopAllEarly ==
    /\ phase = "stopping"
    /\ \A t \in Workers : thread[t] = Idle
    /\ bin' = [i \in Ids |-> Contents(i)]
    /\ phase' = "down"
    /\ UNCHANGED <<storeVars, thread, map, tsdb, starts, postVars>>

\* The server's stop waits for its handlers, the pool's shutdown for the callbacks;
\* then stop_all writes every file.
StopAll ==
    /\ phase = "stopping"
    /\ \A t \in Threads : thread[t] = Idle
    /\ bin' = [i \in Ids |-> Contents(i)]
    /\ phase' = "down"
    /\ UNCHANGED <<storeVars, thread, map, tsdb, starts, postVars>>

\* Where an entry posted with a valid key belongs.
Home(n) == issuedTo[sent[n]]

\* The program starts again, after its end or after a crash at any point; what was
\* only in memory is gone.
Start ==
    /\ starts < MaxStarts
    /\ starts' = starts + 1
    /\ Load
    /\ map' = Prewarmed(by_id')
    /\ tsdb' = InMemory(map')
    /\ bin' = bin
    /\ thread' = [t \in Threads |-> Idle]
    /\ ring' = {}
    /\ phase' = "up"
    /\ accepted' = {n \in accepted : Stored(n, "request") \in bin[Home(n)]}
    /\ sent' = sent

\* The program is down for good, or the bound on keys leaves a rotation without one.
Ended ==
    /\ starts = MaxStarts
    /\ phase = "down" \/ \A k \in Keys : issuedTo[k] # None
    /\ UNCHANGED vars

-----------------------------------------------------------------------------
Next ==
    \/ \E u \in Users, i \in Ids, k \in Keys : PostProject(u, i, k)
    \/ \E h \in Handlers, op \in {"delete", "rotate", "query"}, u \in Users, i \in Ids :
          VerifyOwnership(h, op, u, i)
    \/ \E h \in Handlers, k \in Keys : Route(h, k)
    \/ \E h \in Handlers : Change(h) \/ PushAndAnswer(h) \/ Insert(h) \/ Query(h)
    \/ \E t \in Threads : Miss(t) \/ Create(t)
    \/ \E w \in Workers : (\E n \in ring : Callback(w, n)) \/ TapDefault(w)
    \/ \E i \in Ids : Persist(i)
    \/ StopFlag \/ StopAll \/ Start
    \/ Ended

Spec == Init /\ [][Next]_vars

-----------------------------------------------------------------------------
(* Properties *)

\* An entry that was answered with "accepted" is in the database of the project whose
\* key it came with, whatever happens to the key, the project and the map between the
\* steps of the request, and survives a restart once its file was written.
AcceptedIsKept == \A n \in accepted : Stored(n, "request") \in Contents(Home(n))

\* A user is answered with keys of his own projects only, and with entries that were
\* posted with such keys; entries of the pipeline's callback are another matter, see
\* TenantsIsolated.
OwnDataOnly ==
    /\ \A u \in Users : \A k \in KeysListed(u) : ownerOf[issuedTo[k]] = u
    /\ \A h \in Handlers : thread[h].at = "query" /\ Knows(h) =>
          \A e \in Answer(h) : e[2] = "request" => ownerOf[Home(e[1])] = thread[h].user

\* When main is through its shutdown, every accepted entry is in its project's file.
StopSavesAccepted ==
    phase = "down" => \A n \in accepted : Stored(n, "request") \in bin[Home(n)]

\* "Each project gets its own isolated TSDB" (TenantManager.hpp:5): it holds nothing
\* that was posted with another project's key.
TenantsIsolated == \A i \in Ids : \A e \in tsdb[i] : Home(e[1]) = i
=============================================================================

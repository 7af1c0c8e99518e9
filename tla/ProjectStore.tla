----------------------------- MODULE ProjectStore -----------------------------
(***************************************************************************)
(* The projects of src/ProjectStore.hpp: a vector of projects, three index *)
(* maps into it, and a JSON file that every change rewrites.  The public   *)
(* functions hold the store's mutex from start to end, so that each is one *)
(* step; Tenants interleaves the requests that call them.                  *)
(*                                                                         *)
(* Random ids and keys are taken to be fresh.  The file is the set of the  *)
(* live projects: the order in which a load brings them back is left open. *)
(* A disk may be full, which the code does not notice.                     *)
(***************************************************************************)
EXTENDS Integers, Sequences, FiniteSets

CONSTANTS
    Users,      \* user ids, which UserStore hands out
    Ids, Keys,  \* what random_hex may return as project ids and API keys
    None,       \* the empty string
    Saved       \* the projects in the file when the program first starts

\* A project; the name and the time of creation decide nothing.
Project == [id : Ids, owner : Users, key : Keys]

ASSUME StoreAssumption ==
    /\ None \notin Ids \cup Keys \cup Users
    /\ Saved \subseteq Project /\ IsFiniteSet(Saved)
    /\ "deleted" \notin Keys /\ None # "deleted"
    /\ \A p, q \in Saved : p # q => p.id # q.id /\ p.key # q.key

VARIABLES
    projects,   \* projects_
    by_id,      \* by_id_: a position in projects, or 0
    by_api_key, \* by_api_key_: the same
    by_owner,   \* by_owner_: a set of positions
    disk,       \* the projects that can be read in persistence_path_
    torn,       \* the file was cut short when it was last written
    ownerOf,    \* history: the owner of every project that ever was
    issuedTo,   \* history: the project every key was made for
    answered,   \* history: the key the owner was last told, "deleted", or None after
                \* an error
    retired,    \* history: the keys that a confirmed change has made invalid
    lost        \* history: the projects, known to their owners, that a load found gone

indexes == <<projects, by_id, by_api_key, by_owner>>
fileVars == <<disk, torn>>
histories == <<ownerOf, issuedTo, answered, retired, lost>>
storeVars == <<indexes, fileVars, histories>>

Slots == DOMAIN projects

\* The projects that are not marked as deleted.
Live(s) == {s[n] : n \in {m \in DOMAIN s : s[m].id # None}}

-----------------------------------------------------------------------------
(* The file *)

\* What load makes of the index maps for the vector s.
IdIndex(s) == [i \in Ids |->
    IF \E n \in DOMAIN s : s[n].id = i THEN CHOOSE n \in DOMAIN s : s[n].id = i ELSE 0]

KeyIndex(s) == [k \in Keys |->
    IF \E n \in DOMAIN s : s[n].key = k THEN CHOOSE n \in DOMAIN s : s[n].key = k ELSE 0]

OwnerIndex(s) == [u \in Users |-> {n \in DOMAIN s : s[n].owner = u}]

\* The vectors in which the projects of content may come back.
Vectors(content) ==
    {s \in [1..Cardinality(content) -> content] : {s[n] : n \in DOMAIN s} = content}

\* load, when the program starts again.  It gives up on a file that was cut short.
Load ==
    /\ \E s \in Vectors(disk) :
          /\ projects' = s
          /\ by_id' = IdIndex(s)
          /\ by_api_key' = KeyIndex(s)
          /\ by_owner' = OwnerIndex(s)
    /\ lost' = IF torn THEN lost \cup {i \in Ids : answered[i] \in Keys} ELSE lost
    /\ UNCHANGED <<fileVars, ownerOf, issuedTo, answered, retired>>

\* A change of project i is confirmed: no key but k stays valid for it.
Confirm(i, k) ==
    /\ answered' = [answered EXCEPT ![i] = k]
    /\ retired' = retired \cup {l \in Keys \ {k} : issuedTo'[l] = i}

\* Mutant: the file is written before the change.
SaveFirst(i, k) ==
    disk' = Live(projects) /\ torn' = FALSE /\ Confirm(i, k) /\ lost' = lost

\* save_locked after a change of project i, the last call of each change.  The new
\* file replaces the old one; or it does so although the disk was full and it is cut
\* short, since nobody looks at the stream; and the store returns success, which the
\* handler answers.  Or filesystem::rename throws, and the client gets an error, while
\* the change stays in memory.
Save(i, k) ==
    /\ lost' = lost
    /\ \/ disk' = Live(projects') /\ torn' = FALSE /\ Confirm(i, k)
       \/ disk' = {} /\ torn' = TRUE /\ Confirm(i, k)
       \/ answered' = [answered EXCEPT ![i] = None] /\ UNCHANGED <<fileVars, retired>>

-----------------------------------------------------------------------------
(* Changes *)

StoreInit ==
    /\ disk = Saved /\ torn = FALSE
    /\ projects \in Vectors(Saved)
    /\ by_id = IdIndex(projects)
    /\ by_api_key = KeyIndex(projects)
    /\ by_owner = OwnerIndex(projects)
    /\ ownerOf = [i \in Ids |->
          IF \E p \in Saved : p.id = i THEN (CHOOSE p \in Saved : p.id = i).owner ELSE None]
    /\ issuedTo = [k \in Keys |->
          IF \E p \in Saved : p.key = k THEN (CHOOSE p \in Saved : p.key = k).id ELSE None]
    /\ answered = [i \in Ids |->
          IF \E p \in Saved : p.id = i THEN (CHOOSE p \in Saved : p.id = i).key ELSE None]
    /\ retired = {} /\ lost = {}

\* create_project, with the id and the key that random_hex returns.
CreateProject(u, i, k) ==
    /\ ownerOf[i] = None /\ issuedTo[k] = None
    /\ LET idx == Len(projects) + 1
       IN  /\ projects' = Append(projects, [id |-> i, owner |-> u, key |-> k])
           /\ by_id' = [by_id EXCEPT ![i] = idx]
           /\ by_api_key' = [by_api_key EXCEPT ![k] = idx]
           /\ by_owner' = [by_owner EXCEPT ![u] = @ \cup {idx}]
    /\ ownerOf' = [ownerOf EXCEPT ![i] = u]
    /\ issuedTo' = [issuedTo EXCEPT ![k] = i]
    /\ Save(i, k)

\* What delete_project and rotate_api_key ask before they change anything.
OwnedBy(i, u) == by_id[i] # 0 /\ projects[by_id[i]].owner = u

\* Mutant: the key stays in its index.
DeleteKeepsKey(i, u) ==
    /\ OwnedBy(i, u)
    /\ projects' = [projects EXCEPT ![by_id[i]].id = None]
    /\ by_owner' = [by_owner EXCEPT ![u] = @ \ {by_id[i]}]
    /\ by_id' = [by_id EXCEPT ![i] = 0]
    /\ UNCHANGED <<by_api_key, ownerOf, issuedTo>>
    /\ Save(i, "deleted")

\* delete_project: the slot stays in the vector, with an empty id.
DeleteProject(i, u) ==
    /\ OwnedBy(i, u)
    /\ projects' = [projects EXCEPT ![by_id[i]].id = None]
    /\ by_api_key' = [by_api_key EXCEPT ![projects[by_id[i]].key] = 0]
    /\ by_owner' = [by_owner EXCEPT ![u] = @ \ {by_id[i]}]
    /\ by_id' = [by_id EXCEPT ![i] = 0]
    /\ UNCHANGED <<ownerOf, issuedTo>>
    /\ Save(i, "deleted")

\* Mutant: the old key stays in its index.
RotateKeepsKey(i, u, k) ==
    /\ OwnedBy(i, u)
    /\ issuedTo[k] = None
    /\ projects' = [projects EXCEPT ![by_id[i]].key = k]
    /\ by_api_key' = [by_api_key EXCEPT ![k] = by_id[i]]
    /\ issuedTo' = [issuedTo EXCEPT ![k] = i]
    /\ Save(i, k)
    /\ UNCHANGED <<by_id, by_owner, ownerOf>>

\* rotate_api_key, with the key that random_hex returns.
RotateKey(i, u, k) ==
    /\ OwnedBy(i, u)
    /\ issuedTo[k] = None
    /\ projects' = [projects EXCEPT ![by_id[i]].key = k]
    /\ by_api_key' = [by_api_key EXCEPT ![projects[by_id[i]].key] = 0, ![k] = by_id[i]]
    /\ issuedTo' = [issuedTo EXCEPT ![k] = i]
    /\ Save(i, k)
    /\ UNCHANGED <<by_id, by_owner, ownerOf>>

StoreNext ==
    \/ \E u \in Users, i \in Ids, k \in Keys : CreateProject(u, i, k) \/ RotateKey(i, u, k)
    \/ \E u \in Users, i \in Ids : DeleteProject(i, u)
    \/ Load

StoreSpec == StoreInit /\ [][StoreNext]_storeVars

-----------------------------------------------------------------------------
(* Reads *)

\* find_by_api_key: the id of the project with key k, None if there is none.
FindByKey(k) == IF by_api_key[k] = 0 THEN None ELSE projects[by_api_key[k]].id

\* list_by_owner.
ListByOwner(u) == {projects[n] : n \in by_owner[u]}

-----------------------------------------------------------------------------
(* Properties *)

StoreTypeOK ==
    /\ projects \in Seq([id : Ids \cup {None}, owner : Users, key : Keys])
    /\ by_id \in [Ids -> Slots \cup {0}]
    /\ by_api_key \in [Keys -> Slots \cup {0}]
    /\ by_owner \in [Users -> SUBSET Slots]
    /\ disk \subseteq Project
    /\ torn \in BOOLEAN
    /\ ownerOf \in [Ids -> Users \cup {None}]
    /\ issuedTo \in [Keys -> Ids \cup {None}]
    /\ answered \in [Ids -> Keys \cup {None, "deleted"}]
    /\ retired \subseteq Keys
    /\ lost \subseteq Ids

\* Whatever was created, rotated, deleted and loaded before, each of the three maps
\* leads to exactly the live projects, by their current id, key and owner.
IndexesAgree ==
    /\ \A i \in Ids : by_id[i] # 0 => projects[by_id[i]].id = i
    /\ \A k \in Keys : by_api_key[k] # 0 =>
          projects[by_api_key[k]].key = k /\ projects[by_api_key[k]].id # None
    /\ \A u \in Users : \A n \in by_owner[u] :
          projects[n].owner = u /\ projects[n].id # None
    /\ \A n \in Slots : projects[n].id # None =>
          /\ by_id[projects[n].id] = n
          /\ by_api_key[projects[n].key] = n
          /\ n \in by_owner[projects[n].owner]

\* What the owner was told with a success is in the file, the project with its newest
\* key, or its absence, unless the last write was cut short.  One short write does no
\* harm for good: the next whole one has everything again, but for the projects that
\* a restart in between has forgotten.
AnsweredIsOnDisk ==
    ~torn => \A i \in Ids \ lost :
        /\ answered[i] \in Keys => \E p \in disk : p.id = i /\ p.key = answered[i]
        /\ answered[i] = "deleted" => \A p \in disk : p.id # i

\* After a rotation or a deletion was confirmed, the old keys lead nowhere, also
\* after a crash and a load and after later changes that failed half-way.
OldKeysStop == \A k \in retired : FindByKey(k) = None
=============================================================================

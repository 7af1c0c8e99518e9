---------------------------- MODULE TenantsProofs ----------------------------
(***************************************************************************)
(* Proofs about ProjectStore and Tenants for any users, ids, keys, first   *)
(* file, threads and number of entries.                                    *)
(*                                                                         *)
(* The store: the index maps agree with the vector, invalid keys lead      *)
(* nowhere, and what was confirmed is in the file.  Its inductive          *)
(* invariant adds to the three properties where ids and keys come from     *)
(* (SlotInv, DiskInv), that invalid keys are nowhere (RetiredInv), and     *)
(* what is confirmed is in memory as well (AnsweredInv), from where the    *)
(* next save takes it, even after one that was cut short.                  *)
(*                                                                         *)
(* The tenants: every step of theirs is one of the store or none, so that  *)
(* the store's invariant holds here too.  Home and owner of an entry never *)
(* change once they are given; the rest of the invariant says that what a  *)
(* thread has looked up before it lost the lock stays true because of that *)
(* (JobsRightful), and which entries a database may have (OwnEntries).     *)
(***************************************************************************)
EXTENDS Tenants, FiniteSetTheorems, SequenceTheorems, TLAPS

Row == [id : Ids \cup {None}, owner : Users, key : Keys]

\* The key of a slot was made for its project, and the project has its owner.
SlotInv ==
    \A n \in Slots :
        /\ issuedTo[projects[n].key] # None
        /\ projects[n].id # None =>
              /\ issuedTo[projects[n].key] = projects[n].id
              /\ ownerOf[projects[n].id] = projects[n].owner

\* So it is in the file, which has every project once, or none when it was cut short.
DiskInv ==
    /\ IsFiniteSet(disk) /\ (torn => disk = {})
    /\ \A p \in disk : issuedTo[p.key] = p.id /\ ownerOf[p.id] = p.owner
    /\ \A p, q \in disk : p.id = q.id => p = q

RetiredInv ==
    \A k \in retired :
        /\ issuedTo[k] # None
        /\ \A n \in Slots : projects[n].id # None => projects[n].key # k
        /\ \A p \in disk : p.key # k

AnsweredInv ==
    \A i \in Ids \ lost :
        /\ answered[i] \in Keys => by_id[i] # 0 /\ projects[by_id[i]].key = answered[i]
        /\ answered[i] = "deleted" => by_id[i] = 0

MemoryInv == StoreTypeOK /\ SlotInv /\ IndexesAgree

StoreInv == MemoryInv /\ DiskInv /\ RetiredInv /\ AnsweredInv /\ AnsweredIsOnDisk

-----------------------------------------------------------------------------
(* The tenants *)

Ways == {"request", "callback"}

\* What a thread may be doing.
Jobs ==
    [at : {"delete", "rotate", "query"}, user : Users, id : Ids]
    \cup [at : {"ingest", "tap"}, id : Ids, entry : Entries]
Job == Jobs \cup {Idle} \cup [at : {"push"}, entry : Entries] \cup [at : {"create"}, then : Jobs]

TypeOK ==
    /\ thread \in [Threads -> Job]
    /\ map \subseteq Ids
    /\ tsdb \in [Ids -> SUBSET (Entries \X Ways)]
    /\ bin \in [Ids -> SUBSET (Entries \X Ways)]
    /\ ring \subseteq Entries
    /\ phase \in {"up", "stopping", "down"}
    /\ starts \in Nat
    /\ sent \in Seq(Keys) /\ Len(sent) <= MaxEntries
    /\ accepted \subseteq DOMAIN sent

\* Every entry was posted with a key that was made for a project.
HasHome == \A n \in DOMAIN sent : Home(n) \in Ids

\* A job that waits for a database to be created is the job it was.
Work(job) == IF job.at = "create" THEN job.then ELSE job

\* A verified user owns the project, also when it was deleted or its key was changed
\* since; an entry on its way goes to the project it was posted for, and is there when
\* it is only to be answered.
Rightful(job) ==
    /\ job.at \in {"delete", "rotate", "query"} => ownerOf[job.id] = job.user
    /\ job.at = "ingest" => job.entry \in DOMAIN sent /\ job.id = Home(job.entry)
    /\ job.at = "push" => /\ job.entry \in DOMAIN sent
                          /\ Home(job.entry) \in map
                          /\ Stored(job.entry, "request") \in tsdb[Home(job.entry)]

JobsRightful == \A t \in Threads : Rightful(Work(thread[t]))

\* What came with a request is of the project whose database has it.
OwnEntries ==
    \A i \in Ids : \A e \in tsdb[i] \cup bin[i] :
        e[2] = "request" => e[1] \in DOMAIN sent /\ Home(e[1]) = i

\* After the end no thread has anything to do.
AllIdle == phase = "down" => \A t \in Threads : thread[t] = Idle

TenantInv ==
    /\ StoreInv /\ TypeOK /\ HasHome /\ JobsRightful /\ OwnEntries /\ AllIdle
    /\ AcceptedIsKept /\ StopSavesAccepted

-----------------------------------------------------------------------------
(* The store *)

\* A vector has finitely many projects.
LEMMA LiveFinite ==
    ASSUME NEW s \in Seq(Row)
    PROVE  IsFiniteSet(Live(s))
<1> DEFINE S == {m \in DOMAIN s : s[m].id # None}
           f == [m \in S |-> s[m]]
<1>1. IsFiniteSet(1..Len(s)) /\ Len(s) \in Nat
  BY FS_Interval, LenProperties
<1>2. S \subseteq 1..Len(s)
  BY LenProperties
<1>3. IsFiniteSet(S)
  BY <1>1, <1>2, FS_Subset
<1>4. f \in Surjection(S, Live(s))
  BY DEF Live, Surjection
<1> QED BY <1>3, <1>4, FS_Surjection

LEMMA LiveRows ==
    ASSUME NEW s \in Seq(Row)
    PROVE  Live(s) \subseteq Project
<1> SUFFICES ASSUME NEW n \in DOMAIN s, s[n].id # None PROVE s[n] \in Project
  BY DEF Live
<1>1. s[n] \in Row
  BY ElementOfSeq, LenProperties
<1> QED BY <1>1 DEF Row, Project

\* The indexes that load builds for a vector without duplicates.
LEMMA BuiltIndexes ==
    ASSUME NEW content \in SUBSET Project, IsFiniteSet(content),
           \A p, q \in content : p.id = q.id \/ p.key = q.key => p = q,
           NEW s \in Vectors(content)
    PROVE  /\ s \in Seq(Row)
           /\ \A n \in DOMAIN s : s[n] \in content
           /\ \A p \in content : \E n \in DOMAIN s : s[n] = p
           /\ IdIndex(s) \in [Ids -> DOMAIN s \cup {0}]
           /\ KeyIndex(s) \in [Keys -> DOMAIN s \cup {0}]
           /\ OwnerIndex(s) \in [Users -> SUBSET DOMAIN s]
           /\ 0 \notin DOMAIN s
           /\ \A i \in Ids : IdIndex(s)[i] # 0 => s[IdIndex(s)[i]].id = i
           /\ \A k \in Keys : KeyIndex(s)[k] # 0 => s[KeyIndex(s)[k]].key = k
           /\ \A n \in DOMAIN s :
                 /\ IdIndex(s)[s[n].id] = n
                 /\ KeyIndex(s)[s[n].key] = n
                 /\ n \in OwnerIndex(s)[s[n].owner]
<1> DEFINE n == Cardinality(content)
<1>1. n \in Nat
  BY FS_CardinalityType
<1>2. s \in [1..n -> content] /\ {s[m] : m \in DOMAIN s} = content /\ DOMAIN s = 1..n
  BY DEF Vectors
<1>3. IsFiniteSet(1..n) /\ Cardinality(1..n) = n
  BY <1>1, FS_Interval
<1>4. s \in Surjection(1..n, content)
  BY <1>2 DEF Surjection
<1>5. s \in Injection(1..n, content)
  BY <1>3, <1>4, FS_Surjection
<1>6. \A m, l \in DOMAIN s : s[m] = s[l] => m = l
  BY <1>2, <1>5 DEF Injection, IsInjective
<1>7. \A m \in DOMAIN s : s[m] \in content /\ s[m] \in Project
  BY <1>2
<1>8. s \in Seq(Row) /\ 0 \notin DOMAIN s
  <2>1. content \subseteq Row
    BY DEF Project, Row
  <2>2. s \in [1..n -> Row]
    BY <1>2, <2>1
  <2> QED BY <1>1, <1>2, <2>2
<1>9. \A m, l \in DOMAIN s : s[m].id = s[l].id \/ s[m].key = s[l].key => m = l
  BY <1>6, <1>7
<1>10. ASSUME NEW i \in Ids
       PROVE  /\ IdIndex(s)[i] \in DOMAIN s \cup {0}
              /\ IdIndex(s)[i] # 0 => s[IdIndex(s)[i]].id = i
  BY DEF IdIndex
<1>11. ASSUME NEW k \in Keys
       PROVE  /\ KeyIndex(s)[k] \in DOMAIN s \cup {0}
              /\ KeyIndex(s)[k] # 0 => s[KeyIndex(s)[k]].key = k
  BY DEF KeyIndex
<1>12. ASSUME NEW m \in DOMAIN s
       PROVE  /\ IdIndex(s)[s[m].id] = m
              /\ KeyIndex(s)[s[m].key] = m
              /\ m \in OwnerIndex(s)[s[m].owner]
  <2>1. s[m].id \in Ids /\ s[m].key \in Keys /\ s[m].owner \in Users
    BY <1>7 DEF Project
  <2>2. IdIndex(s)[s[m].id] = CHOOSE l \in DOMAIN s : s[l].id = s[m].id
    BY <2>1 DEF IdIndex
  <2>3. KeyIndex(s)[s[m].key] = CHOOSE l \in DOMAIN s : s[l].key = s[m].key
    BY <2>1 DEF KeyIndex
  <2>4. IdIndex(s)[s[m].id] = m
    BY <1>9, <2>2
  <2>5. KeyIndex(s)[s[m].key] = m
    BY <1>9, <2>3
  <2> QED BY <2>1, <2>4, <2>5 DEF OwnerIndex
<1>13. IdIndex(s) \in [Ids -> DOMAIN s \cup {0}]
  BY <1>10 DEF IdIndex
<1>14. KeyIndex(s) \in [Keys -> DOMAIN s \cup {0}]
  BY <1>11 DEF KeyIndex
<1>15. OwnerIndex(s) \in [Users -> SUBSET DOMAIN s]
  BY DEF OwnerIndex
<1> QED BY <1>2, <1>7, <1>8, <1>10, <1>11, <1>12, <1>13, <1>14, <1>15

\* The projects of the file have different keys too.
LEMMA DiskKeys ==
    ASSUME DiskInv
    PROVE  \A p, q \in disk : p.id = q.id \/ p.key = q.key => p = q
  BY DEF DiskInv

\* The store after a load.
LEMMA LoadIInv ==
    ASSUME StoreInv, Load
    PROVE  StoreInv'
<1> PICK s \in Vectors(disk) :
        /\ projects' = s
        /\ by_id' = IdIndex(s)
        /\ by_api_key' = KeyIndex(s)
        /\ by_owner' = OwnerIndex(s)
  BY DEF Load
<1>1. /\ UNCHANGED <<disk, torn, ownerOf, issuedTo, answered, retired>>
      /\ lost' = IF torn THEN lost \cup {i \in Ids : answered[i] \in Keys} ELSE lost
  BY DEF Load, fileVars
<1>2. disk \subseteq Project /\ IsFiniteSet(disk)
  BY DEF StoreInv, MemoryInv, StoreTypeOK, DiskInv
<1>3. /\ s \in Seq(Row)
      /\ \A n \in DOMAIN s : s[n] \in disk
      /\ \A p \in disk : \E n \in DOMAIN s : s[n] = p
      /\ IdIndex(s) \in [Ids -> DOMAIN s \cup {0}]
      /\ KeyIndex(s) \in [Keys -> DOMAIN s \cup {0}]
      /\ OwnerIndex(s) \in [Users -> SUBSET DOMAIN s]
      /\ 0 \notin DOMAIN s
      /\ \A i \in Ids : IdIndex(s)[i] # 0 => s[IdIndex(s)[i]].id = i
      /\ \A k \in Keys : KeyIndex(s)[k] # 0 => s[KeyIndex(s)[k]].key = k
      /\ \A n \in DOMAIN s :
            /\ IdIndex(s)[s[n].id] = n
            /\ KeyIndex(s)[s[n].key] = n
            /\ n \in OwnerIndex(s)[s[n].owner]
  BY <1>2, DiskKeys, BuiltIndexes DEF StoreInv
<1>4. \A n \in DOMAIN s : s[n].id \in Ids /\ s[n].key \in Keys /\ s[n].id # None
  BY <1>2, <1>3, StoreAssumption DEF Project
<1>5. StoreTypeOK'
  BY <1>1, <1>3 DEF StoreInv, MemoryInv, StoreTypeOK, Slots, Row
<1>6. SlotInv'
  BY <1>1, <1>3, <1>4 DEF StoreInv, DiskInv, SlotInv, Slots
<1>7. IndexesAgree'
  <2>1. \A u \in Users : \A n \in OwnerIndex(s)[u] : n \in DOMAIN s /\ s[n].owner = u
    BY DEF OwnerIndex
  <2>2. \A k \in Keys : KeyIndex(s)[k] # 0 => KeyIndex(s)[k] \in DOMAIN s
    BY <1>3
  <2> QED BY <1>3, <1>4, <2>1, <2>2 DEF IndexesAgree, Slots
<1>8. DiskInv' /\ AnsweredIsOnDisk'
  BY <1>1 DEF StoreInv, DiskInv, AnsweredIsOnDisk
<1>9. RetiredInv'
  BY <1>1, <1>3 DEF StoreInv, RetiredInv, Slots
<1>10. ASSUME NEW i \in Ids \ lost'
       PROVE  /\ answered[i] \in Keys => by_id'[i] # 0 /\ projects'[by_id'[i]].key = answered[i]
              /\ answered[i] = "deleted" => by_id'[i] = 0
  <2>1. i \in Ids \ lost
    BY <1>1
  <2>2. CASE answered[i] \in Keys
    <3>1. ~torn
      BY <1>1, <2>1, <2>2
    <3>2. PICK p \in disk : p.id = i /\ p.key = answered[i]
      BY <2>1, <2>2, <3>1 DEF StoreInv, AnsweredIsOnDisk
    <3>3. PICK n \in DOMAIN s : s[n] = p
      BY <1>3
    <3>4. IdIndex(s)[i] = n
      BY <1>3, <3>2, <3>3
    <3> QED BY <1>3, <2>2, <3>2, <3>3, <3>4, StoreAssumption
  <2>3. CASE answered[i] = "deleted"
    <3>1. \A p \in disk : p.id # i
      BY <2>1, <2>3 DEF StoreInv, DiskInv, AnsweredIsOnDisk
    <3>2. IdIndex(s)[i] = 0
      BY <1>3, <2>1, <3>1
    <3> QED BY <2>3, <3>2, StoreAssumption
  <2> QED BY <2>2, <2>3
<1>11. AnsweredInv'
  BY <1>1, <1>10 DEF AnsweredInv
<1> QED BY <1>5, <1>6, <1>7, <1>8, <1>9, <1>11 DEF StoreInv, MemoryInv

LEMMA InitIInv == StoreInit => StoreInv
<1> SUFFICES ASSUME StoreInit PROVE StoreInv
  OBVIOUS
<1>1. /\ Saved \subseteq Project /\ IsFiniteSet(Saved)
      /\ \A p, q \in Saved : p.id = q.id \/ p.key = q.key => p = q
  BY StoreAssumption
<1>2. /\ projects \in Seq(Row)
      /\ \A n \in DOMAIN projects : projects[n] \in Saved
      /\ \A p \in Saved : \E n \in DOMAIN projects : projects[n] = p
      /\ by_id \in [Ids -> DOMAIN projects \cup {0}]
      /\ by_api_key \in [Keys -> DOMAIN projects \cup {0}]
      /\ by_owner \in [Users -> SUBSET DOMAIN projects]
      /\ 0 \notin DOMAIN projects
      /\ \A i \in Ids : by_id[i] # 0 => projects[by_id[i]].id = i
      /\ \A k \in Keys : by_api_key[k] # 0 => projects[by_api_key[k]].key = k
      /\ \A n \in DOMAIN projects :
            /\ by_id[projects[n].id] = n
            /\ by_api_key[projects[n].key] = n
            /\ n \in by_owner[projects[n].owner]
  BY <1>1, BuiltIndexes DEF StoreInit
<1>3. \A p \in Saved : p.id \in Ids /\ p.key \in Keys /\ p.owner \in Users
  BY <1>1 DEF Project
<1>4. ASSUME NEW p \in Saved
      PROVE  ownerOf[p.id] = p.owner /\ issuedTo[p.key] = p.id /\ answered[p.id] = p.key
  <2>1. (CHOOSE q \in Saved : q.id = p.id) = p
    BY <1>1
  <2>2. (CHOOSE q \in Saved : q.key = p.key) = p
    BY <1>1
  <2>3. ownerOf[p.id] = p.owner
    BY <1>3, <2>1 DEF StoreInit
  <2>4. issuedTo[p.key] = p.id
    BY <1>3, <2>2 DEF StoreInit
  <2>5. answered[p.id] = p.key
    BY <1>3, <2>1 DEF StoreInit
  <2> QED BY <2>3, <2>4, <2>5
<1>5. ASSUME NEW i \in Ids, \A p \in Saved : p.id # i
      PROVE  ownerOf[i] = None /\ answered[i] = None
  BY <1>5 DEF StoreInit
<1>6. ASSUME NEW k \in Keys, \A p \in Saved : p.key # k
      PROVE  issuedTo[k] = None
  BY <1>6 DEF StoreInit
<1>7. ownerOf \in [Ids -> Users \cup {None}]
  <2>1. \A i \in Ids : ownerOf[i] \in Users \cup {None}
    BY <1>3, <1>4, <1>5
  <2> QED BY <2>1 DEF StoreInit
<1>8. issuedTo \in [Keys -> Ids \cup {None}]
  <2>1. \A k \in Keys : issuedTo[k] \in Ids \cup {None}
    BY <1>3, <1>4, <1>6
  <2> QED BY <2>1 DEF StoreInit
<1>9. answered \in [Ids -> Keys \cup {None, "deleted"}]
  <2>1. \A i \in Ids : answered[i] \in Keys \cup {None, "deleted"}
    BY <1>3, <1>4, <1>5
  <2> QED BY <2>1 DEF StoreInit
<1>10. StoreTypeOK
  BY <1>1, <1>2, <1>7, <1>8, <1>9 DEF StoreInit, StoreTypeOK, Slots, Row
<1>11. SlotInv
  BY <1>2, <1>3, <1>4, StoreAssumption DEF SlotInv, Slots
<1>12. IndexesAgree
  <2>1. \A u \in Users : \A n \in by_owner[u] : n \in DOMAIN projects /\ projects[n].owner = u
    BY DEF StoreInit, OwnerIndex
  <2>2. \A k \in Keys : by_api_key[k] # 0 => by_api_key[k] \in DOMAIN projects
    BY <1>2
  <2>3. \A n \in DOMAIN projects : projects[n].id # None
    BY <1>2, <1>3, StoreAssumption
  <2> QED BY <1>2, <2>1, <2>2, <2>3 DEF IndexesAgree, Slots
<1>13. DiskInv /\ RetiredInv
  <2>1. disk = Saved /\ retired = {} /\ torn = FALSE
    BY DEF StoreInit
  <2> QED BY <1>1, <1>4, <2>1 DEF DiskInv, RetiredInv
<1>14. ASSUME NEW i \in Ids
       PROVE  /\ answered[i] \in Keys => /\ by_id[i] # 0 /\ projects[by_id[i]].key = answered[i]
                                         /\ \E p \in disk : p.id = i /\ p.key = answered[i]
              /\ answered[i] # "deleted"
  <2>1. CASE \E p \in Saved : p.id = i
    <3>1. PICK p \in Saved : p.id = i
      BY <2>1
    <3>2. PICK n \in DOMAIN projects : projects[n] = p
      BY <1>2
    <3>3. answered[i] = p.key /\ p.key \in Keys /\ by_id[i] = n /\ n # 0
      BY <1>2, <1>3, <1>4, <3>1, <3>2
    <3> QED BY <3>1, <3>2, <3>3, StoreAssumption DEF StoreInit
  <2>2. CASE \A p \in Saved : p.id # i
    BY <1>5, <2>2, StoreAssumption
  <2> QED BY <2>1, <2>2
<1> QED BY <1>10, <1>11, <1>12, <1>13, <1>14 DEF StoreInv, MemoryInv, AnsweredInv, AnsweredIsOnDisk

\* What save_locked leaves behind, whatever becomes of the write.
LEMMA SavedTypes ==
    ASSUME StoreTypeOK, NEW i \in Ids, NEW k \in Keys \cup {"deleted"}, Save(i, k),
           projects' \in Seq(Row)
    PROVE  /\ answered' \in [Ids -> Keys \cup {None, "deleted"}] /\ retired' \subseteq Keys
           /\ disk' \subseteq Project /\ torn' \in BOOLEAN /\ lost' \subseteq Ids
<1>1. /\ answered \in [Ids -> Keys \cup {None, "deleted"}] /\ retired \subseteq Keys
      /\ disk \subseteq Project /\ torn \in BOOLEAN /\ lost \subseteq Ids
  BY DEF StoreTypeOK
<1>2. Live(projects') \subseteq Project
  BY LiveRows
<1> QED BY <1>1, <1>2 DEF Save, Confirm, fileVars

\* save_locked, given what the change before it has left in memory.
LEMMA SaveStep ==
    ASSUME StoreInv, MemoryInv', NEW i \in Ids, NEW k \in Keys \cup {"deleted"}, Save(i, k),
           \A p \in disk : issuedTo'[p.key] = p.id /\ ownerOf'[p.id] = p.owner,
           \A l \in retired : issuedTo'[l] # None,
           \A l \in retired : \A n \in Slots' : projects'[n].id # None => projects'[n].key # l,
           \A j \in (Ids \ {i}) \ lost : answered[j] \in Keys =>
              by_id'[j] # 0 /\ projects'[by_id'[j]].key = answered[j],
           \A j \in (Ids \ {i}) \ lost : answered[j] = "deleted" => by_id'[j] = 0,
           k \in Keys => by_id'[i] # 0 /\ projects'[by_id'[i]].key = k,
           k = "deleted" => by_id'[i] = 0
    PROVE  StoreInv'
<1>1. answered \in [Ids -> Keys \cup {None, "deleted"}] /\ retired \subseteq Keys
  BY DEF StoreInv, MemoryInv, StoreTypeOK
<1>2. /\ projects' \in Seq(Row)
      /\ by_id' \in [Ids -> Slots' \cup {0}]
      /\ \A n \in Slots' : projects'[n] \in Row /\ n # 0
      /\ issuedTo' \in [Keys -> Ids \cup {None}]
  <2>1. projects' \in Seq(Row)
    BY DEF MemoryInv, StoreTypeOK, Row
  <2> QED BY <2>1, ElementOfSeq, LenProperties DEF MemoryInv, StoreTypeOK, Slots
<1>3. /\ \A n \in Slots' : projects'[n].id # None =>
            /\ issuedTo'[projects'[n].key] = projects'[n].id
            /\ ownerOf'[projects'[n].id] = projects'[n].owner
            /\ by_id'[projects'[n].id] = n
      /\ \A j \in Ids : by_id'[j] # 0 => projects'[by_id'[j]].id = j
  BY DEF MemoryInv, SlotInv, IndexesAgree
<1>4. lost' = lost
  BY DEF Save
<1>5. ASSUME Confirm(i, k)
      PROVE  /\ AnsweredInv'
             /\ \A l \in retired' :
                   /\ issuedTo'[l] # None
                   /\ \A n \in Slots' : projects'[n].id # None => projects'[n].key # l
  <2>1. /\ answered' = [answered EXCEPT ![i] = k]
        /\ retired' = retired \cup {l \in Keys \ {k} : issuedTo'[l] = i}
    BY <1>5 DEF Confirm
  <2>2. AnsweredInv'
    BY <1>1, <1>4, <2>1 DEF AnsweredInv
  <2>3. ASSUME NEW l \in Keys \ {k}, issuedTo'[l] = i, NEW n \in Slots',
               projects'[n].id # None, projects'[n].key = l
        PROVE  FALSE
    <3>1. projects'[n].id = i /\ by_id'[i] = n /\ n # 0
      BY <1>2, <1>3, <2>3
    <3>2. projects'[n].key = k
      BY <3>1
    <3> QED BY <2>3, <3>2
  <2> QED BY <2>1, <2>2, <2>3, StoreAssumption
<1>6. ASSUME disk' = Live(projects'), torn' = FALSE, Confirm(i, k)
      PROVE  DiskInv' /\ RetiredInv' /\ AnsweredInv' /\ AnsweredIsOnDisk'
  <2>1. \A p \in disk' : \E n \in Slots' : projects'[n] = p /\ p.id # None
    BY <1>6 DEF Live, Slots
  <2>2. \A n \in Slots' : projects'[n].id # None => projects'[n] \in disk'
    BY <1>6 DEF Live, Slots
  <2>3. DiskInv'
    <3>1. IsFiniteSet(disk')
      BY <1>2, <1>6, LiveFinite
    <3> QED BY <1>3, <1>6, <2>1, <3>1 DEF DiskInv
  <2>4. RetiredInv'
    BY <1>5, <1>6, <2>1 DEF RetiredInv
  <2>5. AnsweredIsOnDisk'
    <3>1. ASSUME NEW j \in Ids \ lost', answered'[j] \in Keys
          PROVE  \E p \in disk' : p.id = j /\ p.key = answered'[j]
      <4>1. by_id'[j] # 0 /\ projects'[by_id'[j]].key = answered'[j]
        BY <1>5, <1>6, <3>1 DEF AnsweredInv
      <4>2. by_id'[j] \in Slots' /\ projects'[by_id'[j]].id = j
        BY <1>2, <1>3, <4>1
      <4> QED BY <2>2, <4>1, <4>2, StoreAssumption
    <3>2. ASSUME NEW j \in Ids \ lost', answered'[j] = "deleted", NEW p \in disk', p.id = j
          PROVE  FALSE
      BY <1>2, <1>3, <1>5, <1>6, <2>1, <3>2 DEF AnsweredInv
    <3> QED BY <3>1, <3>2 DEF AnsweredIsOnDisk
  <2> QED BY <1>5, <1>6, <2>3, <2>4, <2>5
<1>7. ASSUME disk' = {}, torn' = TRUE, Confirm(i, k)
      PROVE  DiskInv' /\ RetiredInv' /\ AnsweredInv' /\ AnsweredIsOnDisk'
  <2>1. DiskInv' /\ AnsweredIsOnDisk'
    BY <1>7, FS_EmptySet DEF DiskInv, AnsweredIsOnDisk
  <2> QED BY <1>5, <1>7, <2>1 DEF RetiredInv
<1>8. ASSUME answered' = [answered EXCEPT ![i] = None], UNCHANGED <<disk, torn, retired>>
      PROVE  DiskInv' /\ RetiredInv' /\ AnsweredInv' /\ AnsweredIsOnDisk'
  <2>1. DiskInv'
    BY <1>8 DEF StoreInv, DiskInv
  <2>2. RetiredInv'
    BY <1>8 DEF StoreInv, RetiredInv
  <2>3. AnsweredInv'
    BY <1>1, <1>4, <1>8, StoreAssumption DEF AnsweredInv
  <2>4. AnsweredIsOnDisk'
    BY <1>1, <1>4, <1>8, StoreAssumption DEF StoreInv, AnsweredIsOnDisk
  <2> QED BY <2>1, <2>2, <2>3, <2>4
<1> QED BY <1>6, <1>7, <1>8 DEF Save, StoreInv, fileVars

\* What the invariant says about the vector and its positions.
LEMMA SlotFacts ==
    ASSUME StoreTypeOK
    PROVE  /\ projects \in Seq(Row) /\ Len(projects) \in Nat /\ Slots = 1..Len(projects)
           /\ \A n \in Slots : projects[n] \in Row
<1>1. projects \in Seq(Row)
  BY DEF StoreTypeOK, Row
<1>2. Len(projects) \in Nat /\ DOMAIN projects = 1..Len(projects)
  BY <1>1, LenProperties
<1>3. \A n \in 1..Len(projects) : projects[n] \in Row
  BY <1>1, ElementOfSeq
<1> QED BY <1>1, <1>2, <1>3 DEF Slots

LEMMA CreateIInv ==
    ASSUME StoreInv, NEW u \in Users, NEW i \in Ids, NEW k \in Keys, CreateProject(u, i, k)
    PROVE  StoreInv'
<1> DEFINE idx == Len(projects) + 1
           new == [id |-> i, owner |-> u, key |-> k]
<1> USE DEF StoreInv, MemoryInv
<1>1. /\ ownerOf[i] = None /\ issuedTo[k] = None
      /\ projects' = Append(projects, new)
      /\ by_id' = [by_id EXCEPT ![i] = idx]
      /\ by_api_key' = [by_api_key EXCEPT ![k] = idx]
      /\ by_owner' = [by_owner EXCEPT ![u] = @ \cup {idx}]
      /\ ownerOf' = [ownerOf EXCEPT ![i] = u]
      /\ issuedTo' = [issuedTo EXCEPT ![k] = i]
      /\ Save(i, k)
  BY DEF CreateProject
<1>2. /\ projects \in Seq(Row) /\ Len(projects) \in Nat /\ Slots = 1..Len(projects)
      /\ \A n \in Slots : projects[n] \in Row
  BY SlotFacts
<1>3. new \in Row /\ new.id = i /\ new.owner = u /\ new.key = k
  BY DEF Row
<1>4. /\ projects' \in Seq(Row) /\ Slots' = Slots \cup {idx}
      /\ \A n \in Slots : projects'[n] = projects[n]
      /\ projects'[idx] = new
      /\ idx \notin Slots /\ idx # 0 /\ idx \in Nat
  <2>1. /\ projects' \in Seq(Row) /\ Len(projects') = Len(projects) + 1
        /\ \A n \in 1..Len(projects) : projects'[n] = projects[n]
        /\ projects'[idx] = new
    BY <1>1, <1>2, <1>3, AppendProperties
  <2>2. DOMAIN projects' = 1..Len(projects')
    BY <2>1, LenProperties
  <2> QED BY <1>2, <2>1, <2>2 DEF Slots
<1>5. /\ by_id \in [Ids -> Slots \cup {0}]
      /\ by_api_key \in [Keys -> Slots \cup {0}]
      /\ by_owner \in [Users -> SUBSET Slots]
      /\ ownerOf \in [Ids -> Users \cup {None}]
      /\ issuedTo \in [Keys -> Ids \cup {None}]
      /\ disk \subseteq Project
  BY DEF StoreTypeOK
<1>6. /\ issuedTo'[k] = i /\ ownerOf'[i] = u /\ by_id'[i] = idx /\ by_api_key'[k] = idx
      /\ \A l \in Keys \ {k} : issuedTo'[l] = issuedTo[l] /\ by_api_key'[l] = by_api_key[l]
      /\ \A j \in Ids \ {i} : ownerOf'[j] = ownerOf[j] /\ by_id'[j] = by_id[j]
  BY <1>1, <1>5
<1>7. \A n \in Slots : projects[n].key \in Keys \ {k} /\ projects[n].id # i
  <2>1. ASSUME NEW n \in Slots PROVE projects[n].key # k /\ projects[n].id # i
    <3>1. projects[n].owner \in Users
      BY <1>2 DEF Row
    <3> QED BY <1>1, <3>1, StoreAssumption DEF SlotInv
  <2> QED BY <1>2, <2>1 DEF Row
<1>8. StoreTypeOK'
  <2>1. answered' \in [Ids -> Keys \cup {None, "deleted"}] /\ retired' \subseteq Keys
    BY <1>1, <1>4, SavedTypes
  <2>2. disk' \subseteq Project /\ torn' \in BOOLEAN /\ lost' \subseteq Ids
    BY <1>1, <1>4, SavedTypes
  <2>3. by_id' \in [Ids -> Slots' \cup {0}] /\ by_api_key' \in [Keys -> Slots' \cup {0}]
    BY <1>1, <1>4, <1>5
  <2>4. by_owner' \in [Users -> SUBSET Slots']
    BY <1>1, <1>4, <1>5
  <2>5. ownerOf' \in [Ids -> Users \cup {None}] /\ issuedTo' \in [Keys -> Ids \cup {None}]
    BY <1>1, <1>5
  <2> QED BY <1>4, <2>1, <2>2, <2>3, <2>4, <2>5 DEF StoreTypeOK, Row
<1>9. SlotInv'
  <2>1. ASSUME NEW n \in Slots
        PROVE  /\ issuedTo'[projects'[n].key] # None
               /\ projects'[n].id # None => /\ issuedTo'[projects'[n].key] = projects'[n].id
                                            /\ ownerOf'[projects'[n].id] = projects'[n].owner
    BY <1>2, <1>4, <1>6, <1>7 DEF SlotInv, Row
  <2>2. issuedTo'[projects'[idx].key] = projects'[idx].id /\ projects'[idx].id # None
        /\ ownerOf'[projects'[idx].id] = projects'[idx].owner
    BY <1>3, <1>4, <1>6, StoreAssumption
  <2> QED BY <1>4, <2>1, <2>2 DEF SlotInv
<1>10. IndexesAgree'
  <2>1. \A j \in Ids : by_id'[j] # 0 => projects'[by_id'[j]].id = j
    BY <1>3, <1>4, <1>5, <1>6 DEF IndexesAgree
  <2>2. \A l \in Keys : by_api_key'[l] # 0 =>
           projects'[by_api_key'[l]].key = l /\ projects'[by_api_key'[l]].id # None
    BY <1>3, <1>4, <1>5, <1>6, StoreAssumption DEF IndexesAgree
  <2>3. \A v \in Users : \A n \in by_owner'[v] :
           projects'[n].owner = v /\ projects'[n].id # None
    <3>1. ASSUME NEW v \in Users, NEW n \in by_owner'[v]
          PROVE  projects'[n].owner = v /\ projects'[n].id # None
      <4>1. CASE n \in by_owner[v]
        BY <1>4, <1>5, <4>1 DEF IndexesAgree
      <4>2. CASE n = idx /\ v = u
        BY <1>3, <1>4, <4>2, StoreAssumption
      <4> QED BY <1>1, <1>5, <3>1, <4>1, <4>2
    <3> QED BY <3>1
  <2>4. ASSUME NEW n \in Slots', projects'[n].id # None
        PROVE  /\ by_id'[projects'[n].id] = n
               /\ by_api_key'[projects'[n].key] = n
               /\ n \in by_owner'[projects'[n].owner]
    <3>1. CASE n \in Slots
      <4>1. projects'[n] = projects[n] /\ projects[n].id \in Ids \ {i}
        BY <1>2, <1>4, <1>7, <2>4, <3>1 DEF Row
      <4>2. /\ by_id[projects[n].id] = n /\ by_api_key[projects[n].key] = n
            /\ n \in by_owner[projects[n].owner]
        BY <2>4, <3>1, <4>1 DEF IndexesAgree
      <4>3. projects[n].owner \in Users
        BY <1>2, <3>1 DEF Row
      <4>4. n \in by_owner'[projects[n].owner]
        BY <1>1, <1>5, <4>2, <4>3
      <4> QED BY <1>6, <1>7, <3>1, <4>1, <4>2, <4>4
    <3>2. CASE n = idx
      <4>1. n \in by_owner'[u]
        BY <1>1, <1>5, <3>2
      <4> QED BY <1>3, <1>4, <1>6, <3>2, <4>1
    <3> QED BY <1>4, <3>1, <3>2
  <2> QED BY <2>1, <2>2, <2>3, <2>4 DEF IndexesAgree
<1>11. \A p \in disk : issuedTo'[p.key] = p.id /\ ownerOf'[p.id] = p.owner
  <2>1. ASSUME NEW p \in disk PROVE p.key \in Keys \ {k} /\ p.id \in Ids \ {i}
    <3>1. p.id \in Ids /\ p.key \in Keys /\ p.owner \in Users
      BY <1>5 DEF Project
    <3> QED BY <1>1, <3>1, StoreAssumption DEF DiskInv
  <2> QED BY <1>6, <2>1 DEF DiskInv
<1>12. \A l \in retired : l \in Keys \ {k} /\ issuedTo'[l] # None
  BY <1>1, <1>6 DEF RetiredInv, StoreTypeOK
<1>13. \A l \in retired : \A n \in Slots' : projects'[n].id # None => projects'[n].key # l
  BY <1>3, <1>4, <1>12 DEF RetiredInv
<1>14. ASSUME NEW j \in (Ids \ {i}) \ lost
       PROVE  /\ answered[j] \in Keys => by_id'[j] # 0 /\ projects'[by_id'[j]].key = answered[j]
              /\ answered[j] = "deleted" => by_id'[j] = 0
  <2>1. by_id'[j] = by_id[j] /\ by_id[j] \in Slots \cup {0}
    BY <1>5, <1>6
  <2> QED BY <1>4, <2>1 DEF AnsweredInv
<1>15. by_id'[i] # 0 /\ projects'[by_id'[i]].key = k
  BY <1>3, <1>4, <1>6
<1>16. k # "deleted"
  BY StoreAssumption
<1> HIDE DEF StoreInv
<1> QED BY <1>1, <1>8, <1>9, <1>10, <1>11, <1>12, <1>13, <1>14, <1>15, <1>16, SaveStep

\* A slot gets another row.
LEMMA ChangedSlot ==
    ASSUME StoreTypeOK, NEW m \in Slots, NEW e \in Row, projects' = [projects EXCEPT ![m] = e]
    PROVE  /\ projects' \in Seq(Row) /\ Slots' = Slots
           /\ projects'[m] = e
           /\ \A n \in Slots \ {m} : projects'[n] = projects[n]
<1>1. projects \in Seq(Row) /\ Len(projects) \in Nat /\ Slots = 1..Len(projects)
  BY SlotFacts
<1>2. /\ projects' \in Seq(Row)
      /\ Len(projects') = Len(projects)
      /\ \A n \in 1..Len(projects) : projects'[n] = IF n = m THEN e ELSE projects[n]
  BY <1>1, ExceptSeq
<1>3. DOMAIN projects' = 1..Len(projects')
  BY <1>2, LenProperties
<1> QED BY <1>1, <1>2, <1>3 DEF Slots

\* The slot that delete_project and rotate_api_key work on.
LEMMA OwnedSlot ==
    ASSUME MemoryInv, NEW i \in Ids, NEW u \in Users, OwnedBy(i, u)
    PROVE  /\ by_id[i] \in Slots
           /\ projects[by_id[i]] \in Row
           /\ projects[by_id[i]].id = i /\ projects[by_id[i]].owner = u
           /\ projects[by_id[i]].key \in Keys
           /\ by_api_key[projects[by_id[i]].key] = by_id[i]
           /\ issuedTo[projects[by_id[i]].key] = i
<1> USE DEF MemoryInv
<1>1. by_id[i] \in Slots
  BY DEF StoreTypeOK, OwnedBy
<1>2. projects[by_id[i]] \in Row
  BY <1>1, SlotFacts
<1>3. projects[by_id[i]].id = i /\ i # None
  BY <1>1, StoreAssumption DEF IndexesAgree, OwnedBy
<1> QED BY <1>1, <1>2, <1>3 DEF IndexesAgree, SlotInv, OwnedBy, Row

LEMMA DeleteIInv ==
    ASSUME StoreInv, NEW u \in Users, NEW i \in Ids, DeleteProject(i, u)
    PROVE  StoreInv'
<1> DEFINE m == by_id[i]
           old == projects[m]
           e == [old EXCEPT !.id = None]
<1> USE DEF StoreInv, MemoryInv
<1>1. /\ OwnedBy(i, u)
      /\ projects' = [projects EXCEPT ![m] = e]
      /\ by_id' = [by_id EXCEPT ![i] = 0]
      /\ by_api_key' = [by_api_key EXCEPT ![old.key] = 0]
      /\ by_owner' = [by_owner EXCEPT ![u] = @ \ {m}]
      /\ ownerOf' = ownerOf /\ issuedTo' = issuedTo
      /\ Save(i, "deleted")
  BY DEF DeleteProject
<1>2. /\ m \in Slots /\ old \in Row /\ old.id = i /\ old.owner = u /\ old.key \in Keys
      /\ by_api_key[old.key] = m /\ issuedTo[old.key] = i
  BY <1>1, OwnedSlot
<1>3. e \in Row /\ e.id = None /\ e.owner = u /\ e.key = old.key
  BY <1>2 DEF Row
<1>4. /\ projects' \in Seq(Row) /\ Slots' = Slots
      /\ projects'[m] = e
      /\ \A n \in Slots \ {m} : projects'[n] = projects[n]
  BY <1>1, <1>2, <1>3, ChangedSlot
<1>5. /\ by_id \in [Ids -> Slots \cup {0}]
      /\ by_api_key \in [Keys -> Slots \cup {0}]
      /\ by_owner \in [Users -> SUBSET Slots]
      /\ \A n \in Slots : n # 0 /\ projects[n] \in Row
  BY SlotFacts DEF StoreTypeOK
<1>6. /\ by_id'[i] = 0 /\ by_api_key'[old.key] = 0
      /\ \A l \in Keys \ {old.key} : by_api_key'[l] = by_api_key[l]
      /\ \A j \in Ids \ {i} : by_id'[j] = by_id[j]
      /\ \A v \in Users : by_owner'[v] = by_owner[v] \ (IF v = u THEN {m} ELSE {})
  BY <1>1, <1>2, <1>5
<1>7. StoreTypeOK'
  <2>1. answered' \in [Ids -> Keys \cup {None, "deleted"}] /\ retired' \subseteq Keys
    BY <1>1, <1>4, SavedTypes
  <2>2. disk' \subseteq Project /\ torn' \in BOOLEAN /\ lost' \subseteq Ids
    BY <1>1, <1>4, SavedTypes
  <2>3. by_id' \in [Ids -> Slots' \cup {0}] /\ by_api_key' \in [Keys -> Slots' \cup {0}]
        /\ by_owner' \in [Users -> SUBSET Slots']
    BY <1>1, <1>4, <1>5
  <2> QED BY <1>1, <1>4, <2>1, <2>2, <2>3 DEF StoreTypeOK, Row
<1>8. SlotInv'
  BY <1>1, <1>2, <1>3, <1>4, StoreAssumption DEF SlotInv
<1>9. \A n \in Slots' : projects'[n].id # None =>
         n # m /\ projects'[n] = projects[n] /\ projects[n].id \in Ids \ {i}
         /\ projects[n].key \in Keys \ {old.key} /\ projects[n].owner \in Users
  <2>1. ASSUME NEW n \in Slots', projects'[n].id # None
        PROVE  /\ n # m /\ projects'[n] = projects[n]
               /\ projects[n].id # i /\ projects[n].key # old.key
    <3>1. n # m /\ projects'[n] = projects[n]
      BY <1>3, <1>4, <2>1
    <3> QED BY <1>2, <1>4, <2>1, <3>1 DEF IndexesAgree
  <2> QED BY <1>4, <1>5, <2>1 DEF Row
<1>10. IndexesAgree'
  <2>1. ASSUME NEW j \in Ids, by_id'[j] # 0 PROVE projects'[by_id'[j]].id = j
    <3>1. j # i /\ by_id'[j] = by_id[j] /\ by_id[j] \in Slots /\ projects[by_id[j]].id = j
      BY <1>5, <1>6, <2>1 DEF IndexesAgree
    <3> QED BY <1>2, <1>4, <3>1
  <2>2. ASSUME NEW l \in Keys, by_api_key'[l] # 0
        PROVE  projects'[by_api_key'[l]].key = l /\ projects'[by_api_key'[l]].id # None
    <3>1. /\ l # old.key /\ by_api_key'[l] = by_api_key[l] /\ by_api_key[l] \in Slots
          /\ projects[by_api_key[l]].key = l /\ projects[by_api_key[l]].id # None
      BY <1>5, <1>6, <2>2 DEF IndexesAgree
    <3> QED BY <1>4, <3>1
  <2>3. ASSUME NEW v \in Users, NEW n \in by_owner'[v]
        PROVE  projects'[n].owner = v /\ projects'[n].id # None
    <3>1. n \in by_owner[v] /\ n \in Slots /\ projects[n].owner = v /\ projects[n].id # None
      BY <1>5, <1>6, <2>3 DEF IndexesAgree
    <3>2. n # m
      BY <1>2, <1>6, <2>3, <3>1
    <3> QED BY <1>4, <3>1, <3>2
  <2>4. ASSUME NEW n \in Slots', projects'[n].id # None
        PROVE  /\ by_id'[projects'[n].id] = n
               /\ by_api_key'[projects'[n].key] = n
               /\ n \in by_owner'[projects'[n].owner]
    <3>1. /\ by_id[projects[n].id] = n /\ by_api_key[projects[n].key] = n
          /\ n \in by_owner[projects[n].owner]
      BY <1>4, <1>9, <2>4 DEF IndexesAgree
    <3> QED BY <1>6, <1>9, <2>4, <3>1
  <2> QED BY <2>1, <2>2, <2>3, <2>4 DEF IndexesAgree
<1>11. \A p \in disk : issuedTo'[p.key] = p.id /\ ownerOf'[p.id] = p.owner
  BY <1>1 DEF DiskInv
<1>12. \A l \in retired : issuedTo'[l] # None
  BY <1>1 DEF RetiredInv
<1>13. \A l \in retired : \A n \in Slots' : projects'[n].id # None => projects'[n].key # l
  BY <1>4, <1>9 DEF RetiredInv
<1>14. ASSUME NEW j \in (Ids \ {i}) \ lost
       PROVE  /\ answered[j] \in Keys => by_id'[j] # 0 /\ projects'[by_id'[j]].key = answered[j]
              /\ answered[j] = "deleted" => by_id'[j] = 0
  <2>1. by_id'[j] = by_id[j] /\ by_id[j] \in Slots \cup {0}
    BY <1>5, <1>6
  <2>2. by_id[j] # 0 => by_id[j] # m
    BY <1>2 DEF IndexesAgree
  <2> QED BY <1>4, <2>1, <2>2 DEF AnsweredInv
<1>15. "deleted" \notin Keys
  BY StoreAssumption
<1>16. by_id'[i] = 0
  BY <1>6
<1> HIDE DEF StoreInv
<1> QED BY <1>1, <1>7, <1>8, <1>10, <1>11, <1>12, <1>13, <1>14, <1>15, <1>16, SaveStep

LEMMA RotateIInv ==
    ASSUME StoreInv, NEW u \in Users, NEW i \in Ids, NEW k \in Keys, RotateKey(i, u, k)
    PROVE  StoreInv'
<1> DEFINE m == by_id[i]
           old == projects[m]
           e == [old EXCEPT !.key = k]
<1> USE DEF StoreInv, MemoryInv
<1>1. /\ OwnedBy(i, u) /\ issuedTo[k] = None
      /\ projects' = [projects EXCEPT ![m] = e]
      /\ by_api_key' = [by_api_key EXCEPT ![old.key] = 0, ![k] = m]
      /\ issuedTo' = [issuedTo EXCEPT ![k] = i]
      /\ by_id' = by_id /\ by_owner' = by_owner /\ ownerOf' = ownerOf
      /\ Save(i, k)
  BY DEF RotateKey
<1>2. /\ m \in Slots /\ old \in Row /\ old.id = i /\ old.owner = u /\ old.key \in Keys
      /\ by_api_key[old.key] = m /\ issuedTo[old.key] = i
  BY <1>1, OwnedSlot
<1>3. e \in Row /\ e.id = i /\ e.owner = u /\ e.key = k /\ i # None
  BY <1>2, StoreAssumption DEF Row
<1>4. /\ projects' \in Seq(Row) /\ Slots' = Slots
      /\ projects'[m] = e
      /\ \A n \in Slots \ {m} : projects'[n] = projects[n]
  BY <1>1, <1>2, <1>3, ChangedSlot
<1>5. /\ by_id \in [Ids -> Slots \cup {0}]
      /\ by_api_key \in [Keys -> Slots \cup {0}]
      /\ by_owner \in [Users -> SUBSET Slots]
      /\ issuedTo \in [Keys -> Ids \cup {None}]
      /\ \A n \in Slots : n # 0 /\ projects[n] \in Row
  BY SlotFacts DEF StoreTypeOK
<1>6. \A n \in Slots : projects[n].key \in Keys \ {k}
  BY <1>1, <1>5 DEF SlotInv, Row
<1>7. /\ by_api_key'[k] = m /\ by_api_key'[old.key] = 0 /\ issuedTo'[k] = i
      /\ \A l \in Keys \ {old.key, k} : by_api_key'[l] = by_api_key[l]
      /\ \A l \in Keys \ {k} : issuedTo'[l] = issuedTo[l]
  BY <1>1, <1>2, <1>5, <1>6
<1>8. StoreTypeOK'
  <2>1. answered' \in [Ids -> Keys \cup {None, "deleted"}] /\ retired' \subseteq Keys
    BY <1>1, <1>4, SavedTypes
  <2>2. disk' \subseteq Project /\ torn' \in BOOLEAN /\ lost' \subseteq Ids
    BY <1>1, <1>4, SavedTypes
  <2>3. by_api_key' \in [Keys -> Slots' \cup {0}]
    BY <1>1, <1>2, <1>4, <1>5
  <2>4. issuedTo' \in [Keys -> Ids \cup {None}]
    BY <1>1, <1>5
  <2>5. by_id' \in [Ids -> Slots' \cup {0}] /\ by_owner' \in [Users -> SUBSET Slots']
    BY <1>1, <1>4, <1>5
  <2>6. ownerOf' \in [Ids -> Users \cup {None}]
    BY <1>1 DEF StoreTypeOK
  <2> QED BY <1>4, <2>1, <2>2, <2>3, <2>4, <2>5, <2>6 DEF StoreTypeOK, Row
<1>9. SlotInv'
  <2>1. ASSUME NEW n \in Slots \ {m}
        PROVE  /\ issuedTo'[projects'[n].key] # None
               /\ projects'[n].id # None => /\ issuedTo'[projects'[n].key] = projects'[n].id
                                            /\ ownerOf'[projects'[n].id] = projects'[n].owner
    BY <1>1, <1>4, <1>6, <1>7 DEF SlotInv
  <2>2. ownerOf[i] = u
    BY <1>2, <1>3 DEF SlotInv
  <2> QED BY <1>1, <1>3, <1>4, <1>7, <2>1, <2>2 DEF SlotInv
<1>10. \A n \in Slots \ {m} : projects[n].id # None =>
          projects[n].id # i /\ projects[n].key # old.key
  BY <1>2 DEF IndexesAgree
<1>11. IndexesAgree'
  <2>1. ASSUME NEW j \in Ids, by_id'[j] # 0 PROVE projects'[by_id'[j]].id = j
    <3>1. by_id[j] \in Slots /\ projects[by_id[j]].id = j
      BY <1>1, <1>5, <2>1 DEF IndexesAgree
    <3> QED BY <1>1, <1>2, <1>3, <1>4, <3>1
  <2>2. ASSUME NEW l \in Keys, by_api_key'[l] # 0
        PROVE  projects'[by_api_key'[l]].key = l /\ projects'[by_api_key'[l]].id # None
    <3>1. CASE l = k
      BY <1>3, <1>4, <1>7, <3>1
    <3>2. CASE l # k
      <4>1. l # old.key /\ by_api_key'[l] = by_api_key[l] /\ by_api_key[l] \in Slots
        BY <1>5, <1>7, <2>2, <3>2
      <4>2. projects[by_api_key[l]].key = l /\ projects[by_api_key[l]].id # None
        BY <1>5, <4>1 DEF IndexesAgree
      <4> QED BY <1>4, <4>1, <4>2
    <3> QED BY <3>1, <3>2
  <2>3. ASSUME NEW v \in Users, NEW n \in by_owner'[v]
        PROVE  projects'[n].owner = v /\ projects'[n].id # None
    <3>1. n \in Slots /\ projects[n].owner = v /\ projects[n].id # None
      BY <1>1, <1>5, <2>3 DEF IndexesAgree
    <3> QED BY <1>2, <1>3, <1>4, <3>1
  <2>4. ASSUME NEW n \in Slots', projects'[n].id # None
        PROVE  /\ by_id'[projects'[n].id] = n
               /\ by_api_key'[projects'[n].key] = n
               /\ n \in by_owner'[projects'[n].owner]
    <3>1. CASE n = m
      <4>1. m \in by_owner[u]
        BY <1>2, <1>3 DEF IndexesAgree
      <4>2. projects'[n].id = i /\ projects'[n].key = k /\ projects'[n].owner = u
        BY <1>3, <1>4, <3>1
      <4>3. by_id'[i] = m /\ by_api_key'[k] = m /\ m \in by_owner'[u]
        BY <1>1, <1>7, <4>1
      <4> QED BY <3>1, <4>2, <4>3
    <3>2. CASE n # m
      <4>1. projects'[n] = projects[n] /\ projects[n].key \in Keys \ {old.key, k}
        BY <1>4, <1>6, <1>10, <2>4, <3>2
      <4>2. /\ by_id[projects[n].id] = n /\ by_api_key[projects[n].key] = n
            /\ n \in by_owner[projects[n].owner]
        BY <1>4, <2>4, <4>1 DEF IndexesAgree
      <4> QED BY <1>1, <1>7, <4>1, <4>2
    <3> QED BY <3>1, <3>2
  <2> QED BY <2>1, <2>2, <2>3, <2>4 DEF IndexesAgree
<1>12. \A p \in disk : issuedTo'[p.key] = p.id /\ ownerOf'[p.id] = p.owner
  <2>1. \A p \in disk : p.key \in Keys \ {k}
    <3>1. \A p \in disk : p.key \in Keys /\ p.id \in Ids
      BY DEF StoreTypeOK, Project
    <3> QED BY <1>1, <3>1, StoreAssumption DEF DiskInv
  <2> QED BY <1>1, <1>7, <2>1 DEF DiskInv
<1>13. \A l \in retired : l \in Keys \ {k} /\ issuedTo'[l] # None
  BY <1>1, <1>7 DEF RetiredInv, StoreTypeOK
<1>14. \A l \in retired : \A n \in Slots' : projects'[n].id # None => projects'[n].key # l
  <2> SUFFICES ASSUME NEW l \in retired, NEW n \in Slots, projects'[n].id # None
               PROVE  projects'[n].key # l
    BY <1>4
  <2>1. CASE n = m
    BY <1>3, <1>4, <1>13, <2>1
  <2>2. CASE n # m
    <3>1. projects'[n] = projects[n]
      BY <1>4, <2>2
    <3> QED BY <3>1 DEF RetiredInv
  <2> QED BY <2>1, <2>2
<1>15. ASSUME NEW j \in (Ids \ {i}) \ lost
       PROVE  /\ answered[j] \in Keys => by_id'[j] # 0 /\ projects'[by_id'[j]].key = answered[j]
              /\ answered[j] = "deleted" => by_id'[j] = 0
  <2>1. by_id'[j] = by_id[j] /\ by_id[j] \in Slots \cup {0}
    BY <1>1, <1>5
  <2>2. by_id[j] # 0 => by_id[j] # m
    BY <1>2 DEF IndexesAgree
  <2> QED BY <1>4, <2>1, <2>2 DEF AnsweredInv
<1>16. by_id'[i] # 0 /\ projects'[by_id'[i]].key = k
  BY <1>1, <1>3, <1>4, <1>5, <1>2
<1>17. k # "deleted"
  BY StoreAssumption
<1> HIDE DEF StoreInv
<1> QED BY <1>1, <1>8, <1>9, <1>11, <1>12, <1>13, <1>14, <1>15, <1>16, <1>17, SaveStep

LEMMA NextIInv == StoreInv /\ [StoreNext]_storeVars => StoreInv'
<1> SUFFICES ASSUME StoreInv, [StoreNext]_storeVars PROVE StoreInv'
  OBVIOUS
<1>1. ASSUME NEW u \in Users, NEW i \in Ids, NEW k \in Keys, CreateProject(u, i, k)
      PROVE  StoreInv'
  BY <1>1, CreateIInv
<1>2. ASSUME NEW u \in Users, NEW i \in Ids, NEW k \in Keys, RotateKey(i, u, k)
      PROVE  StoreInv'
  BY <1>2, RotateIInv
<1>3. ASSUME NEW u \in Users, NEW i \in Ids, DeleteProject(i, u)
      PROVE  StoreInv'
  BY <1>3, DeleteIInv
<1>4. CASE Load
  BY <1>4, LoadIInv
<1>5. CASE UNCHANGED storeVars
  BY <1>5 DEF StoreInv, MemoryInv, StoreTypeOK, SlotInv, IndexesAgree, DiskInv, RetiredInv, Slots,
              AnsweredInv, AnsweredIsOnDisk, storeVars, indexes, fileVars, histories
<1> QED BY <1>1, <1>2, <1>3, <1>4, <1>5 DEF StoreNext

\* A retired key can be in the index of the keys only with its project.
LEMMA RetiredLeadsNowhere == StoreInv => OldKeysStop
<1> SUFFICES ASSUME StoreInv, NEW k \in retired, by_api_key[k] # 0 PROVE FALSE
  BY DEF OldKeysStop, FindByKey
<1>1. k \in Keys /\ by_api_key[k] \in Slots
  BY DEF StoreInv, MemoryInv, StoreTypeOK
<1>2. projects[by_api_key[k]].key = k /\ projects[by_api_key[k]].id # None
  BY <1>1 DEF StoreInv, MemoryInv, IndexesAgree
<1> QED BY <1>1, <1>2 DEF StoreInv, RetiredInv

\* The index maps agree with the vector (ProjectStore.hpp:67, 123, 154, 195).
THEOREM IndexesCorrect == StoreSpec => [](StoreTypeOK /\ IndexesAgree)
<1>1. StoreInv => StoreTypeOK /\ IndexesAgree
  BY DEF StoreInv, MemoryInv
<1> QED BY InitIInv, NextIInv, <1>1, PTL DEF StoreSpec

\* After a confirmed rotation or deletion the old key leads nowhere.
THEOREM OldKeysDie == StoreSpec => []OldKeysStop
<1> QED BY InitIInv, NextIInv, RetiredLeadsNowhere, PTL DEF StoreSpec

\* What the store has confirmed is in the file.
THEOREM ConfirmedIsDurable == StoreSpec => []AnsweredIsOnDisk
<1>1. StoreInv => AnsweredIsOnDisk
  BY DEF StoreInv
<1> QED BY InitIInv, NextIInv, <1>1, PTL DEF StoreSpec

-----------------------------------------------------------------------------
(* What the store does for the tenants *)

\* What a thread does to the store is a call of one of its functions, or nothing.
LEMMA StoreSteps ==
    ASSUME TypeOK, Next
    PROVE  [StoreNext]_storeVars
<1>1. ASSUME NEW u \in Users, NEW i \in Ids, NEW k \in Keys, PostProject(u, i, k)
      PROVE  StoreNext
  BY <1>1 DEF PostProject, StoreNext
<1>2. ASSUME NEW h \in Handlers, Change(h)
      PROVE  [StoreNext]_storeVars
  <2>1. PICK j \in Job : j = thread[h]
    BY DEF TypeOK, Threads
  <2>2. CASE j.at \in {"delete", "rotate"}
    <3>1. j.id \in Ids /\ j.user \in Users
      BY <2>2 DEF Job, Jobs, Idle
    <3> QED BY <1>2, <2>1, <3>1 DEF Change, StoreNext
  <2> QED BY <1>2, <2>1, <2>2 DEF Change
<1>3. CASE Start
  BY <1>3 DEF Start, StoreNext
<1>4. CASE UNCHANGED storeVars
  BY <1>4
<1> QED BY <1>1, <1>2, <1>3, <1>4
       DEF Next, VerifyOwnership, Route, PushAndAnswer, Insert, Query, Miss, Create, Callback,
           TapDefault, Persist, StopFlag, StopAll, Ended, vars

\* A project keeps its owner for ever, and a key its project.
LEMMA HistoriesStay ==
    ASSUME StoreTypeOK, [StoreNext]_storeVars
    PROVE  /\ \A i \in Ids : ownerOf[i] # None => ownerOf'[i] = ownerOf[i]
           /\ \A k \in Keys : issuedTo[k] # None => issuedTo'[k] = issuedTo[k]
<1>1. ASSUME NEW u \in Users, NEW i \in Ids, NEW k \in Keys, CreateProject(u, i, k)
      PROVE  /\ ownerOf[i] = None /\ ownerOf' = [ownerOf EXCEPT ![i] = u]
             /\ issuedTo[k] = None /\ issuedTo' = [issuedTo EXCEPT ![k] = i]
  BY <1>1 DEF CreateProject
<1>2. ASSUME NEW u \in Users, NEW i \in Ids, NEW k \in Keys, RotateKey(i, u, k)
      PROVE  /\ ownerOf' = ownerOf
             /\ issuedTo[k] = None /\ issuedTo' = [issuedTo EXCEPT ![k] = i]
  BY <1>2 DEF RotateKey
<1>3. ASSUME NEW u \in Users, NEW i \in Ids, DeleteProject(i, u)
      PROVE  ownerOf' = ownerOf /\ issuedTo' = issuedTo
  BY <1>3 DEF DeleteProject
<1>4. CASE Load
  BY <1>4 DEF Load
<1>5. CASE UNCHANGED storeVars
  BY <1>5 DEF storeVars, histories
<1> QED BY <1>1, <1>2, <1>3, <1>4, <1>5 DEF StoreNext, StoreTypeOK

\* Whose project it is that the store knows.
LEMMA OwnerKnown ==
    ASSUME StoreInv, NEW i \in Ids, NEW u \in Users, OwnedBy(i, u)
    PROVE  ownerOf[i] = u
<1>1. by_id[i] \in Slots /\ projects[by_id[i]].id = i /\ projects[by_id[i]].owner = u
  BY OwnedSlot DEF StoreInv
<1>2. None \notin Ids
  BY StoreAssumption
<1> QED BY <1>1, <1>2 DEF StoreInv, MemoryInv, SlotInv

\* Whose key it is that leads somewhere.
LEMMA KeyKnown ==
    ASSUME StoreInv, NEW k \in Keys, FindByKey(k) # None
    PROVE  issuedTo[k] = FindByKey(k) /\ FindByKey(k) \in Ids
<1> DEFINE n == by_api_key[k]
<1>1. n # 0 /\ n \in Slots /\ FindByKey(k) = projects[n].id
  BY DEF FindByKey, StoreInv, MemoryInv, StoreTypeOK
<1>2. projects[n].key = k
  BY <1>1 DEF StoreInv, MemoryInv, IndexesAgree
<1>3. projects[n].id \in Ids \cup {None}
  <2>1. projects[n] \in Row
    BY <1>1, SlotFacts DEF StoreInv, MemoryInv
  <2> QED BY <2>1 DEF Row
<1> HIDE DEF n
<1> QED BY <1>1, <1>2, <1>3 DEF StoreInv, MemoryInv, SlotInv

\* The keys in the list of a user's projects are of his projects.
LEMMA ListedKeys ==
    ASSUME StoreInv, NEW u \in Users, NEW k \in KeysListed(u)
    PROVE  ownerOf[issuedTo[k]] = u
<1>1. PICK n \in by_owner[u] : k = projects[n].key
  BY DEF KeysListed, ListByOwner
<1>2. n \in Slots /\ projects[n].owner = u /\ projects[n].id # None
  BY <1>1 DEF StoreInv, MemoryInv, IndexesAgree, StoreTypeOK
<1> QED BY <1>1, <1>2 DEF StoreInv, MemoryInv, SlotInv

-----------------------------------------------------------------------------
(* What stays true while a thread waits for a lock *)

\* Entries get homes, projects owners, and the databases in memory entries; nothing of
\* it is taken back.
Grows ==
    /\ \A i \in Ids : ownerOf[i] # None => ownerOf'[i] = ownerOf[i]
    /\ \A n \in DOMAIN sent : n \in DOMAIN sent' /\ Home(n)' = Home(n)
    /\ map \subseteq map'
    /\ \A i \in map : tsdb[i] \subseteq tsdb'[i]

\* What was posted keeps its home, restarts included.
LEMMA HomesStay ==
    ASSUME StoreInv, TypeOK, HasHome, Next
    PROVE  /\ \A i \in Ids : ownerOf[i] # None => ownerOf'[i] = ownerOf[i]
           /\ \A n \in DOMAIN sent : n \in DOMAIN sent' /\ Home(n)' = Home(n)
<1>1. /\ \A i \in Ids : ownerOf[i] # None => ownerOf'[i] = ownerOf[i]
      /\ \A k \in Keys : issuedTo[k] # None => issuedTo'[k] = issuedTo[k]
  BY StoreSteps, HistoriesStay DEF StoreInv, MemoryInv
<1>2. sent' = sent \/ \E k \in Keys : sent' = Append(sent, k)
  BY DEF Next, PostProject, VerifyOwnership, Change, Route, PushAndAnswer, Insert, Query, Miss,
         Create, Callback, TapDefault, Persist, StopFlag, StopAll, Start, Ended, vars, postVars
<1>3. ASSUME NEW n \in DOMAIN sent
      PROVE  n \in DOMAIN sent' /\ sent'[n] = sent[n] /\ sent[n] \in Keys
  BY <1>2 DEF TypeOK
<1>4. ASSUME NEW n \in DOMAIN sent PROVE Home(n)' = Home(n)
  <2>1. issuedTo[sent[n]] \in Ids /\ None \notin Ids
    BY StoreAssumption DEF HasHome, Home
  <2> QED BY <1>1, <1>3, <2>1 DEF Home
<1> QED BY <1>1, <1>3, <1>4

\* While the program runs, everything grows.
LEMMA RunGrows ==
    ASSUME StoreInv, TypeOK, HasHome, Next, ~Start
    PROVE  Grows
<1>1. UNCHANGED <<map, tsdb>> => map \subseteq map' /\ \A i \in map : tsdb[i] \subseteq tsdb'[i]
  OBVIOUS
<1>2. ASSUME NEW t \in Threads, Create(t)
      PROVE  map \subseteq map' /\ \A i \in map : tsdb[i] \subseteq tsdb'[i]
  BY <1>2 DEF Create, TypeOK
<1>3. ASSUME NEW h \in Handlers, Insert(h)
      PROVE  map \subseteq map' /\ \A i \in map : tsdb[i] \subseteq tsdb'[i]
  BY <1>3 DEF Insert, TypeOK
<1>4. ASSUME NEW w \in Workers, TapDefault(w)
      PROVE  map \subseteq map' /\ \A i \in map : tsdb[i] \subseteq tsdb'[i]
  BY <1>4 DEF TapDefault, TypeOK
<1>5. map \subseteq map' /\ \A i \in map : tsdb[i] \subseteq tsdb'[i]
  BY <1>1, <1>2, <1>3, <1>4
     DEF Next, PostProject, VerifyOwnership, Change, Route, PushAndAnswer, Query, Miss, Callback,
         Persist, StopFlag, StopAll, Ended, vars, dataVars
<1> QED BY <1>5, HomesStay DEF Grows

\* So what a thread knows stays true.
LEMMA RightStays ==
    ASSUME StoreInv, TypeOK, HasHome, Grows, NEW job \in Job, Rightful(Work(job))
    PROVE  Rightful(Work(job))'
<1> DEFINE j == Work(job)
<1>1. Work(job)' = j
  BY DEF Work
<1>2. j \in Jobs \cup {Idle} \cup [at : {"push"}, entry : Entries]
  BY DEF Work, Job, Jobs, Idle
<1> HIDE DEF j
<1>3. CASE j.at \in {"delete", "rotate", "query"}
  <2>1. j.id \in Ids /\ j.user \in Users
    BY <1>2, <1>3 DEF Jobs, Idle
  <2>2. ownerOf[j.id] = j.user /\ None \notin Users
    BY <1>3, StoreAssumption DEF Rightful, j
  <2> QED BY <1>1, <1>3, <2>1, <2>2 DEF Rightful, Grows
<1>4. CASE j.at = "ingest"
  BY <1>1, <1>4 DEF Rightful, Grows, j
<1>5. CASE j.at = "push"
  BY <1>1, <1>5 DEF Rightful, Grows, j
<1>6. CASE j.at \notin {"delete", "rotate", "query", "ingest", "push"}
  BY <1>1, <1>6 DEF Rightful
<1> QED BY <1>3, <1>4, <1>5, <1>6

\* A thread that goes on to a job leaves the others theirs.
LEMMA JobsStay ==
    ASSUME StoreInv, TypeOK, HasHome, JobsRightful, Grows,
           \/ thread' = thread
           \/ \E t \in Threads : \E job \in Job : Go(t, job) /\ Rightful(Work(job))'
    PROVE  thread' \in [Threads -> Job] /\ JobsRightful'
<1>1. ASSUME NEW s \in Threads
      PROVE  \E job \in Job : thread'[s] = job /\ Rightful(Work(job))'
  <2>1. CASE thread'[s] = thread[s]
    <3>1. PICK job \in Job : job = thread[s]
      BY DEF TypeOK
    <3>2. Rightful(Work(job))
      BY <3>1 DEF JobsRightful
    <3>3. Rightful(Work(job))'
      BY <3>2, RightStays
    <3> QED BY <2>1, <3>1, <3>3
  <2>2. CASE thread'[s] # thread[s]
    <3>1. PICK t \in Threads : \E job \in Job : Go(t, job) /\ Rightful(Work(job))'
      BY <2>2
    <3>2. PICK job \in Job : Go(t, job) /\ Rightful(Work(job))'
      BY <3>1
    <3>3. thread'[s] = job
      BY <2>2, <3>2 DEF Go, TypeOK
    <3> QED BY <3>2, <3>3
  <2> QED BY <2>1, <2>2
<1>2. \A s \in Threads : Rightful(Work(thread[s]))'
  <2> SUFFICES ASSUME NEW s \in Threads PROVE Rightful(Work(thread[s]))'
    OBVIOUS
  <2>1. PICK job \in Job : thread'[s] = job /\ Rightful(Work(job))'
    BY <1>1
  <2> QED BY <2>1 DEF Rightful, Work
<1>3. thread' \in [Threads -> Job]
  <2>1. DOMAIN thread' = Threads /\ thread' = [s \in Threads |-> thread'[s]]
    BY DEF TypeOK, Go
  <2> QED BY <1>1, <2>1
<1> QED BY <1>2, <1>3 DEF JobsRightful

-----------------------------------------------------------------------------
(* The steps *)

\* Steps that change no database and accept nothing.
LEMMA SameData ==
    ASSUME TenantInv, Next, ~Start, UNCHANGED <<dataVars, accepted>>,
           phase' = phase \/ phase' = "stopping"
    PROVE  OwnEntries' /\ AcceptedIsKept' /\ StopSavesAccepted'
<1>1. UNCHANGED <<map, tsdb, bin, accepted>>
  BY DEF dataVars
<1>2. TypeOK /\ OwnEntries /\ AcceptedIsKept /\ StopSavesAccepted
  BY DEF TenantInv
<1>3. \A n \in DOMAIN sent : n \in DOMAIN sent' /\ Home(n)' = Home(n)
  BY HomesStay DEF TenantInv
<1>4. \A n \in accepted : n \in DOMAIN sent
  BY <1>2 DEF TypeOK
<1>5. OwnEntries'
  BY <1>1, <1>2, <1>3 DEF OwnEntries
<1>6. AcceptedIsKept'
  BY <1>1, <1>2, <1>3, <1>4 DEF AcceptedIsKept, Contents, Stored
<1>7. StopSavesAccepted'
  BY <1>1, <1>2, <1>3, <1>4 DEF StopSavesAccepted, Stored
<1> QED BY <1>5, <1>6, <1>7

\* Steps of which no thread is left with a false belief.
LEMMA JobsNext ==
    ASSUME TenantInv, Next, ~Start
    PROVE  thread' \in [Threads -> Job] /\ JobsRightful'
<1> USE DEF TenantInv
<1>1. Grows
  BY RunGrows
<1>2. Idle \in Job /\ Rightful(Work(Idle))'
  BY DEF Idle, Job, Work, Rightful
<1>3. Handlers \subseteq Threads /\ Workers \subseteq Threads
  BY DEF Threads
<1> DEFINE Fine == \/ thread' = thread
                   \/ \E t \in Threads : \E job \in Job : Go(t, job) /\ Rightful(Work(job))'
<1>4. ASSUME NEW h \in Handlers, NEW op \in {"delete", "rotate", "query"}, NEW u \in Users,
             NEW i \in Ids, VerifyOwnership(h, op, u, i)
      PROVE  Fine
  <2> DEFINE job == [at |-> op, user |-> u, id |-> i]
  <2>1. job \in Job /\ Work(job) = job
    BY DEF Job, Jobs, Work
  <2>2. ownerOf'[i] = u
    BY <1>4, OwnerKnown DEF VerifyOwnership, OwnedBy, storeVars, histories
  <2>3. Rightful(Work(job))'
    BY <2>1, <2>2 DEF Rightful, Work
  <2>4. Go(h, job)
    BY <1>4 DEF VerifyOwnership
  <2> QED BY <1>3, <2>1, <2>3, <2>4
<1>5. ASSUME NEW h \in Handlers, NEW k \in Keys, Route(h, k)
      PROVE  Fine
  <2>1. PICK n, i : n = Len(sent) + 1 /\ i = FindByKey(k)
    OBVIOUS
  <2>2. i \in Ids /\ issuedTo[k] = i
    BY <1>5, <2>1, KeyKnown DEF Route
  <2>3. n \in Entries /\ sent' = Append(sent, k) /\ issuedTo' = issuedTo
    BY <1>5, <2>1, TenantsAssumption DEF Route, TypeOK, Entries, storeVars, histories
  <2>4. n \in DOMAIN sent' /\ sent'[n] = k
    BY <2>1, <2>3 DEF TypeOK
  <2> DEFINE job == [at |-> "ingest", id |-> i, entry |-> n]
  <2>5. job \in Job /\ Work(job) = job
    BY <2>2, <2>3 DEF Job, Jobs, Work
  <2>6. Rightful(Work(job))'
    BY <2>2, <2>3, <2>4 DEF Rightful, Work, Home
  <2>7. Go(h, job)
    BY <1>5, <2>1 DEF Route
  <2> QED BY <1>3, <2>5, <2>6, <2>7
<1>6. ASSUME NEW t \in Threads, Miss(t)
      PROVE  Fine
  <2>1. PICK j \in Job : j = thread[t]
    BY DEF TypeOK
  <2>2. j.at \in {"ingest", "query", "tap"} /\ Go(t, [at |-> "create", then |-> j])
    BY <1>6, <2>1 DEF Miss
  <2>3. j \in Jobs
    BY <2>2 DEF Job, Idle
  <2> DEFINE job == [at |-> "create", then |-> j]
  <2>4. job \in Job /\ Work(job) = Work(j)
    BY <2>2, <2>3 DEF Job, Work
  <2>5. Rightful(Work(job))
    BY <2>1, <2>4 DEF JobsRightful
  <2>6. Rightful(Work(job))'
    BY <1>1, <2>4, <2>5, RightStays
  <2> QED BY <2>2, <2>4, <2>6
<1>7. ASSUME NEW t \in Threads, Create(t)
      PROVE  Fine
  <2>1. PICK j \in Job : j = thread[t]
    BY DEF TypeOK
  <2>2. j.at = "create" /\ Go(t, j.then)
    BY <1>7, <2>1 DEF Create
  <2>3. j.then \in Jobs
    BY <2>2 DEF Job, Jobs, Idle
  <2> DEFINE job == j.then
  <2>4. job \in Job /\ Work(job) = Work(j)
    BY <2>2, <2>3 DEF Job, Jobs, Work
  <2>5. Rightful(Work(job))
    BY <2>1, <2>4 DEF JobsRightful
  <2>6. Rightful(Work(job))'
    BY <1>1, <2>4, <2>5, RightStays
  <2> QED BY <2>2, <2>4, <2>6
<1>8. ASSUME NEW h \in Handlers, Insert(h)
      PROVE  Fine
  <2>1. PICK j \in Job : j = thread[h]
    BY <1>3 DEF TypeOK
  <2>2. /\ j.at = "ingest" /\ j.id \in map /\ Go(h, [at |-> "push", entry |-> j.entry])
        /\ tsdb' = [tsdb EXCEPT ![j.id] = @ \cup {Stored(j.entry, "request")}]
        /\ map' = map
    BY <1>8, <2>1 DEF Insert, Knows
  <2>3. j.entry \in Entries /\ j.id \in Ids
    BY <2>2 DEF Job, Jobs, Idle
  <2>4. Rightful(Work(j))
    BY <1>3, <2>1 DEF JobsRightful
  <2>5. j.entry \in DOMAIN sent /\ Home(j.entry) = j.id
    BY <2>2, <2>4 DEF Rightful, Work
  <2>6. j.entry \in DOMAIN sent' /\ Home(j.entry)' = j.id
    BY <1>1, <2>5 DEF Grows
  <2>7. Stored(j.entry, "request") \in tsdb'[j.id]
    BY <2>2, <2>3 DEF TypeOK
  <2> DEFINE job == [at |-> "push", entry |-> j.entry]
  <2>8. job \in Job /\ Rightful(Work(job))'
    BY <2>2, <2>3, <2>6, <2>7 DEF Job, Rightful, Work, Stored
  <2> QED BY <1>3, <2>2, <2>8
<1>9. ASSUME NEW w \in Workers, NEW n \in ring, Callback(w, n)
      PROVE  Fine
  <2>1. CASE Default = None
    BY <1>2, <1>3, <1>9, <2>1 DEF Callback
  <2>2. CASE Default # None
    <3> DEFINE job == [at |-> "tap", id |-> Default, entry |-> n]
    <3>1. job \in Job
      BY <2>2, TenantsAssumption DEF Job, Jobs, TypeOK
    <3>2. Rightful(Work(job))'
      BY DEF Rightful, Work
    <3> QED BY <1>3, <1>9, <2>2, <3>1, <3>2 DEF Callback
  <2> QED BY <2>1, <2>2
<1>10. ASSUME NEW t \in Threads, Go(t, Idle) PROVE Fine
  BY <1>2, <1>10
<1>11. Fine
  BY <1>3, <1>4, <1>5, <1>6, <1>7, <1>8, <1>9, <1>10
     DEF Next, PostProject, Change, PushAndAnswer, Query, TapDefault, Persist, StopFlag, StopAll,
         Ended, vars
<1> QED BY <1>1, <1>11, JobsStay

\* The end comes when no thread has anything to do, and then nothing starts.
LEMMA IdleNext == ASSUME TenantInv, Next, ~Start PROVE AllIdle'
<1> SUFFICES ASSUME phase' = "down" PROVE \A t \in Threads : thread'[t] = Idle
  BY DEF AllIdle
<1>1. Handlers \subseteq Threads /\ Workers \subseteq Threads
  BY DEF Threads
<1>2. CASE StopAll
  BY <1>2 DEF StopAll
<1>3. CASE phase = "down"
  <2>1. \A t \in Threads : thread[t] = Idle /\ thread[t].at = "idle"
    BY <1>3 DEF TenantInv, AllIdle, Idle
  <2> QED BY <1>1, <1>3, <2>1
         DEF Next, PostProject, VerifyOwnership, Free, Change, Route, PushAndAnswer, Insert, Query,
             Miss, Create, Callback, TapDefault, Persist, StopFlag, StopAll, Ended, vars
<1> QED BY <1>2, <1>3
       DEF Next, PostProject, VerifyOwnership, Free, Change, Route, PushAndAnswer, Insert, Query,
           Miss, Create, Callback, TapDefault, Persist, StopFlag, Ended, vars, lifeVars

\* Every entry has a home from the start, since its key was known.
LEMMA HomesNext == ASSUME TenantInv, Next PROVE HasHome'
<1>1. \A n \in DOMAIN sent : n \in DOMAIN sent' /\ Home(n)' = Home(n)
  BY HomesStay DEF TenantInv
<1>2. CASE sent' = sent
  BY <1>1, <1>2 DEF TenantInv, HasHome
<1>3. ASSUME NEW h \in Handlers, NEW k \in Keys, Route(h, k) PROVE HasHome'
  <2>1. issuedTo[k] \in Ids /\ issuedTo' = issuedTo /\ sent' = Append(sent, k)
    BY <1>3, KeyKnown DEF Route, TenantInv, storeVars, histories
  <2>2. \A n \in DOMAIN sent' : n \in DOMAIN sent \/ sent'[n] = k
    BY <2>1 DEF TenantInv, TypeOK
  <2> QED BY <1>1, <2>1, <2>2 DEF TenantInv, HasHome, Home
<1> QED BY <1>2, <1>3
       DEF Next, PostProject, VerifyOwnership, Change, PushAndAnswer, Insert, Query, Miss, Create,
           Callback, TapDefault, Persist, StopFlag, StopAll, Start, Ended, vars, postVars

\* An entry comes into a database from the thread that was given it.
LEMMA InsertData ==
    ASSUME TenantInv, Next, NEW h \in Handlers, Insert(h)
    PROVE  /\ tsdb' \in [Ids -> SUBSET (Entries \X Ways)]
           /\ OwnEntries' /\ AcceptedIsKept' /\ StopSavesAccepted'
<1>1. PICK j \in Job : j = thread[h]
  BY DEF TenantInv, TypeOK, Threads
<1>2. /\ j.at = "ingest" /\ j.id \in map
      /\ tsdb' = [tsdb EXCEPT ![j.id] = @ \cup {Stored(j.entry, "request")}]
      /\ UNCHANGED <<map, bin, phase, sent, accepted>>
  BY <1>1 DEF Insert, Knows, lifeVars, postVars
<1>3. j.entry \in Entries /\ j.id \in Ids
  BY <1>2 DEF Job, Jobs, Idle
<1>4. j.entry \in DOMAIN sent /\ Home(j.entry) = j.id
  <2>1. Rightful(Work(j))
    BY <1>1 DEF TenantInv, JobsRightful, Threads
  <2> QED BY <1>2, <2>1 DEF Rightful, Work
<1>5. /\ tsdb' \in [Ids -> SUBSET (Entries \X Ways)]
      /\ \A i \in Ids : tsdb[i] \subseteq tsdb'[i]
      /\ \A i \in Ids : \A e \in tsdb'[i] :
            e \in tsdb[i] \/ (i = j.id /\ e = <<j.entry, "request">>)
  BY <1>2, <1>3 DEF TenantInv, TypeOK, Stored, Ways
<1>6. \A n \in DOMAIN sent : Home(n)' = Home(n)
  BY HomesStay DEF TenantInv
<1>7. OwnEntries'
  BY <1>2, <1>4, <1>5, <1>6 DEF TenantInv, OwnEntries
<1>8. \A n \in accepted : n \in DOMAIN sent /\ Home(n) \in Ids
  BY DEF TenantInv, TypeOK, HasHome
<1>9. AcceptedIsKept'
  BY <1>2, <1>5, <1>6, <1>8 DEF TenantInv, AcceptedIsKept, Contents, Stored
<1>10. StopSavesAccepted'
  BY <1>2, <1>6, <1>8 DEF TenantInv, StopSavesAccepted, Stored
<1> QED BY <1>5, <1>7, <1>9, <1>10

\* What the callback stores did not come with a request.
LEMMA TapData ==
    ASSUME TenantInv, Next, NEW w \in Workers, TapDefault(w)
    PROVE  /\ tsdb' \in [Ids -> SUBSET (Entries \X Ways)]
           /\ OwnEntries' /\ AcceptedIsKept' /\ StopSavesAccepted'
<1>1. PICK j \in Job : j = thread[w]
  BY DEF TenantInv, TypeOK, Threads
<1>2. /\ j.at = "tap"
      /\ tsdb' = [tsdb EXCEPT ![Default] = @ \cup {Stored(j.entry, "callback")}]
      /\ UNCHANGED <<map, bin, phase, sent, accepted>>
  BY <1>1 DEF TapDefault, lifeVars, postVars
<1>3. j.entry \in Entries
  BY <1>2 DEF Job, Jobs, Idle
<1>4. /\ tsdb' \in [Ids -> SUBSET (Entries \X Ways)]
      /\ \A i \in Ids : tsdb[i] \subseteq tsdb'[i]
      /\ \A i \in Ids : \A e \in tsdb'[i] : e \in tsdb[i] \/ e[2] = "callback"
  <2>1. \A i \in Ids : tsdb'[i] = IF i = Default THEN tsdb[i] \cup {<<j.entry, "callback">>}
                                 ELSE tsdb[i]
    BY <1>2 DEF TenantInv, TypeOK, Stored
  <2>2. DOMAIN tsdb' = Ids /\ tsdb' = [i \in Ids |-> tsdb'[i]]
    BY <1>2 DEF TenantInv, TypeOK
  <2>3. \A i \in Ids : tsdb'[i] \in SUBSET (Entries \X Ways)
    <3>1. <<j.entry, "callback">> \in Entries \X Ways
      BY <1>3 DEF Ways
    <3>2. \A i \in Ids : tsdb[i] \in SUBSET (Entries \X Ways)
      BY DEF TenantInv, TypeOK
    <3> QED BY <2>1, <3>1, <3>2
  <2>4. tsdb' \in [Ids -> SUBSET (Entries \X Ways)]
    BY <2>2, <2>3
  <2> QED BY <2>1, <2>4
<1>5. \A n \in DOMAIN sent : Home(n)' = Home(n)
  BY HomesStay DEF TenantInv
<1>6. OwnEntries'
  BY <1>2, <1>4, <1>5 DEF TenantInv, OwnEntries
<1>7. \A n \in accepted : n \in DOMAIN sent /\ Home(n) \in Ids
  BY DEF TenantInv, TypeOK, HasHome
<1>8. AcceptedIsKept'
  BY <1>2, <1>4, <1>5, <1>7 DEF TenantInv, AcceptedIsKept, Contents, Stored
<1>9. StopSavesAccepted'
  BY <1>2, <1>5, <1>7 DEF TenantInv, StopSavesAccepted, Stored
<1> QED BY <1>4, <1>6, <1>8, <1>9

\* A database that comes into memory has what is in its file; one that was there before
\* stays.
LEMMA CreateData ==
    ASSUME TenantInv, Next, NEW t \in Threads, Create(t)
    PROVE  /\ map' \subseteq Ids /\ tsdb' \in [Ids -> SUBSET (Entries \X Ways)]
           /\ OwnEntries' /\ AcceptedIsKept' /\ StopSavesAccepted'
<1>1. PICK j \in Job : j = thread[t]
  BY DEF TenantInv, TypeOK
<1>2. PICK i : i = j.then.id
  OBVIOUS
<1>3. /\ j.at = "create" /\ map' = map \cup {i}
      /\ tsdb' = (IF i \in map THEN tsdb ELSE [tsdb EXCEPT ![i] = bin[i]])
      /\ UNCHANGED <<bin, phase, sent, accepted>>
  BY <1>1, <1>2 DEF Create, lifeVars, postVars
<1>4. i \in Ids
  <2>1. j.then \in Jobs
    BY <1>3 DEF Job, Jobs, Idle
  <2> QED BY <1>2, <2>1 DEF Jobs
<1>5. /\ map' \subseteq Ids /\ tsdb' \in [Ids -> SUBSET (Entries \X Ways)]
      /\ \A l \in Ids : Contents(l)' = Contents(l) /\ tsdb'[l] \subseteq tsdb[l] \cup bin[l]
  BY <1>3, <1>4 DEF TenantInv, TypeOK, Contents
<1>6. \A n \in DOMAIN sent : Home(n)' = Home(n)
  BY HomesStay DEF TenantInv
<1>7. OwnEntries'
  BY <1>3, <1>5, <1>6 DEF TenantInv, OwnEntries
<1>8. \A n \in accepted : n \in DOMAIN sent /\ Home(n) \in Ids
  BY DEF TenantInv, TypeOK, HasHome
<1>9. AcceptedIsKept'
  <2> SUFFICES ASSUME NEW n \in accepted PROVE Stored(n, "request") \in Contents(Home(n))'
    BY <1>3 DEF AcceptedIsKept, Stored
  <2>1. PICK l \in Ids : l = Home(n) /\ l = Home(n)'
    BY <1>6, <1>8
  <2>2. Stored(n, "request") \in Contents(l)'
    BY <1>5, <2>1 DEF TenantInv, AcceptedIsKept
  <2> QED BY <2>1, <2>2 DEF Contents
<1>10. StopSavesAccepted'
  BY <1>3, <1>6, <1>8 DEF TenantInv, StopSavesAccepted, Stored
<1> QED BY <1>5, <1>7, <1>9, <1>10

\* A write of one file, or of all at the end, takes what is in memory.
LEMMA PersistData ==
    ASSUME TenantInv, Next, (\E i \in Ids : Persist(i)) \/ StopAll
    PROVE  /\ bin' \in [Ids -> SUBSET (Entries \X Ways)]
           /\ OwnEntries' /\ AcceptedIsKept' /\ StopSavesAccepted'
<1>1. UNCHANGED <<map, tsdb, sent, accepted>>
  BY DEF Persist, StopAll, postVars
<1>2. /\ bin' \in [Ids -> SUBSET (Entries \X Ways)]
      /\ \A l \in Ids : Contents(l)' = Contents(l) /\ bin'[l] \subseteq tsdb[l] \cup bin[l]
  BY DEF Persist, StopAll, TenantInv, TypeOK, Contents
<1>3. \A n \in DOMAIN sent : Home(n)' = Home(n)
  BY HomesStay DEF TenantInv
<1>4. OwnEntries'
  BY <1>1, <1>2, <1>3 DEF TenantInv, OwnEntries
<1>5. ASSUME NEW n \in accepted
      PROVE  \E l \in Ids : l = Home(n) /\ l = Home(n)' /\ Stored(n, "request") \in Contents(l)'
  <2>1. n \in DOMAIN sent /\ Home(n) \in Ids
    BY DEF TenantInv, TypeOK, HasHome
  <2>2. PICK l \in Ids : l = Home(n) /\ l = Home(n)'
    BY <1>3, <2>1
  <2> QED BY <1>2, <2>2 DEF TenantInv, AcceptedIsKept
<1>6. AcceptedIsKept'
  <2> SUFFICES ASSUME NEW n \in accepted PROVE Stored(n, "request") \in Contents(Home(n))'
    BY <1>1 DEF AcceptedIsKept, Stored
  <2>1. PICK l \in Ids : l = Home(n)' /\ Stored(n, "request") \in Contents(l)'
    BY <1>5
  <2> QED BY <2>1 DEF Contents
<1>7. StopSavesAccepted'
  <2> SUFFICES ASSUME phase' = "down", NEW n \in accepted
               PROVE  (Stored(n, "request") \in bin[Home(n)])'
    BY <1>1 DEF StopSavesAccepted, Stored
  <2>1. CASE StopAll
    <3>1. PICK l \in Ids : l = Home(n) /\ l = Home(n)' /\ Stored(n, "request") \in Contents(l)'
      BY <1>5
    <3>2. bin'[l] = Contents(l)
      BY <2>1 DEF StopAll
    <3>3. Stored(n, "request") \in bin'[l]
      BY <1>2, <3>1, <3>2
    <3> QED BY <3>1, <3>3 DEF Stored
  <2>2. ASSUME NEW i \in Ids, Persist(i) PROVE FALSE
    BY <2>2 DEF Persist, lifeVars
  <2> QED BY <2>1, <2>2
<1> QED BY <1>2, <1>4, <1>6, <1>7

\* An entry is answered when its project's database has it.
LEMMA AnswerData ==
    ASSUME TenantInv, Next, NEW h \in Handlers, PushAndAnswer(h)
    PROVE  /\ ring' \subseteq Entries /\ accepted' \subseteq DOMAIN sent'
           /\ OwnEntries' /\ AcceptedIsKept' /\ StopSavesAccepted'
<1>1. PICK j \in Job : j = thread[h]
  BY DEF TenantInv, TypeOK, Threads
<1>2. /\ j.at = "push" /\ accepted' = accepted \cup {j.entry}
      /\ ring' \subseteq ring \cup {j.entry}
      /\ UNCHANGED <<map, tsdb, bin, phase, sent>>
  BY <1>1 DEF PushAndAnswer, dataVars, lifeVars
<1>3. j.entry \in Entries
  BY <1>2 DEF Job, Jobs, Idle
<1>4. /\ j.entry \in DOMAIN sent /\ Home(j.entry) \in map
      /\ Stored(j.entry, "request") \in tsdb[Home(j.entry)]
  <2>1. Rightful(Work(j))
    BY <1>1 DEF TenantInv, JobsRightful, Threads
  <2> QED BY <1>2, <2>1 DEF Rightful, Work
<1>5. \A n \in DOMAIN sent : Home(n)' = Home(n)
  BY HomesStay DEF TenantInv
<1>6. OwnEntries'
  BY <1>2, <1>5 DEF TenantInv, OwnEntries
<1>7. \A n \in accepted : n \in DOMAIN sent
  BY DEF TenantInv, TypeOK
<1>8. AcceptedIsKept'
  BY <1>2, <1>4, <1>5, <1>7 DEF TenantInv, AcceptedIsKept, Contents, Stored
<1>9. phase # "down"
  <2>1. j # Idle
    BY <1>2 DEF Idle
  <2> QED BY <1>1, <2>1 DEF TenantInv, AllIdle, Threads
<1> QED BY <1>2, <1>3, <1>4, <1>6, <1>7, <1>8, <1>9 DEF TenantInv, TypeOK, StopSavesAccepted

\* A start finds what the files have, and the projects that the entries came to.
LEMMA StartInv == ASSUME TenantInv, Next, Start PROVE
    TypeOK' /\ JobsRightful' /\ OwnEntries' /\ AllIdle' /\ AcceptedIsKept' /\ StopSavesAccepted'
<1>1. /\ map' = Prewarmed(by_id') /\ tsdb' = InMemory(map') /\ bin' = bin
      /\ thread' = [t \in Threads |-> Idle] /\ ring' = {} /\ phase' = "up"
      /\ accepted' = {n \in accepted : Stored(n, "request") \in bin[Home(n)]}
      /\ starts' = starts + 1 /\ sent' = sent
  BY DEF Start
<1>2. map' \subseteq Ids
  BY <1>1, TenantsAssumption DEF Prewarmed
<1>3. /\ tsdb' \in [Ids -> SUBSET (Entries \X Ways)]
      /\ \A i \in Ids : tsdb'[i] = IF i \in map' THEN bin[i] ELSE {}
  BY <1>1 DEF InMemory, TenantInv, TypeOK
<1>4. \A n \in DOMAIN sent : Home(n)' = Home(n)
  BY HomesStay DEF TenantInv
<1>5. TypeOK'
  BY <1>1, <1>2, <1>3 DEF TenantInv, TypeOK, Job
<1>6. JobsRightful' /\ AllIdle'
  BY <1>1 DEF JobsRightful, Rightful, Work, Idle, AllIdle
<1>7. OwnEntries'
  BY <1>1, <1>3, <1>4 DEF TenantInv, OwnEntries
<1>8. \A n \in accepted : n \in DOMAIN sent /\ Home(n) \in Ids
  BY DEF TenantInv, TypeOK, HasHome
<1>9. AcceptedIsKept'
  BY <1>1, <1>3, <1>4, <1>8 DEF AcceptedIsKept, Contents, Stored
<1>10. StopSavesAccepted'
  BY <1>1 DEF StopSavesAccepted
<1> QED BY <1>5, <1>6, <1>7, <1>9, <1>10

LEMMA TenantInit == Init => TenantInv
<1> SUFFICES ASSUME Init PROVE TenantInv
  OBVIOUS
<1>1. StoreInv
  BY InitIInv DEF Init
<1>2. TypeOK
  BY TenantsAssumption DEF Init, TypeOK, Job, Prewarmed
<1>3. JobsRightful /\ AllIdle
  BY DEF Init, JobsRightful, Rightful, Work, Idle, AllIdle
<1>4. HasHome /\ OwnEntries /\ AcceptedIsKept /\ StopSavesAccepted
  BY DEF Init, HasHome, OwnEntries, AcceptedIsKept, StopSavesAccepted
<1> QED BY <1>1, <1>2, <1>3, <1>4 DEF TenantInv

\* Each step keeps the invariant.
LEMMA TenantNext == TenantInv /\ [Next]_vars => TenantInv'
<1> SUFFICES ASSUME TenantInv, [Next]_vars PROVE TenantInv'
  OBVIOUS
<1>1. CASE UNCHANGED vars
  <2>1. StoreInv'
    BY <1>1, NextIInv DEF vars, TenantInv
  <2>2. UNCHANGED <<ownerOf, issuedTo, thread, map, tsdb, bin, phase, starts, ring, sent, accepted>>
    BY <1>1 DEF vars, storeVars, histories, dataVars, lifeVars, postVars
  <2>3. TypeOK' /\ HasHome' /\ JobsRightful' /\ AllIdle'
    BY <2>2 DEF TenantInv, TypeOK, HasHome, JobsRightful, Rightful, Work, Home, AllIdle
  <2>4. OwnEntries' /\ AcceptedIsKept' /\ StopSavesAccepted'
    BY <2>2 DEF TenantInv, OwnEntries, AcceptedIsKept, Contents, StopSavesAccepted, Home
  <2> QED BY <2>1, <2>3, <2>4 DEF TenantInv
<1>2. CASE Next
  <2>1. StoreInv'
    BY <1>2, StoreSteps, NextIInv DEF TenantInv
  <2>2. HasHome'
    BY <1>2, HomesNext
  <2>3. CASE Start
    BY <1>2, <2>1, <2>2, <2>3, StartInv DEF TenantInv
  <2>4. CASE ~Start
    <3>1. thread' \in [Threads -> Job] /\ JobsRightful' /\ AllIdle'
      BY <1>2, <2>4, JobsNext, IdleNext
    <3> DEFINE Safe == TypeOK' /\ OwnEntries' /\ AcceptedIsKept' /\ StopSavesAccepted'
    <3>2. ASSUME NEW h \in Handlers, Insert(h) PROVE Safe
      BY <1>2, <3>1, <3>2, InsertData DEF Insert, TenantInv, TypeOK, lifeVars, postVars
    <3>3. ASSUME NEW w \in Workers, TapDefault(w) PROVE Safe
      BY <1>2, <3>1, <3>3, TapData DEF TapDefault, TenantInv, TypeOK, lifeVars, postVars
    <3>4. ASSUME NEW t \in Threads, Create(t) PROVE Safe
      BY <1>2, <3>1, <3>4, CreateData DEF Create, TenantInv, TypeOK, lifeVars, postVars
    <3>5. ASSUME (\E i \in Ids : Persist(i)) \/ StopAll PROVE Safe
      BY <1>2, <3>1, <3>5, PersistData DEF Persist, StopAll, TenantInv, TypeOK, lifeVars, postVars
    <3>6. ASSUME NEW h \in Handlers, PushAndAnswer(h) PROVE Safe
      BY <1>2, <3>1, <3>6, AnswerData DEF PushAndAnswer, TenantInv, TypeOK, lifeVars, dataVars
    <3>7. ASSUME UNCHANGED <<dataVars, starts, accepted>>, phase' = phase \/ phase' = "stopping",
                 ring' \subseteq ring, sent' \in Seq(Keys), Len(sent') <= MaxEntries
          PROVE  Safe
      <4>1. OwnEntries' /\ AcceptedIsKept' /\ StopSavesAccepted'
        BY <1>2, <2>4, <3>7, SameData
      <4>2. \A n \in DOMAIN sent : n \in DOMAIN sent'
        BY <1>2, HomesStay DEF TenantInv
      <4>3. TypeOK'
        BY <3>1, <3>7, <4>2 DEF TenantInv, TypeOK, dataVars
      <4> QED BY <4>1, <4>3
    <3>8. ASSUME NEW h \in Handlers, NEW k \in Keys, Route(h, k) PROVE Safe
      <4>1. sent' = Append(sent, k) /\ Len(sent) < MaxEntries
            /\ UNCHANGED <<dataVars, lifeVars, ring, accepted>>
        BY <3>8 DEF Route
      <4>2. sent' \in Seq(Keys) /\ Len(sent') <= MaxEntries
        BY <4>1, TenantsAssumption DEF TenantInv, TypeOK
      <4> HIDE DEF Safe
      <4> QED BY <3>7, <4>1, <4>2 DEF lifeVars
    <3>9. sent \in Seq(Keys) /\ Len(sent) <= MaxEntries
      BY DEF TenantInv, TypeOK
    <3>10. ASSUME NEW w \in Workers, NEW n \in ring, Callback(w, n) PROVE Safe
      <4> HIDE DEF Safe
      <4> QED BY <3>7, <3>9, <3>10 DEF Callback, lifeVars
    <3>11. ASSUME UNCHANGED <<dataVars, starts, postVars>>, phase' = phase \/ phase' = "stopping"
           PROVE  Safe
      <4> HIDE DEF Safe
      <4> QED BY <3>7, <3>9, <3>11 DEF postVars
    <3> HIDE DEF Safe
    <3>12. Safe
      BY <1>2, <2>4, <3>2, <3>3, <3>4, <3>5, <3>6, <3>8, <3>10, <3>11
         DEF Next, PostProject, VerifyOwnership, Change, Miss, Query, StopFlag, Ended,
             vars, lifeVars
    <3> QED BY <2>1, <2>2, <3>1, <3>12 DEF TenantInv, Safe
  <2> QED BY <2>3, <2>4
<1> QED BY <1>1, <1>2

\* Whatever the requests, the callback, the persistence threads, the stop and a crash do
\* between each other's critical sections, the invariant stays.
THEOREM TenantsCorrect == Spec => []TenantInv
BY TenantInit, TenantNext, PTL DEF Spec

\* An entry that was answered with "accepted" is in its project's database
\* (HttpServer.hpp's handle_ingest on top of TenantManager's map).
THEOREM AcceptedStays == Spec => []AcceptedIsKept
<1>1. TenantInv => AcceptedIsKept
  BY DEF TenantInv
<1> QED BY <1>1, TenantsCorrect, PTL

\* A user sees keys and posted entries of his own projects only: what verify_ownership
\* has found out before the database is looked up stays true until the answer.
THEOREM OwnDataSeen == Spec => []OwnDataOnly
<1>1. ASSUME TenantInv PROVE OwnDataOnly
  <2>1. ASSUME NEW h \in Handlers, thread[h].at = "query", NEW e \in Answer(h), e[2] = "request"
        PROVE  ownerOf[Home(e[1])] = thread[h].user
    <3>1. PICK j \in Job : j = thread[h]
      BY <1>1 DEF TenantInv, TypeOK, Threads
    <3>2. j.at = "query" /\ j.id \in Ids /\ e \in tsdb[j.id]
      BY <2>1, <3>1 DEF Job, Jobs, Idle, Answer
    <3>3. ownerOf[j.id] = j.user
      <4>1. Rightful(Work(j))
        BY <1>1, <3>1 DEF TenantInv, JobsRightful, Threads
      <4> QED BY <3>2, <4>1 DEF Rightful, Work
    <3>4. Home(e[1]) = j.id
      BY <1>1, <2>1, <3>2 DEF TenantInv, OwnEntries
    <3> QED BY <3>1, <3>3, <3>4
  <2>2. \A u \in Users : \A k \in KeysListed(u) : ownerOf[issuedTo[k]] = u
    BY <1>1, ListedKeys DEF TenantInv
  <2> QED BY <2>1, <2>2 DEF OwnDataOnly
<1> QED BY <1>1, TenantsCorrect, PTL

\* After main's shutdown every accepted entry is in its project's file.
THEOREM AcceptedSaved == Spec => []StopSavesAccepted
<1>1. TenantInv => StopSavesAccepted
  BY DEF TenantInv
<1> QED BY <1>1, TenantsCorrect, PTL

\* Whatever the tenants do is a behaviour of the store, whose functions they call.
THEOREM TenantsUseStore == Spec => StoreSpec
<1>1. Init => StoreInit
  BY DEF Init
<1>2. ASSUME TenantInv, [Next]_vars PROVE [StoreNext]_storeVars
  BY <1>2, StoreSteps DEF TenantInv, vars
<1> QED BY <1>1, <1>2, TenantsCorrect, PTL DEF Spec, StoreSpec

\* The store's three properties hold of the server that calls it from many threads, and
\* that starts and crashes.
THEOREM StoreInTenants == Spec => [](IndexesAgree /\ OldKeysStop /\ AnsweredIsOnDisk)
<1>1. TenantInv => IndexesAgree /\ OldKeysStop /\ AnsweredIsOnDisk
  BY RetiredLeadsNowhere DEF TenantInv, StoreInv, MemoryInv
<1> QED BY <1>1, TenantsCorrect, PTL
=============================================================================

------------------------------ MODULE TSDBProofs ------------------------------
(***************************************************************************)
(* Safety of the database for every set of apps and levels, every age and  *)
(* any times and number of entries: the invariant IInv of TSDB is          *)
(* inductive, and with it every property that TLC checks on three entries. *)
(* The first part says what the operators on sequences of entries return.  *)
(***************************************************************************)
EXTENDS TSDB, FiniteSetTheorems, SequenceTheorems, TLAPS

\* Every non-empty set of naturals has a least element.
LEMMA NatMin ==
    ASSUME NEW T \in SUBSET Nat, T # {}
    PROVE  \E x \in T : \A y \in T : x <= y
<1> DEFINE R == OpToRel(<, Nat)
<1>1. IsWellFoundedOn(R, Nat)
  BY NatLessThanWellFounded
<1>2. \A m, n \in Nat : m < n => <<m, n>> \in R
  BY DEF OpToRel
<1> HIDE DEF R
<1>3. PICK x \in T : \A y \in T : ~(<<y, x>> \in R)
  BY <1>1, WFMin
<1>4. ASSUME NEW y \in T PROVE x <= y
  <2>1. ~(y < x)
    BY <1>2, <1>3
  <2> QED BY <2>1
<1> QED BY <1>4

\* m lists the positions in K in their order.
Lists(m, K) ==
    /\ m \in [1..Cardinality(K) -> K]
    /\ K = {m[j] : j \in DOMAIN m}
    /\ \A i, j \in DOMAIN m : i < j => m[i] < m[j]

\* A list of the positions before n becomes one with n.
LEMMA ListsOneMore ==
    ASSUME NEW n \in Nat, NEW K \in SUBSET (1..(n + 1)), n + 1 \in K,
           NEW m, Lists(m, K \ {n + 1})
    PROVE  \E l : Lists(l, K)
<1> DEFINE c == Cardinality(K \ {n + 1})
           l == [j \in 1..(c + 1) |-> IF j = c + 1 THEN n + 1 ELSE m[j]]
<1>1. IsFiniteSet(K)
  <2>1. IsFiniteSet(1..(n + 1))
    BY FS_Interval
  <2> QED BY <2>1, FS_Subset
<1>2. Cardinality(K) = c + 1 /\ c \in Nat
  <2>1. IsFiniteSet(K \ {n + 1}) /\ c = Cardinality(K) - 1
    BY <1>1, FS_RemoveElement
  <2>2. Cardinality(K) \in Nat /\ c \in Nat
    BY <1>1, <2>1, FS_CardinalityType
  <2> QED BY <2>1, <2>2
<1> HIDE DEF c
<1>3. /\ m \in [1..c -> K \ {n + 1}]
      /\ K \ {n + 1} = {m[j] : j \in 1..c}
      /\ \A i, j \in 1..c : i < j => m[i] < m[j]
  BY DEF Lists, c
<1>4. ASSUME NEW j \in 1..c PROVE m[j] \in K \ {n + 1} /\ m[j] < n + 1
  <2>1. m[j] \in K \ {n + 1}
    BY <1>3
  <2>2. \A k \in K \ {n + 1} : k < n + 1
    OBVIOUS
  <2> QED BY <2>1, <2>2
<1>5. l \in [1..(c + 1) -> K]
  BY <1>2, <1>4
<1>6. l[c + 1] = n + 1 /\ \A j \in 1..c : l[j] = m[j]
  BY <1>2
<1> HIDE DEF l
<1>7. K = {l[j] : j \in 1..(c + 1)}
  <2>1. ASSUME NEW k \in K PROVE \E j \in 1..(c + 1) : k = l[j]
    <3>1. CASE k = n + 1
      BY <1>2, <1>6, <3>1
    <3>2. CASE k # n + 1
      BY <1>2, <1>3, <1>6, <3>2
    <3> QED BY <3>1, <3>2
  <2>2. \A j \in 1..(c + 1) : l[j] \in K
    BY <1>5
  <2> QED BY <2>1, <2>2
<1>8. ASSUME NEW i \in 1..(c + 1), NEW j \in 1..(c + 1), i < j
      PROVE  l[i] < l[j]
  <2>1. CASE j = c + 1
    BY <1>2, <1>4, <1>6, <1>8, <2>1
  <2>2. CASE j # c + 1
    BY <1>2, <1>3, <1>6, <1>8, <2>2
  <2> QED BY <2>1, <2>2
<1>9. Lists(l, K)
  BY <1>2, <1>5, <1>7, <1>8 DEF Lists
<1> QED BY <1>9

\* Every set of positions has a list.
LEMMA ListExists ==
    ASSUME NEW n \in Nat, NEW K \in SUBSET (1..n)
    PROVE  \E m : Lists(m, K)
<1> DEFINE Short == {b \in Nat : \E S \in SUBSET (1..b) : ~ \E m : Lists(m, S)}
<1>1. SUFFICES ASSUME Short # {} PROVE FALSE
  BY DEF Short
<1>2. PICK b \in Short : \A d \in Short : b <= d
  BY <1>1, NatMin
<1>3. PICK S \in SUBSET (1..b) : ~ \E m : Lists(m, S)
  BY <1>2
<1>4. b # 0
  <2> SUFFICES ASSUME b = 0 PROVE FALSE
    OBVIOUS
  <2>1. S = {}
    BY <1>3
  <2>. Cardinality(S) = 0
    BY <2>1, FS_EmptySet
  <2> DEFINE l == [j \in 1..0 |-> 0]
  <2>2. l \in [1..0 -> {}] /\ {l[j] : j \in DOMAIN l} = {} /\ DOMAIN l = {}
    OBVIOUS
  <2>3. Lists(l, S)
    BY <2>1, <2>2 DEF Lists
  <2> QED BY <1>3, <2>3
<1>5. b - 1 \in Nat /\ b - 1 \notin Short /\ b = (b - 1) + 1
  BY <1>2, <1>4
<1>6. \A T \in SUBSET (1..(b - 1)) : \E m : Lists(m, T)
  BY <1>5
<1>7. CASE b \in S
  <2>1. S \ {b} \in SUBSET (1..(b - 1))
    BY <1>5
  <2>2. PICK m : Lists(m, S \ {b})
    BY <1>6, <2>1
  <2> QED BY <1>3, <1>5, <1>7, <2>2, ListsOneMore
<1>8. CASE b \notin S
  <2>1. S \in SUBSET (1..(b - 1))
    BY <1>5, <1>8
  <2> QED BY <1>3, <1>6, <2>1
<1> QED BY <1>7, <1>8

\* InOrder finds it.
LEMMA InOrderLists ==
    ASSUME NEW n \in Nat, NEW K \in SUBSET (1..n)
    PROVE  /\ Lists(InOrder(K), K)
           /\ Cardinality(K) \in Nat /\ DOMAIN InOrder(K) = 1..Cardinality(K)
<1>1. PICK m : Lists(m, K)
  BY ListExists
<1>2. Lists(InOrder(K), K)
  BY <1>1 DEF Lists, InOrder
<1>3. IsFiniteSet(K)
  <2>1. IsFiniteSet(1..n)
    BY FS_Interval
  <2> QED BY <2>1, FS_Subset
<1> QED BY <1>2, <1>3, FS_CardinalityType DEF Lists

-----------------------------------------------------------------------------
(* What eviction and queries keep of a sequence of entries *)

SortedSeq(entries) ==
    \A i, j \in DOMAIN entries : i < j => entries[i].ts <= entries[j].ts

LEMMA SinceKeeps ==
    ASSUME NEW entries \in Seq(Entry), NEW cutoff \in Int
    PROVE  /\ Since(entries, cutoff) \in Seq(Entry)
           /\ ToSet(Since(entries, cutoff)) = {e \in ToSet(entries) : e.ts >= cutoff}
           /\ SortedSeq(entries) => SortedSeq(Since(entries, cutoff))
<1> DEFINE K == {n \in DOMAIN entries : entries[n].ts >= cutoff}
           c == Cardinality(K)
           m == InOrder(K)
           kept == [j \in DOMAIN m |-> entries[m[j]]]
<1>1. Since(entries, cutoff) = kept
  BY DEF Since
<1>2. Len(entries) \in Nat /\ DOMAIN entries = 1..Len(entries)
  OBVIOUS
<1>3. K \in SUBSET (1..Len(entries))
  BY <1>2
<1>4. Lists(m, K) /\ c \in Nat /\ DOMAIN m = 1..c
  BY <1>2, <1>3, InOrderLists
<1> HIDE DEF m, c
<1>5. /\ \A j \in 1..c : m[j] \in K
      /\ \A n \in K : \E j \in 1..c : n = m[j]
      /\ \A i, j \in 1..c : i < j => m[i] < m[j]
  BY <1>4 DEF Lists, c
<1>6. /\ kept \in Seq(Entry) /\ DOMAIN kept = 1..c
      /\ \A j \in 1..c : kept[j] = entries[m[j]] /\ m[j] \in DOMAIN entries
  <2>1. \A j \in 1..c : entries[m[j]] \in Entry /\ m[j] \in DOMAIN entries
    BY <1>5
  <2> QED BY <1>4, <2>1
<1> HIDE DEF kept
<1>7. ToSet(kept) = {e \in ToSet(entries) : e.ts >= cutoff}
  <2>1. ASSUME NEW j \in 1..c PROVE kept[j] \in {e \in ToSet(entries) : e.ts >= cutoff}
    BY <1>5, <1>6 DEF ToSet
  <2>2. ASSUME NEW n \in DOMAIN entries, entries[n].ts >= cutoff PROVE entries[n] \in ToSet(kept)
    <3>1. PICK j \in 1..c : n = m[j]
      BY <1>5, <2>2
    <3> QED BY <1>6, <3>1 DEF ToSet
  <2> QED BY <1>6, <2>1, <2>2 DEF ToSet
<1>8. ASSUME SortedSeq(entries) PROVE SortedSeq(kept)
  <2> SUFFICES ASSUME NEW i \in 1..c, NEW j \in 1..c, i < j
               PROVE  kept[i].ts <= kept[j].ts
    BY <1>6 DEF SortedSeq
  <2>1. m[i] < m[j] /\ m[i] \in DOMAIN entries /\ m[j] \in DOMAIN entries
    BY <1>5
  <2>2. entries[m[i]].ts <= entries[m[j]].ts
    BY <1>8, <2>1 DEF SortedSeq
  <2> QED BY <1>6, <2>2
<1> QED BY <1>1, <1>6, <1>7, <1>8

-----------------------------------------------------------------------------
(* Where an entry is placed *)

\* In a sorted sequence whose last entry is younger, the entries before lower_bound's
\* position are older and those from there on are not.
LEMMA LowerBoundSplits ==
    ASSUME NEW entries \in Seq(Entry), SortedSeq(entries), NEW ts \in Nat,
           entries # <<>>, ts <= entries[Len(entries)].ts
    PROVE  LET n == LowerBound(entries, ts) IN
           /\ n \in 1..Len(entries)
           /\ \A i \in 1..(n - 1) : entries[i].ts < ts
           /\ \A i \in n..Len(entries) : ts <= entries[i].ts
<1> DEFINE Young == {n \in DOMAIN entries : entries[n].ts >= ts}
           Is(n) == n \in DOMAIN entries /\ entries[n].ts >= ts
                    /\ \A m \in 1..(n - 1) : entries[m].ts < ts
<1>1. /\ Len(entries) \in Nat /\ Len(entries) > 0 /\ DOMAIN entries = 1..Len(entries)
      /\ \A n \in 1..Len(entries) : entries[n].ts \in Nat
  <2>1. Len(entries) \in Nat /\ DOMAIN entries = 1..Len(entries)
    OBVIOUS
  <2>2. Len(entries) > 0
    BY <2>1, EmptySeq
  <2>3. \A e \in Entry : e.ts \in Nat
    BY DEF Entry, Times
  <2>4. \A n \in 1..Len(entries) : entries[n] \in Entry
    OBVIOUS
  <2> QED BY <2>1, <2>2, <2>3, <2>4
<1>2. Young \in SUBSET Nat /\ Young # {}
  BY <1>1
<1>3. PICK n \in Young : \A m \in Young : n <= m
  BY <1>2, NatMin
<1>4. ASSUME NEW m \in 1..(n - 1) PROVE entries[m].ts < ts
  <2>1. m \in DOMAIN entries /\ m \notin Young
    BY <1>1, <1>3
  <2> QED BY <1>1, <2>1
<1>5. Is(n)
  BY <1>3, <1>4
<1>6. Is(LowerBound(entries, ts))
  BY <1>5 DEF LowerBound
<1> DEFINE b == LowerBound(entries, ts)
<1> HIDE DEF b
<1>7. b \in 1..Len(entries) /\ entries[b].ts >= ts /\ \A m \in 1..(b - 1) : entries[m].ts < ts
  BY <1>1, <1>6 DEF b
<1>8. ASSUME NEW i \in b..Len(entries) PROVE ts <= entries[i].ts
  <2>1. i \in DOMAIN entries /\ b \in DOMAIN entries
    BY <1>1, <1>7
  <2>2. entries[b].ts <= entries[i].ts
    BY <1>1, <1>7, <2>1 DEF SortedSeq
  <2> QED BY <1>1, <1>7, <2>1, <2>2
<1> QED BY <1>7, <1>8 DEF b

\* The sequence with e in front of position n.
LEMMA InsertAtProperties ==
    ASSUME NEW entries \in Seq(Entry), NEW e \in Entry, NEW n \in 1..(Len(entries) + 1)
    PROVE  LET s == InsertAt(entries, n, e) IN
           /\ s \in Seq(Entry) /\ Len(s) = Len(entries) + 1
           /\ \A i \in 1..(n - 1) : s[i] = entries[i]
           /\ s[n] = e
           /\ \A i \in (n + 1)..Len(s) : s[i] = entries[i - 1]
<1> DEFINE front == SubSeq(entries, 1, n - 1)
           back == SubSeq(entries, n, Len(entries))
           s == (front \o <<e>>) \o back
<1>1. Len(entries) \in Nat /\ n \in Int
  OBVIOUS
<1>2. /\ front \in Seq(Entry) /\ Len(front) = n - 1
      /\ \A i \in 1..(n - 1) : front[i] = entries[i]
  <2>1. \A i \in 1..(n - 1) : entries[i] \in Entry
    BY <1>1
  <2> QED BY <1>1, <2>1, SubSeqProperties
<1>3. /\ back \in Seq(Entry) /\ Len(back) = Len(entries) - n + 1
      /\ \A i \in 1..(Len(entries) - n + 1) : back[i] = entries[n + i - 1]
  <2>1. \A i \in n..Len(entries) : entries[i] \in Entry
    BY <1>1
  <2> QED BY <1>1, <2>1, SubSeqProperties
<1> HIDE DEF front, back
<1>4. /\ front \o <<e>> \in Seq(Entry) /\ Len(front \o <<e>>) = n
      /\ \A i \in 1..(n - 1) : (front \o <<e>>)[i] = entries[i]
      /\ (front \o <<e>>)[n] = e
  BY <1>1, <1>2
<1>5. /\ s \in Seq(Entry) /\ Len(s) = Len(entries) + 1
      /\ \A i \in 1..n : s[i] = (front \o <<e>>)[i]
      /\ \A i \in (n + 1)..(Len(entries) + 1) : s[i] = back[i - n]
  BY <1>1, <1>3, <1>4
<1>6. InsertAt(entries, n, e) = s
  BY DEF InsertAt, front, back
<1> HIDE DEF s
<1>7. \A i \in (n + 1)..Len(s) : s[i] = entries[i - 1]
  <2> SUFFICES ASSUME NEW i \in (n + 1)..(Len(entries) + 1) PROVE s[i] = entries[i - 1]
    BY <1>5
  <2>1. i - n \in 1..(Len(entries) - n + 1) /\ n + (i - n) - 1 = i - 1
    BY <1>1
  <2> QED BY <1>3, <1>5, <2>1
<1> QED BY <1>1, <1>4, <1>5, <1>6, <1>7

\* One entry more, in its place.
LEMMA PlaceAddsInOrder ==
    ASSUME NEW entries \in Seq(Entry), NEW e \in Entry, SortedSeq(entries)
    PROVE  LET s == Place(entries, e) IN
           /\ s \in Seq(Entry) /\ SortedSeq(s)
           /\ ToSet(s) = ToSet(entries) \cup {e}
<1>1. /\ Len(entries) \in Nat /\ DOMAIN entries = 1..Len(entries)
      /\ \A i \in 1..Len(entries) : entries[i] \in Entry
      /\ \A d \in Entry : d.ts \in Nat
  <2>1. \A d \in Entry : d.ts \in Nat
    BY DEF Entry, Times
  <2> QED BY <2>1
<1>2. CASE entries = <<>> \/ Last(entries).ts <= e.ts
  <2> DEFINE s == Append(entries, e)
  <2>1. Place(entries, e) = s
    BY <1>2 DEF Place
  <2>2. /\ s \in Seq(Entry) /\ DOMAIN s = 1..(Len(entries) + 1)
        /\ \A i \in 1..Len(entries) : s[i] = entries[i]
        /\ s[Len(entries) + 1] = e
    OBVIOUS
  <2> HIDE DEF s
  <2>3. ToSet(s) = ToSet(entries) \cup {e}
    <3>1. ASSUME NEW i \in DOMAIN s PROVE s[i] \in ToSet(entries) \cup {e}
      <4>1. CASE i = Len(entries) + 1
        BY <2>2, <4>1
      <4>2. CASE i \in 1..Len(entries)
        BY <1>1, <2>2, <4>2 DEF ToSet
      <4> QED BY <1>1, <2>2, <4>1, <4>2
    <3>2. ASSUME NEW i \in DOMAIN entries PROVE entries[i] \in ToSet(s)
      BY <1>1, <2>2 DEF ToSet
    <3>3. e \in ToSet(s)
      BY <1>1, <2>2 DEF ToSet
    <3> QED BY <3>1, <3>2, <3>3 DEF ToSet
  <2>4. ASSUME NEW i \in DOMAIN entries PROVE entries[i].ts <= e.ts
    <3>1. Last(entries) = entries[Len(entries)] /\ entries # <<>>
      BY <1>1 DEF Last
    <3>2. entries[i].ts <= entries[Len(entries)].ts
      BY <1>1 DEF SortedSeq
    <3> QED BY <1>1, <1>2, <3>1, <3>2
  <2>5. SortedSeq(s)
    <3> SUFFICES ASSUME NEW i \in DOMAIN s, NEW j \in DOMAIN s, i < j
                 PROVE  s[i].ts <= s[j].ts
      BY DEF SortedSeq
    <3>1. i \in DOMAIN entries
      BY <1>1, <2>2
    <3>2. CASE j = Len(entries) + 1
      BY <1>1, <2>2, <2>4, <3>1, <3>2
    <3>3. CASE j \in DOMAIN entries
      BY <1>1, <2>2, <3>1, <3>3 DEF SortedSeq
    <3> QED BY <1>1, <2>2, <3>2, <3>3
  <2> QED BY <2>1, <2>2, <2>3, <2>5
<1>3. CASE entries # <<>> /\ ~(Last(entries).ts <= e.ts)
  <2> DEFINE n == LowerBound(entries, e.ts)
             s == InsertAt(entries, n, e)
  <2>1. Place(entries, e) = s
    BY <1>3 DEF Place
  <2>2. /\ n \in 1..Len(entries)
        /\ \A i \in 1..(n - 1) : entries[i].ts < e.ts
        /\ \A i \in n..Len(entries) : e.ts <= entries[i].ts
    <3>1. Len(entries) > 0
      BY <1>1, <1>3, EmptySeq
    <3>2. e.ts \in Nat /\ e.ts <= entries[Len(entries)].ts
      BY <1>1, <1>3, <3>1 DEF Last
    <3> QED BY <1>3, <3>2, LowerBoundSplits
  <2> HIDE DEF n
  <2>3. n \in 1..(Len(entries) + 1)
    BY <1>1, <2>2
  <2>4. /\ s \in Seq(Entry) /\ Len(s) = Len(entries) + 1
        /\ \A i \in 1..(n - 1) : s[i] = entries[i]
        /\ s[n] = e
        /\ \A i \in (n + 1)..Len(s) : s[i] = entries[i - 1]
    BY <2>3, InsertAtProperties
  <2> HIDE DEF s
  <2>5. DOMAIN s = 1..(Len(entries) + 1)
    BY <2>4
  <2>6. ToSet(s) = ToSet(entries) \cup {e}
    <3>1. ASSUME NEW i \in DOMAIN s PROVE s[i] \in ToSet(entries) \cup {e}
      <4>1. CASE i \in 1..(n - 1)
        BY <1>1, <2>2, <2>4, <4>1 DEF ToSet
      <4>2. CASE i = n
        BY <2>4, <4>2
      <4>3. CASE i \in (n + 1)..Len(s)
        <5>1. i - 1 \in DOMAIN entries /\ s[i] = entries[i - 1]
          BY <1>1, <2>2, <2>4, <4>3
        <5> QED BY <5>1 DEF ToSet
      <4> QED BY <1>1, <2>2, <2>4, <2>5, <4>1, <4>2, <4>3
    <3>2. ASSUME NEW i \in DOMAIN entries PROVE entries[i] \in ToSet(s)
      <4>1. CASE i \in 1..(n - 1)
        BY <1>1, <2>2, <2>4, <2>5, <4>1 DEF ToSet
      <4>2. CASE i \in n..Len(entries)
        <5>1. i + 1 \in DOMAIN s /\ s[i + 1] = entries[i]
          BY <1>1, <2>2, <2>4, <2>5, <4>2
        <5> QED BY <5>1 DEF ToSet
      <4> QED BY <1>1, <2>2, <4>1, <4>2
    <3>3. e \in ToSet(s)
      BY <2>2, <2>4, <2>5, <1>1 DEF ToSet
    <3> QED BY <3>1, <3>2, <3>3 DEF ToSet
  <2>7. SortedSeq(s)
    <3> SUFFICES ASSUME NEW i \in DOMAIN s, NEW j \in DOMAIN s, i < j
                 PROVE  s[i].ts <= s[j].ts
      BY DEF SortedSeq
    <3> USE <1>1, <2>2, <2>4, <2>5
    <3>1. CASE j < n
      <4>1. i \in 1..(n - 1) /\ j \in 1..(n - 1)
        BY <3>1
      <4> QED BY <4>1 DEF SortedSeq
    <3>2. CASE j = n
      <4>1. i \in 1..(n - 1) /\ entries[i].ts < e.ts
        BY <3>2
      <4> QED BY <3>2, <4>1
    <3>3. CASE j > n
      <4>1. j - 1 \in n..Len(entries) /\ s[j] = entries[j - 1]
        BY <3>3
      <4>2. CASE i < n
        <5>1. i \in 1..(n - 1)
          BY <4>2
        <5>2. s[i] = entries[i] /\ entries[i].ts < e.ts /\ entries[i].ts \in Nat
          BY <5>1
        <5>3. e.ts <= entries[j - 1].ts /\ entries[j - 1].ts \in Nat /\ e.ts \in Nat
          BY <4>1
        <5> QED BY <4>1, <5>2, <5>3
      <4>3. CASE i = n
        BY <4>1, <4>3
      <4>4. CASE i > n
        <5>1. i \in (n + 1)..Len(s) /\ i - 1 \in 1..Len(entries) /\ i - 1 < j - 1
          BY <4>4
        <5>2. s[i] = entries[i - 1] /\ j - 1 \in 1..Len(entries)
          BY <4>1, <5>1
        <5> QED BY <4>1, <5>1, <5>2 DEF SortedSeq
      <4> QED BY <4>2, <4>3, <4>4
    <3> QED BY <3>1, <3>2, <3>3
  <2> QED BY <2>1, <2>4, <2>6, <2>7
<1> QED BY <1>2, <1>3

-----------------------------------------------------------------------------
(* The content of all apps *)

LEMMA TaggedIs ==
    ASSUME NEW content \in Content, NEW t
    PROVE  t \in Tagged(content) <=>
              \E a \in Apps : \E e \in ToSet(content[a]) : t = <<e.id, e.ts>>
BY DEF Tagged, All

LEMMA EntriesAre ==
    ASSUME NEW content \in Content, NEW a \in Apps, NEW e \in ToSet(content[a])
    PROVE  e \in Entry /\ e.id \in Nat /\ e.ts \in Nat /\ e.ts > 0
<1>1. content[a] \in Seq(Entry)
  BY DEF Content
<1>2. e \in Entry
  BY <1>1 DEF ToSet
<1> QED BY <1>2 DEF Entry, Times

LEMMA SortedIs ==
    ASSUME NEW content
    PROVE  Sorted(content) <=> \A a \in Apps : SortedSeq(content[a])
BY DEF Sorted, SortedSeq

LEMMA NothingIs ==
    /\ Nothing \in Content /\ Sorted(Nothing) /\ Tagged(Nothing) = {}
    /\ \A a \in Apps : ToSet(Nothing[a]) = {}
<1>1. Nothing \in Content /\ Sorted(Nothing) /\ \A a \in Apps : ToSet(Nothing[a]) = {}
  BY DEF Nothing, Content, Sorted, ToSet
<1>2. Tagged(Nothing) = {}
  BY <1>1, TaggedIs
<1> QED BY <1>1, <1>2

\* Eviction keeps what is young enough, in order.
LEMMA FreshKeeps ==
    ASSUME NEW content \in Content, now \in Nat
    PROVE  /\ Fresh(content) \in Content
           /\ \A a \in Apps :
                 ToSet(Fresh(content)[a]) = {e \in ToSet(content[a]) : e.ts >= now - Age}
           /\ Sorted(content) => Sorted(Fresh(content))
           /\ Tagged(Fresh(content)) \subseteq Tagged(content)
           /\ \A t \in Tagged(content) : t \in Tagged(Fresh(content)) \/ t[2] < now - Age
<1>1. now - Age \in Int
  BY AgeAssumption
<1>2. ASSUME NEW a \in Apps
      PROVE  /\ Fresh(content)[a] \in Seq(Entry)
             /\ ToSet(Fresh(content)[a]) = {e \in ToSet(content[a]) : e.ts >= now - Age}
             /\ SortedSeq(content[a]) => SortedSeq(Fresh(content)[a])
  <2>1. content[a] \in Seq(Entry) /\ Fresh(content)[a] = Since(content[a], now - Age)
    BY DEF Content, Fresh
  <2> QED BY <1>1, <2>1, SinceKeeps
<1>3. Fresh(content) \in Content
  BY <1>2 DEF Content, Fresh
<1>4. ASSUME NEW t \in Tagged(Fresh(content)) PROVE t \in Tagged(content)
  <2>0. PICK a \in Apps : \E e \in ToSet(Fresh(content)[a]) : t = <<e.id, e.ts>>
    BY <1>3, TaggedIs
  <2>1. PICK e \in ToSet(Fresh(content)[a]) : t = <<e.id, e.ts>>
    BY <2>0
  <2>2. e \in ToSet(content[a])
    BY <1>2
  <2> QED BY <2>1, <2>2, TaggedIs
<1>5. ASSUME NEW t \in Tagged(content) PROVE t \in Tagged(Fresh(content)) \/ t[2] < now - Age
  <2>0. PICK a \in Apps : \E e \in ToSet(content[a]) : t = <<e.id, e.ts>>
    BY TaggedIs
  <2>1. PICK e \in ToSet(content[a]) : t = <<e.id, e.ts>>
    BY <2>0
  <2>2. CASE e.ts >= now - Age
    <3>1. e \in ToSet(Fresh(content)[a])
      BY <1>2, <2>2
    <3> QED BY <1>3, <2>1, <3>1, TaggedIs
  <2>3. CASE ~(e.ts >= now - Age)
    <3>1. e.ts \in Nat
      BY EntriesAre
    <3> QED BY <1>1, <2>1, <2>3, <3>1
  <2> QED BY <2>2, <2>3
<1> QED BY <1>2, <1>3, <1>4, <1>5, SortedIs

\* The file keeps id, time and order of each entry.
LEMMA BinaryKeeps ==
    ASSUME NEW content \in Content
    PROVE  /\ Binary(content) \in Content
           /\ Sorted(content) => Sorted(Binary(content))
           /\ Tagged(Binary(content)) = Tagged(content)
<1>1. ASSUME NEW e \in Entry
      PROVE  Stored(e) \in Entry /\ Stored(e).id = e.id /\ Stored(e).ts = e.ts
  BY DEF Stored, Entry
<1>2. ASSUME NEW a \in Apps
      PROVE  /\ Binary(content)[a] \in Seq(Entry)
             /\ content[a] \in Seq(Entry)
             /\ DOMAIN Binary(content)[a] = DOMAIN content[a]
             /\ \A i \in DOMAIN content[a] :
                   /\ content[a][i] \in Entry /\ Binary(content)[a][i] = Stored(content[a][i])
  <2>1. content[a] \in Seq(Entry)
    BY DEF Content
  <2>2. Binary(content)[a] = [i \in DOMAIN content[a] |-> Stored(content[a][i])]
    BY DEF Binary
  <2>3. DOMAIN content[a] = 1..Len(content[a]) /\ Len(content[a]) \in Nat
    BY <2>1
  <2>4. \A i \in DOMAIN content[a] : content[a][i] \in Entry /\ Stored(content[a][i]) \in Entry
    BY <1>1, <2>1
  <2> QED BY <2>1, <2>2, <2>3, <2>4
<1>3. Binary(content) \in Content
  BY <1>2 DEF Binary, Content
<1>4. ASSUME Sorted(content) PROVE Sorted(Binary(content))
  BY <1>1, <1>2, <1>4 DEF Sorted
<1>5. ASSUME NEW t PROVE t \in Tagged(Binary(content)) <=> t \in Tagged(content)
  <2>1. ASSUME t \in Tagged(Binary(content)) PROVE t \in Tagged(content)
    <3>0. PICK a \in Apps : \E e \in ToSet(Binary(content)[a]) : t = <<e.id, e.ts>>
      BY <1>3, <2>1, TaggedIs
    <3>1. PICK e \in ToSet(Binary(content)[a]) : t = <<e.id, e.ts>>
      BY <3>0
    <3>2. PICK i \in DOMAIN content[a] : e = Stored(content[a][i])
      BY <1>2 DEF ToSet
    <3>3. content[a][i] \in ToSet(content[a]) /\ t = <<content[a][i].id, content[a][i].ts>>
      BY <1>1, <1>2, <3>1, <3>2 DEF ToSet
    <3> QED BY <3>3, TaggedIs
  <2>2. ASSUME t \in Tagged(content) PROVE t \in Tagged(Binary(content))
    <3>0. PICK a \in Apps : \E e \in ToSet(content[a]) : t = <<e.id, e.ts>>
      BY <2>2, TaggedIs
    <3>1. PICK e \in ToSet(content[a]) : t = <<e.id, e.ts>>
      BY <3>0
    <3>2. PICK i \in DOMAIN content[a] : e = content[a][i]
      BY DEF ToSet
    <3>3. Stored(e) \in ToSet(Binary(content)[a]) /\ t = <<Stored(e).id, Stored(e).ts>>
      BY <1>1, <1>2, <3>1, <3>2 DEF ToSet
    <3> QED BY <1>3, <3>3, TaggedIs
  <2> QED BY <2>1, <2>2
<1> QED BY <1>3, <1>4, <1>5

-----------------------------------------------------------------------------
(* The invariant is inductive *)

\* last_seen is not older than any entry.
Covered == \A a \in Apps : \A e \in ToSet(data[a]) : e.ts <= lastSeen[a]

LEMMA InvIs ==
    IInv <=> /\ TypeOK /\ Sorted(data) /\ Sorted(tmp) /\ Sorted(file)
             /\ Covered /\ ReportKnows /\ WriterKnows /\ WrittenSurvives /\ StopSavesAll
BY DEF IInv, Covered

LEMMA TypesAre ==
    TypeOK => data \in Content /\ tmp \in Content /\ file \in Content
BY DEF TypeOK

\* An empty database satisfies it.
LEMMA InvInit == Init => IInv
<1> SUFFICES ASSUME Init PROVE IInv
  OBVIOUS
<1>1. data = Nothing /\ tmp = Nothing /\ file = Nothing
  BY DEF Init
<1>2. TypeOK
  BY <1>1, NothingIs DEF Init, TypeOK, Unseen
<1>3. Sorted(data) /\ Sorted(tmp) /\ Sorted(file) /\ Covered
  BY <1>1, NothingIs DEF Covered
<1>4. ReportKnows /\ WriterKnows /\ WrittenSurvives /\ StopSavesAll
  <2>1. safe = {} /\ writer = "idle" /\ run = "up" /\ report = None /\ Tagged(file) = {}
    BY <1>1, NothingIs DEF Init
  <2> QED BY <2>1 DEF ReportKnows, WriterKnows, WrittenSurvives, StopSavesAll, Survive
<1> QED BY <1>2, <1>3, <1>4, InvIs

\* An insert adds one entry, in its place, with a new number.
LEMMA InsertAdds ==
    ASSUME TypeOK, Sorted(data), NEW a \in Apps, NEW ts \in Times, NEW level \in Levels,
           Insert(a, ts, level)
    PROVE  /\ data' \in Content /\ Sorted(data')
           /\ \A b \in Apps : \A e \in ToSet(data[b]) : e \in ToSet(data'[b])
           /\ \A b \in Apps : \A e \in ToSet(data'[b]) :
                 e \in ToSet(data[b]) \/ (b = a /\ e.ts = ts /\ e.id = inserted + 1)
<1> DEFINE d == [id |-> inserted + 1, ts |-> ts, level |-> level]
<1>1. d \in Entry
  BY DEF TypeOK, Entry
<1>2. data \in Content /\ \A b \in Apps : data[b] \in Seq(Entry) /\ SortedSeq(data[b])
  BY TypesAre, SortedIs DEF Content
<1>3. data' = [data EXCEPT ![a] = Place(data[a], d)]
  BY DEF Insert
<1>4. d.ts = ts /\ d.id = inserted + 1
  OBVIOUS
<1> HIDE DEF d
<1>5. /\ data'[a] \in Seq(Entry) /\ SortedSeq(data'[a])
      /\ ToSet(data'[a]) = ToSet(data[a]) \cup {d}
  <2>1. data'[a] = Place(data[a], d)
    BY <1>2, <1>3 DEF Content
  <2> QED BY <1>1, <1>2, <2>1, PlaceAddsInOrder
<1>6. \A b \in Apps \ {a} : data'[b] = data[b]
  BY <1>2, <1>3 DEF Content
<1>7. DOMAIN data' = Apps /\ data' = [b \in Apps |-> data'[b]]
  BY <1>2, <1>3 DEF Content
<1>8. \A b \in Apps : data'[b] \in Seq(Entry) /\ SortedSeq(data'[b])
  BY <1>2, <1>5, <1>6
<1>9. data' \in Content
  BY <1>7, <1>8 DEF Content
<1> QED BY <1>4, <1>5, <1>6, <1>8, <1>9, SortedIs

\* What was in memory or old stays so while entries are added.
LEMMA AddingKeeps ==
    ASSUME data \in Content, data' \in Content, now' = now,
           \A b \in Apps : \A e \in ToSet(data[b]) : e \in ToSet(data'[b])
    PROVE  /\ Tagged(data) \subseteq Tagged(data')
           /\ \A E : Survive(E) => (\A e \in E : e \in Tagged(data') \/ e[2] < now' - Age)
<1>1. ASSUME NEW t \in Tagged(data) PROVE t \in Tagged(data')
  <2>1. PICK b \in Apps : \E e \in ToSet(data[b]) : t = <<e.id, e.ts>>
    BY TaggedIs
  <2> QED BY <2>1, TaggedIs
<1> QED BY <1>1 DEF Survive

LEMMA InsertInv ==
    ASSUME IInv, NEW a \in Apps, NEW ts \in Times, NEW level \in Levels, Insert(a, ts, level)
    PROVE  IInv'
<1>1. /\ TypeOK /\ Sorted(data) /\ Sorted(tmp) /\ Sorted(file)
      /\ Covered /\ ReportKnows /\ WriterKnows /\ WrittenSurvives /\ StopSavesAll
  BY InvIs
<1>2. /\ run \in {"up", "stopping"} /\ inserted' = inserted + 1
      /\ lastSeen' = [lastSeen EXCEPT ![a] = IF ts > @ THEN ts ELSE @]
      /\ UNCHANGED <<now, run, writer, tmp, file, safe, report>>
  BY DEF Insert, diskVars
<1>3. /\ data' \in Content /\ Sorted(data')
      /\ \A b \in Apps : \A e \in ToSet(data[b]) : e \in ToSet(data'[b])
      /\ \A b \in Apps : \A e \in ToSet(data'[b]) :
            e \in ToSet(data[b]) \/ (b = a /\ e.ts = ts /\ e.id = inserted + 1)
  BY <1>1, InsertAdds
<1>4. /\ lastSeen' \in [Apps -> Nat] /\ lastSeen'[a] >= ts
      /\ \A b \in Apps : lastSeen'[b] >= lastSeen[b] /\ lastSeen[b] \in Nat
  BY <1>1, <1>2 DEF TypeOK, Times
<1>5. TypeOK'
  BY <1>1, <1>2, <1>3, <1>4 DEF TypeOK
<1>6. Covered'
  <2> SUFFICES ASSUME NEW b \in Apps, NEW e \in ToSet(data'[b]) PROVE e.ts <= lastSeen'[b]
    BY DEF Covered
  <2>1. CASE e \in ToSet(data[b])
    <3>1. e.ts \in Nat /\ e.ts <= lastSeen[b]
      BY <1>1, <2>1, TypesAre, EntriesAre DEF Covered
    <3> QED BY <1>4, <3>1
  <2>2. CASE b = a /\ e.ts = ts
    BY <1>4, <2>2
  <2> QED BY <1>3, <2>1, <2>2
<1>7. ReportKnows'
  <2> SUFFICES ASSUME report # None PROVE ReportKnows'
    BY <1>2 DEF ReportKnows
  <2>1. CASE report.at = "listed"
    <3>1. report.app \in Apps
      BY <1>1, <2>1 DEF TypeOK
    <3> QED BY <1>1, <1>2, <1>4, <2>1, <3>1 DEF ReportKnows
  <2>2. CASE report.at = "seen"
    <3>1. report.app \in Apps /\ report.upto \in Nat /\ inserted \in Nat
      BY <1>1, <2>2 DEF TypeOK
    <3>2. ASSUME NEW e \in ToSet(data'[report.app]) PROVE e.ts <= report.seen \/ e.id > report.upto
      <4>1. CASE e \in ToSet(data[report.app])
        BY <1>1, <2>2, <4>1 DEF ReportKnows
      <4>2. CASE e.id = inserted + 1
        BY <1>1, <2>2, <3>1, <4>2 DEF ReportKnows
      <4> QED BY <1>3, <3>1, <4>1, <4>2
    <3> QED BY <1>1, <1>2, <2>2, <3>1, <3>2 DEF ReportKnows
  <2>3. report.at \in {"listed", "seen"}
    BY <1>1 DEF TypeOK
  <2> QED BY <2>1, <2>2, <2>3
<1>8. /\ Tagged(data) \subseteq Tagged(data')
      /\ \A E : Survive(E) => (\A e \in E : e \in Tagged(data') \/ e[2] < now' - Age)
  BY <1>1, <1>2, <1>3, TypesAre, AddingKeeps
<1>9. WriterKnows'
  BY <1>1, <1>2, <1>8 DEF WriterKnows, Survive
<1>10. WrittenSurvives' /\ StopSavesAll'
  BY <1>1, <1>2, <1>8 DEF WrittenSurvives, StopSavesAll, Survive
<1>11. Sorted(tmp') /\ Sorted(file')
  BY <1>1, <1>2
<1> QED BY <1>3, <1>5, <1>6, <1>7, <1>9, <1>10, <1>11 DEF IInv, Covered

\* Eviction and the clock take only old entries out of the database's duty.
LEMMA EvictInv == ASSUME IInv, Evict PROVE IInv'
<1>1. /\ TypeOK /\ Sorted(data) /\ Sorted(tmp) /\ Sorted(file)
      /\ Covered /\ ReportKnows /\ WriterKnows /\ WrittenSurvives /\ StopSavesAll
  BY InvIs
<1>2. /\ run \in {"up", "stopping"} /\ data' = Fresh(data)
      /\ UNCHANGED <<now, run, lastSeen, writer, tmp, file, safe, report, inserted>>
  BY DEF Evict, diskVars
<1>3. /\ data' \in Content /\ Sorted(data')
      /\ \A a \in Apps : ToSet(data'[a]) = {e \in ToSet(data[a]) : e.ts >= now - Age}
      /\ \A t \in Tagged(data) : t \in Tagged(data') \/ t[2] < now - Age
  <2>1. data \in Content /\ now \in Nat
    BY <1>1 DEF TypeOK
  <2> QED BY <1>1, <1>2, <2>1, FreshKeeps
<1>4. TypeOK'
  BY <1>1, <1>2, <1>3 DEF TypeOK
<1>5. Covered'
  BY <1>1, <1>2, <1>3 DEF Covered
<1>6. ReportKnows'
  <2>1. ASSUME report # None, report.at = "seen"
        PROVE  \A e \in ToSet(data'[report.app]) : e \in ToSet(data[report.app])
    <3>1. report.app \in Apps
      BY <1>1, <2>1 DEF TypeOK
    <3> QED BY <1>3, <3>1
  <2> QED BY <1>1, <1>2, <2>1 DEF ReportKnows
<1>7. \A E : Survive(E) => Survive(E)'
  BY <1>2, <1>3 DEF Survive
<1>8. WriterKnows' /\ WrittenSurvives' /\ StopSavesAll'
  <2>1. writer = "written" => Survive(Tagged(tmp)) /\ Tagged(tmp') = Tagged(tmp)
    BY <1>1, <1>2 DEF WriterKnows
  <2>2. safe' = Tagged(file') /\ Survive(safe) /\ safe' = safe
    BY <1>1, <1>2 DEF WriterKnows, WrittenSurvives
  <2>3. writer' = "written" => Survive(Tagged(tmp))'
    BY <1>2, <1>3, <2>1 DEF Survive
  <2>4. Survive(safe)'
    BY <1>2, <1>3, <2>2 DEF Survive
  <2> QED BY <1>2, <2>2, <2>3, <2>4 DEF WriterKnows, WrittenSurvives, StopSavesAll
<1> QED BY <1>1, <1>2, <1>3, <1>4, <1>5, <1>6, <1>8 DEF IInv, Covered

LEMMA TickInv == ASSUME IInv, Tick PROVE IInv'
<1>1. /\ TypeOK /\ Sorted(data) /\ Sorted(tmp) /\ Sorted(file)
      /\ Covered /\ ReportKnows /\ WriterKnows /\ WrittenSurvives /\ StopSavesAll
  BY InvIs
<1>2. now' = now + 1 /\ UNCHANGED <<run, data, lastSeen, writer, tmp, file, safe, report, inserted>>
  BY DEF Tick, memVars, diskVars
<1>3. now \in Nat /\ Age \in Nat
  BY <1>1, AgeAssumption DEF TypeOK
<1>4. TypeOK'
  BY <1>1, <1>2, <1>3 DEF TypeOK
<1>5. Tagged(data') = Tagged(data) /\ Tagged(tmp') = Tagged(tmp) /\ Tagged(file') = Tagged(file)
  BY <1>2
<1>6. ASSUME NEW content \in Content, Survive(Tagged(content))
      PROVE  \A t \in Tagged(content) : t \in Tagged(data) \/ t[2] < now' - Age
  <2> SUFFICES ASSUME NEW t \in Tagged(content), t[2] < now - Age PROVE t[2] < now' - Age
    BY <1>6 DEF Survive
  <2>1. t[2] \in Nat
    <3>1. PICK a \in Apps : \E e \in ToSet(content[a]) : t = <<e.id, e.ts>>
      BY TaggedIs
    <3>2. PICK e \in ToSet(content[a]) : t = <<e.id, e.ts>>
      BY <3>1
    <3>3. e.ts \in Nat
      BY EntriesAre
    <3> QED BY <3>2, <3>3
  <2> QED BY <1>2, <1>3, <2>1
<1>7. tmp \in Content /\ file \in Content
  BY <1>1, TypesAre
<1>8. WriterKnows'
  BY <1>1, <1>2, <1>5, <1>6, <1>7 DEF WriterKnows, Survive
<1>9. WrittenSurvives' /\ StopSavesAll'
  BY <1>1, <1>2, <1>5, <1>6, <1>7 DEF WriterKnows, WrittenSurvives, StopSavesAll, Survive
<1>10. ReportKnows' /\ Covered'
  BY <1>1, <1>2 DEF ReportKnows, Covered
<1> QED BY <1>1, <1>2, <1>4, <1>8, <1>9, <1>10 DEF IInv, Covered

\* A report is of an app with an entry, which last_seen covers.
LEMMA ReportInv ==
    ASSUME IInv, (\E a \in Apps : ReportApp(a)) \/ ReportLastSeen \/ ReportCount
    PROVE  IInv'
<1>1. /\ TypeOK /\ Sorted(data) /\ Sorted(tmp) /\ Sorted(file)
      /\ Covered /\ ReportKnows /\ WriterKnows /\ WrittenSurvives /\ StopSavesAll
  BY InvIs
<1>2. UNCHANGED <<now, run, data, lastSeen, writer, tmp, file, safe, inserted>>
  BY DEF ReportApp, ReportLastSeen, ReportCount, memVars, diskVars
<1>3. Covered' /\ WriterKnows' /\ WrittenSurvives' /\ StopSavesAll'
  BY <1>1, <1>2 DEF Covered, WriterKnows, WrittenSurvives, StopSavesAll, Survive, Tagged, All
<1>4. TypeOK' /\ ReportKnows'
  <2>1. ASSUME NEW a \in Apps, ReportApp(a) PROVE TypeOK' /\ ReportKnows'
    <3>1. report' = [at |-> "listed", app |-> a] /\ run \in {"up", "stopping"} /\ data[a] # <<>>
      BY <2>1 DEF ReportApp, GetApps
    <3>2. lastSeen[a] > 0
      <4>1. data[a] \in Seq(Entry)
        BY <1>1, TypesAre DEF Content
      <4>2. data[a][1] \in ToSet(data[a])
        BY <3>1, <4>1, EmptySeq DEF ToSet
      <4>3. data[a][1].ts \in Nat /\ data[a][1].ts > 0 /\ data[a][1].ts <= lastSeen[a]
        BY <1>1, <4>2, TypesAre, EntriesAre DEF Covered
      <4>4. lastSeen[a] \in Nat
        BY <1>1 DEF TypeOK
      <4> QED BY <4>3, <4>4
    <3>3. report'.at = "listed" /\ report'.app = a
      BY <3>1
    <3>4. TypeOK'
      BY <1>1, <1>2, <3>1 DEF TypeOK
    <3> QED BY <1>2, <3>1, <3>2, <3>3, <3>4 DEF ReportKnows
  <2>2. ASSUME ReportLastSeen PROVE TypeOK' /\ ReportKnows'
    <3>1. /\ report' = [at |-> "seen", app |-> report.app, seen |-> lastSeen[report.app],
                        upto |-> inserted]
          /\ report # None /\ report.at = "listed"
      BY <2>2 DEF ReportLastSeen, GetLastSeen
    <3>2. report.app \in Apps /\ lastSeen[report.app] \in Nat /\ inserted \in Nat
      BY <1>1, <3>1 DEF TypeOK
    <3>3. lastSeen[report.app] > 0 /\ run \in {"up", "stopping"}
      BY <1>1, <3>1 DEF ReportKnows
    <3>4. \A e \in ToSet(data[report.app]) : e.ts <= lastSeen[report.app]
      BY <1>1, <3>2 DEF Covered
    <3>5. /\ report'.at = "seen" /\ report'.app = report.app
          /\ report'.seen = lastSeen[report.app] /\ report'.upto = inserted
      BY <3>1
    <3>6. TypeOK'
      BY <1>1, <1>2, <3>1, <3>2 DEF TypeOK
    <3>7. ReportKnows'
      BY <1>2, <3>2, <3>3, <3>4, <3>5 DEF ReportKnows
    <3> QED BY <3>6, <3>7
  <2>3. ASSUME ReportCount PROVE TypeOK' /\ ReportKnows'
    BY <1>1, <1>2, <2>3 DEF ReportCount, TypeOK, ReportKnows
  <2> QED BY <2>1, <2>2, <2>3
<1> QED BY <1>1, <1>2, <1>3, <1>4 DEF IInv, Covered

\* Opening and writing the temporary file leave the memory and the file alone.
LEMMA WriteInv == ASSUME IInv, OpenTmp \/ WriteTmp PROVE IInv'
<1>1. /\ TypeOK /\ Sorted(data) /\ Sorted(tmp) /\ Sorted(file)
      /\ Covered /\ ReportKnows /\ WriterKnows /\ WrittenSurvives /\ StopSavesAll
  BY InvIs
<1>2. UNCHANGED <<now, run, data, lastSeen, file, safe, report, inserted>>
  BY DEF OpenTmp, WriteTmp, memVars
<1>3. /\ Covered' /\ ReportKnows' /\ WrittenSurvives' /\ StopSavesAll'
      /\ Sorted(data') /\ Sorted(file')
  BY <1>1, <1>2 DEF Covered, ReportKnows, WrittenSurvives, StopSavesAll, Survive, Tagged, All
<1>4. Tagged(data') = Tagged(data) /\ Tagged(file') = Tagged(file)
  BY <1>2
<1>5. CASE OpenTmp
  <2>1. tmp' = Nothing /\ writer' = "open" /\ run \in {"up", "stopping", "saving"}
    BY <1>5 DEF OpenTmp
  <2>2. TypeOK' /\ Sorted(tmp')
    BY <1>1, <1>2, <2>1, NothingIs DEF TypeOK
  <2>3. WriterKnows'
    BY <1>1, <1>2, <1>4, <2>1 DEF WriterKnows
  <2> QED BY <1>3, <2>2, <2>3 DEF IInv, Covered
<1>6. CASE WriteTmp
  <2>1. writer = "open" /\ tmp' = Binary(data) /\ writer' = "written"
    BY <1>6 DEF WriteTmp
  <2>2. tmp' \in Content /\ Sorted(tmp') /\ Tagged(tmp') = Tagged(data)
    BY <1>1, <2>1, TypesAre, BinaryKeeps
  <2>3. TypeOK'
    BY <1>1, <1>2, <2>1, <2>2 DEF TypeOK
  <2>4. WriterKnows'
    BY <1>1, <1>2, <1>4, <2>1, <2>2 DEF WriterKnows, Survive
  <2> QED BY <1>3, <2>2, <2>3, <2>4 DEF IInv, Covered
<1> QED BY <1>5, <1>6

\* What replaces the file is in memory or old, and all of it at the end.
LEMMA RenameInv == ASSUME IInv, Rename PROVE IInv'
<1>1. /\ TypeOK /\ Sorted(data) /\ Sorted(tmp) /\ Sorted(file)
      /\ Covered /\ ReportKnows /\ WriterKnows /\ WrittenSurvives /\ StopSavesAll
  BY InvIs
<1>2. /\ writer = "written" /\ file' = tmp /\ tmp' = Nothing /\ writer' = "idle"
      /\ safe' = Tagged(tmp) /\ run' = (IF run = "saving" THEN "stopped" ELSE run)
      /\ UNCHANGED <<now, data, lastSeen, report, inserted>>
  BY DEF Rename, memVars, Tagged
<1>3. /\ run \in {"up", "stopping", "saving"}
      /\ run = "saving" => Tagged(tmp) = Tagged(data)
      /\ run # "saving" => Survive(Tagged(tmp))
  BY <1>1, <1>2 DEF WriterKnows
<1>4. TypeOK' /\ Sorted(data') /\ Sorted(tmp') /\ Sorted(file')
  BY <1>1, <1>2, NothingIs DEF TypeOK
<1>5. Covered'
  BY <1>1, <1>2 DEF Covered
<1>6. ReportKnows'
  BY <1>1, <1>2 DEF ReportKnows
<1>7. Tagged(data') = Tagged(data) /\ Tagged(file') = Tagged(tmp)
  BY <1>2
<1>8. WriterKnows' /\ WrittenSurvives' /\ StopSavesAll'
  BY <1>2, <1>3, <1>7 DEF WriterKnows, WrittenSurvives, StopSavesAll, Survive
<1> QED BY <1>4, <1>5, <1>6, <1>8 DEF IInv, Covered

LEMMA StopInv == ASSUME IInv, StopFlag \/ Stop PROVE IInv'
<1>1. /\ TypeOK /\ Sorted(data) /\ Sorted(tmp) /\ Sorted(file)
      /\ Covered /\ ReportKnows /\ WriterKnows /\ WrittenSurvives /\ StopSavesAll
  BY InvIs
<1>2. UNCHANGED <<now, data, lastSeen, writer, tmp, file, safe, report, inserted>>
  BY DEF StopFlag, Stop, memVars, diskVars
<1>3. \/ run = "up" /\ run' = "stopping"
      \/ run = "stopping" /\ writer = "idle" /\ report = None /\ run' = "saving"
  BY DEF StopFlag, Stop
<1>4. TypeOK' /\ Sorted(data') /\ Sorted(tmp') /\ Sorted(file')
  BY <1>1, <1>2, <1>3 DEF TypeOK
<1>5. Covered' /\ ReportKnows'
  BY <1>1, <1>2, <1>3 DEF Covered, ReportKnows
<1>6. /\ Tagged(data') = Tagged(data) /\ Tagged(tmp') = Tagged(tmp)
      /\ Tagged(file') = Tagged(file)
  BY <1>2
<1>7. WriterKnows' /\ WrittenSurvives' /\ StopSavesAll'
  BY <1>1, <1>2, <1>3, <1>6 DEF WriterKnows, WrittenSurvives, StopSavesAll, Survive
<1> QED BY <1>4, <1>5, <1>7 DEF IInv, Covered

\* A crash leaves the file as it was last replaced.
LEMMA CrashInv == ASSUME IInv, Crash PROVE IInv'
<1>1. TypeOK /\ Sorted(tmp) /\ Sorted(file) /\ WriterKnows
  BY InvIs
<1>2. /\ run' = "down" /\ data' = Nothing /\ lastSeen' = Unseen
      /\ writer' = "idle" /\ report' = None
      /\ UNCHANGED <<now, tmp, file, safe, inserted>>
  BY DEF Crash
<1>3. TypeOK' /\ Sorted(data') /\ Sorted(tmp') /\ Sorted(file')
  BY <1>1, <1>2, NothingIs DEF TypeOK, Unseen
<1>4. Covered'
  BY <1>2, NothingIs DEF Covered
<1>5. ReportKnows' /\ WriterKnows' /\ WrittenSurvives' /\ StopSavesAll'
  <2>1. Tagged(file') = Tagged(file)
    BY <1>2
  <2> QED BY <1>1, <1>2, <2>1 DEF ReportKnows, WriterKnows, WrittenSurvives, StopSavesAll
<1> QED BY <1>3, <1>4, <1>5 DEF IInv, Covered

\* The times of a sorted sequence have a greatest one: the last.
LEMMA LastIsMax ==
    ASSUME NEW entries \in Seq(Entry), SortedSeq(entries), entries # <<>>
    PROVE  LET m == Max({e.ts : e \in ToSet(entries)})
           IN  m \in Nat /\ \A e \in ToSet(entries) : e.ts <= m
<1> DEFINE T == {e.ts : e \in ToSet(entries)}
           x == entries[Len(entries)].ts
<1>1. Len(entries) \in Nat /\ DOMAIN entries = 1..Len(entries) /\ Len(entries) > 0
  BY EmptySeq
<1>2. \A e \in ToSet(entries) : e.ts \in Nat
  <2>1. \A e \in Entry : e.ts \in Nat
    BY DEF Entry, Times
  <2> QED BY <2>1 DEF ToSet
<1>3. x \in T /\ entries[Len(entries)] \in ToSet(entries)
  BY <1>1 DEF ToSet
<1>4. ASSUME NEW e \in ToSet(entries) PROVE e.ts <= x
  <2>1. PICK i \in DOMAIN entries : e = entries[i]
    BY DEF ToSet
  <2>2. CASE i = Len(entries)
    BY <1>2, <2>1, <2>2
  <2>3. CASE i < Len(entries)
    BY <1>1, <2>1, <2>3 DEF SortedSeq
  <2> QED BY <1>1, <2>1, <2>2, <2>3
<1>5. \A y \in T : x >= y
  BY <1>2, <1>3, <1>4
<1>6. Max(T) \in T /\ \A y \in T : Max(T) >= y
  BY <1>3, <1>5 DEF Max
<1> HIDE DEF T
<1>7. T \subseteq Nat /\ \A e \in ToSet(entries) : e.ts \in T
  BY <1>2 DEF T
<1>8. Max(T) \in Nat /\ \A e \in ToSet(entries) : e.ts <= Max(T)
  BY <1>6, <1>7
<1> QED BY <1>8 DEF T

\* The load brings back what was written, except what has grown old.
LEMMA LoadInv == ASSUME IInv, Load PROVE IInv'
<1>1. /\ TypeOK /\ Sorted(data) /\ Sorted(tmp) /\ Sorted(file)
      /\ ReportKnows /\ WriterKnows
  BY InvIs
<1>2. /\ run \in {"stopped", "down"} /\ run' = "up" /\ data' = Fresh(file)
      /\ lastSeen' = [a \in Apps |-> IF file[a] = <<>> THEN 0
                                     ELSE Max({e.ts : e \in ToSet(file[a])})]
      /\ UNCHANGED <<now, writer, tmp, file, safe, report, inserted>>
  BY DEF Load, diskVars
<1>3. file \in Content /\ now \in Nat
  BY <1>1 DEF TypeOK
<1>4. /\ data' \in Content /\ Sorted(data')
      /\ \A a \in Apps : ToSet(data'[a]) = {e \in ToSet(file[a]) : e.ts >= now - Age}
      /\ \A t \in Tagged(file) : t \in Tagged(data') \/ t[2] < now - Age
  BY <1>1, <1>2, <1>3, FreshKeeps
<1>5. ASSUME NEW a \in Apps
      PROVE  lastSeen'[a] \in Nat /\ \A e \in ToSet(file[a]) : e.ts <= lastSeen'[a]
  <2>1. file[a] \in Seq(Entry) /\ SortedSeq(file[a])
    BY <1>1, <1>3, SortedIs DEF Content
  <2>2. CASE file[a] = <<>>
    BY <1>2, <2>2 DEF ToSet
  <2>3. CASE file[a] # <<>>
    BY <1>2, <2>1, <2>3, LastIsMax
  <2> QED BY <2>2, <2>3
<1>6. TypeOK' /\ Sorted(tmp') /\ Sorted(file')
  BY <1>1, <1>2, <1>4, <1>5 DEF TypeOK
<1>7. Covered'
  BY <1>4, <1>5 DEF Covered
<1>8. report = None /\ writer = "idle"
  BY <1>1, <1>2 DEF ReportKnows, WriterKnows, TypeOK
<1>9. ReportKnows' /\ WriterKnows' /\ WrittenSurvives' /\ StopSavesAll'
  <2>1. safe = Tagged(file) /\ Tagged(file') = Tagged(file)
    BY <1>1, <1>2 DEF WriterKnows
  <2> QED BY <1>2, <1>4, <1>8, <2>1
        DEF ReportKnows, WriterKnows, WrittenSurvives, StopSavesAll, Survive
<1> QED BY <1>4, <1>6, <1>7, <1>9 DEF IInv, Covered

\* Each step keeps the invariant.
LEMMA InvNext == ASSUME IInv, [Next]_vars PROVE IInv'
<1>1. CASE UNCHANGED vars
  BY <1>1 DEF vars, memVars, diskVars, IInv, TypeOK, Sorted, ReportKnows, WriterKnows,
              WrittenSurvives, StopSavesAll, Survive, Tagged, All
<1>2. CASE Next
  BY <1>2, InsertInv, EvictInv, ReportInv, WriteInv, RenameInv, StopInv, CrashInv, LoadInv, TickInv
     DEF Next
<1> QED BY <1>1, <1>2

\* The invariant holds in every reachable state, whatever the apps, the levels, the
\* eviction age and the number of entries: TSDB.hpp's insert, eviction, write, load,
\* crash and stop each keep it.
THEOREM InvCorrect == Spec => []IInv
BY InvInit, InvNext, PTL DEF Spec

\* The entries of each app are sorted by timestamp in every reachable state: insert
\* places them so, and eviction, write_binary and the load keep their order.
THEOREM SortedCorrect == Spec => []SortedByTime
<1>1. IInv => SortedByTime
  BY DEF IInv, SortedByTime
<1> QED BY <1>1, InvCorrect, PTL

\* last_seen covers every entry, restarts included, and what apps_to_json says of an
\* app is not older than what it counts, unless that came in between its two looks.
THEOREM LastSeenCorrect == Spec => []LastSeenCovers
<1>1. ASSUME IInv PROVE LastSeenCovers
  <2>1. TypeOK /\ ReportKnows /\ Covered
    BY <1>1, InvIs
  <2>2. ASSUME report # None, report.at = "seen", NEW e \in ToSet(GetLogs(report.app, Window))
        PROVE  e.ts <= report.seen \/ e.id > report.upto
    <3>1. data[report.app] \in Seq(Entry) /\ now - Window \in Int
      BY <2>1, <2>2, AgeAssumption DEF TypeOK, Content
    <3>2. e \in ToSet(data[report.app])
      BY <2>2, <3>1, SinceKeeps DEF GetLogs
    <3> QED BY <2>1, <2>2, <3>2 DEF ReportKnows
  <2> QED BY <2>1, <2>2 DEF LastSeenCovers, Covered, ReportKnows
<1> QED BY <1>1, InvCorrect, PTL

\* What was in memory when the file was last replaced is in memory or old, after any
\* number of writes, crashes and restarts at any point.
THEOREM WrittenCorrect == Spec => []WrittenSurvives
<1>1. IInv => WrittenSurvives
  BY DEF IInv
<1> QED BY <1>1, InvCorrect, PTL

\* After stop the file has everything that is in memory.
THEOREM StopCorrect == Spec => []StopSavesAll
<1>1. IInv => StopSavesAll
  BY DEF IInv
<1> QED BY <1>1, InvCorrect, PTL

\* While the program runs only eviction takes entries from memory, old ones, and what
\* is new in it has a number of its own.
THEOREM OnlyOldLeaveCorrect == Spec => OnlyOldLeave
<1> DEFINE Kept == {run, run'} \subseteq {"up", "stopping"} =>
                      /\ \A e \in Tagged(data) \ Tagged(data') : e[2] < now - Age
                      /\ \A e \in Tagged(data') \ Tagged(data) : e[1] > inserted
<1>1. ASSUME IInv, [Next]_vars PROVE [Kept]_vars
  <2> SUFFICES ASSUME {run, run'} \subseteq {"up", "stopping"}
               PROVE  /\ \A e \in Tagged(data) \ Tagged(data') : e[2] < now - Age
                      /\ \A e \in Tagged(data') \ Tagged(data) : e[1] > inserted
    OBVIOUS
  <2>1. TypeOK /\ Sorted(data)
    BY <1>1, InvIs
  <2>2. CASE data' = data
    BY <2>2
  <2>3. CASE Evict
    <3>1. data \in Content /\ now \in Nat /\ data' = Fresh(data)
      BY <2>1, <2>3 DEF TypeOK, Evict
    <3>2. /\ Tagged(data') \subseteq Tagged(data)
          /\ \A t \in Tagged(data) : t \in Tagged(data') \/ t[2] < now - Age
      BY <3>1, FreshKeeps
    <3> QED BY <3>2
  <2>4. ASSUME NEW a \in Apps, NEW ts \in Times, NEW level \in Levels, Insert(a, ts, level)
        PROVE  Tagged(data) \subseteq Tagged(data')
               /\ \A t \in Tagged(data') \ Tagged(data) : t[1] > inserted
    <3>1. /\ data' \in Content /\ data \in Content /\ now' = now /\ inserted \in Nat
          /\ \A b \in Apps : \A e \in ToSet(data[b]) : e \in ToSet(data'[b])
          /\ \A b \in Apps : \A e \in ToSet(data'[b]) :
                e \in ToSet(data[b]) \/ (b = a /\ e.ts = ts /\ e.id = inserted + 1)
      <4>1. now' = now
        BY <2>4 DEF Insert
      <4> QED BY <2>1, <2>4, <4>1, InsertAdds, TypesAre DEF TypeOK
    <3>2. ASSUME NEW t \in Tagged(data') \ Tagged(data) PROVE t[1] > inserted
      <4>1. PICK b \in Apps : \E e \in ToSet(data'[b]) : t = <<e.id, e.ts>>
        BY <3>1, TaggedIs
      <4>2. PICK e \in ToSet(data'[b]) : t = <<e.id, e.ts>>
        BY <4>1
      <4>3. e \notin ToSet(data[b])
        BY <3>1, <4>2, TaggedIs
      <4>4. e.id = inserted + 1
        BY <3>1, <4>3
      <4> QED BY <3>1, <4>2, <4>4
    <3> QED BY <3>1, <3>2, AddingKeeps
  <2>5. \/ data' = data \/ Evict
        \/ \E a \in Apps, ts \in Times, level \in Levels : Insert(a, ts, level)
    <3>1. ~Crash /\ ~Load
      BY DEF Crash, Load
    <3> QED BY <1>1, <3>1 DEF Next, vars, memVars, ReportApp, ReportLastSeen, ReportCount,
               OpenTmp, WriteTmp, Rename, StopFlag, Stop, Tick
  <2> QED BY <2>2, <2>3, <2>4, <2>5
<1>2. Spec => []IInv
  BY InvCorrect
<1> QED BY <1>1, <1>2, PTL DEF Spec, OnlyOldLeave
=============================================================================

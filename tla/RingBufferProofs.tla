-------------------------- MODULE RingBufferProofs --------------------------
(***************************************************************************)
(* The ring buffer for every number of producers and calls and every       *)
(* capacity the static_asserts accept.  Types hold for all of them; the    *)
(* other theorems leave a capacity of 1 out, with which the buffer is not  *)
(* correct: TLC finds that items get lost.                                 *)
(*                                                                         *)
(* The invariant IInv looks at the window of positions Done..head - 1 that *)
(* are claimed and not yet recycled.  It is never wider than the buffer,   *)
(* so that its positions have different slots, and each of them is in one  *)
(* of the states being written, published, or being read.  The arithmetic  *)
(* of positions and slots comes first.                                     *)
(***************************************************************************)
EXTENDS RingBuffer, TLAPS

\* Division with remainder, for a positive divisor.
LEMMA DivMod ==
    ASSUME NEW n \in Nat, NEW c \in Nat \ {0}
    PROVE  /\ n \div c \in Nat
           /\ n % c \in 0..c - 1
           /\ n = c * (n \div c) + (n % c)
OBVIOUS

\* The quotient and remainder are determined by their equation.
LEMMA RemainderUnique ==
    ASSUME NEW c \in Nat \ {0}, NEW a \in Int, NEW r \in 0..c - 1,
           NEW b \in Int, NEW s \in 0..c - 1, c * a + r = c * b + s
    PROVE  r = s
<1>1. c * (a - b) = s - r
  OBVIOUS
<1>2. CASE a - b >= 1
  <2>1. c * (a - b) >= c
    BY <1>2
  <2>. QED  BY <1>1, <2>1
<1>3. CASE a - b <= -1
  <2>1. c * (a - b) <= -c
    BY <1>3
  <2>. QED  BY <1>1, <2>1
<1>4. CASE a = b
  BY <1>4
<1>. QED  BY <1>2, <1>3, <1>4

\* What the proofs use of the assumption on Capacity.
LEMMA CapacityPositive == Capacity \in Nat \ {0}
BY CapacityAssumption

\* A position's slot is a slot.
LEMMA SlotInRange ==
    ASSUME NEW n \in Nat
    PROVE  Slot(n) \in 0..Capacity - 1
BY CapacityPositive, DivMod DEF Slot

\* Two different positions less than a lap apart have different slots.
LEMMA SlotDistinct ==
    ASSUME NEW m \in Nat, NEW n \in Nat, m < n, n < m + Capacity
    PROVE  Slot(m) # Slot(n)
<1>. DEFINE a == m \div Capacity
            b == n \div Capacity
<1>. SUFFICES ASSUME Slot(m) = Slot(n)
              PROVE  FALSE
  OBVIOUS
<1>1. /\ a \in Nat /\ b \in Nat
      /\ m = Capacity * a + Slot(m)
      /\ n = Capacity * b + Slot(n)
  BY CapacityPositive, DivMod DEF Slot
<1>2. /\ Capacity \in Nat \ {0}
      /\ Slot(m) \in Int
      /\ Slot(n) \in Int
  BY CapacityPositive, SlotInRange
<1>. HIDE DEF a, b
<1>3. n - m = Capacity * (b - a)
  BY <1>1, <1>2
<1>4. CASE b - a >= 1
  <2>1. Capacity * (b - a) >= Capacity
    BY <1>1, <1>2, <1>4
  <2>. QED  BY <1>2, <1>3, <2>1
<1>5. CASE b - a <= 0
  <2>1. Capacity * (b - a) <= 0
    BY <1>1, <1>2, <1>5
  <2>. QED  BY <1>3, <2>1
<1>. QED  BY <1>1, <1>4, <1>5

\* Positions a lap apart share their slot.
LEMMA SlotNextLap ==
    ASSUME NEW n \in Nat
    PROVE  Slot(n + Capacity) = Slot(n)
<1>. DEFINE a == n \div Capacity
            b == (n + Capacity) \div Capacity
            c == n + Capacity
<1>1. /\ Capacity \in Nat \ {0}
      /\ c \in Nat
  BY CapacityPositive
<1>2. /\ a \in Nat
      /\ Slot(n) \in 0..Capacity - 1
      /\ n = Capacity * a + Slot(n)
  BY <1>1, DivMod DEF Slot
<1>3. /\ b \in Nat
      /\ Slot(c) \in 0..Capacity - 1
      /\ c = Capacity * b + Slot(c)
  BY <1>1, DivMod DEF Slot
<1>. HIDE DEF a, b
<1>4. Capacity * (a + 1) = Capacity * a + Capacity
  BY <1>1, <1>2
<1>5. Capacity * (a + 1) + Slot(n) = Capacity * b + Slot(c)
  BY <1>1, <1>2, <1>3, <1>4
<1>. DEFINE d == a + 1
            r == Slot(n)
            t == Slot(c)
<1>6. /\ d \in Int /\ b \in Int
      /\ r \in 0..Capacity - 1 /\ t \in 0..Capacity - 1
      /\ Capacity * d + r = Capacity * b + t
  BY <1>2, <1>3, <1>5
<1>. HIDE DEF d, r, t
<1>7. r = t
  BY <1>1, <1>6, RemainderUnique
<1>. QED  BY <1>7 DEF r, t

\* Within any window of one lap, different positions have different slots.
LEMMA SlotWindow ==
    ASSUME NEW d \in Nat,
           NEW m \in d..d + Capacity - 1, NEW n \in d..d + Capacity - 1, m # n
    PROVE  Slot(m) # Slot(n)
<1>1. CASE m < n
  BY <1>1, SlotDistinct, CapacityPositive
<1>2. CASE n < m
  BY <1>2, SlotDistinct, CapacityPositive
<1>. QED  BY <1>1, <1>2, CapacityPositive

-----------------------------------------------------------------------------
(* Types *)

\* TypeOK is inductive by itself.
LEMMA TypeInit == Init => TypeOK
BY CapacityPositive, CallsAssumption DEF Init, TypeOK

\* Every step keeps the types.
LEMMA TypeNext == TypeOK /\ [Next]_vars => TypeOK'
<1>. SUFFICES ASSUME TypeOK, [Next]_vars
              PROVE  TypeOK'
  OBVIOUS
<1>. USE CapacityPositive, CallsAssumption DEF TypeOK
<1>1. ASSUME NEW p \in Producers, PushCall(p)
      PROVE  TypeOK'
  <2>1. <<p, calls[p] + 1>> \in Item
    BY <1>1 DEF PushCall, Item
  <2>2. PICK h \in pos[p]..head : pos' = [pos EXCEPT ![p] = h]
    BY <1>1 DEF PushCall
  <2>3. /\ val' \in [Producers -> Item \cup {Empty}]
        /\ pos' \in [Producers -> 0..head]
        /\ calls' \in [Producers -> 0..MaxCalls]
    BY <1>1, <2>1, <2>2 DEF PushCall
  <2>. QED  BY <1>1, <2>3 DEF PushCall, Goto, consumerVars
<1>2. ASSUME NEW p \in Producers, PushSlotFree(p)
      PROVE  TypeOK'
  BY <1>2 DEF PushSlotFree, Goto, consumerVars
<1>3. ASSUME NEW p \in Producers, PushFull(p)
      PROVE  TypeOK'
  BY <1>3 DEF PushFull, Goto, consumerVars
<1>4. ASSUME NEW p \in Producers, PushReload(p)
      PROVE  TypeOK'
  BY <1>4 DEF PushReload, consumerVars
<1>5. ASSUME NEW p \in Producers, PushCas(p)
      PROVE  TypeOK'
  BY <1>5 DEF PushCas, Goto, consumerVars
<1>6. ASSUME NEW p \in Producers, PushCasFails(p)
      PROVE  TypeOK'
  BY <1>6 DEF PushCasFails, Goto, consumerVars
<1>7. ASSUME NEW p \in Producers, PushConstruct(p)
      PROVE  TypeOK'
  BY <1>7 DEF PushConstruct, Goto, consumerVars
<1>8. ASSUME NEW p \in Producers, PushPublish(p)
      PROVE  TypeOK'
  <2>1. Slot(pos[p]) \in 0..Capacity - 1
    BY SlotInRange
  <2>. QED  BY <1>8, <2>1 DEF PushPublish, Goto, consumerVars
<1>9. CASE PopReady
  BY <1>9 DEF PopReady, producerVars
<1>10. CASE PopEmpty
  BY <1>10 DEF PopEmpty, vars, producerVars, consumerVars
<1>11. CASE PopMove
  <2>1. Slot(tail) \in 0..Capacity - 1
    BY SlotInRange
  <2>. QED  BY <1>11, <2>1 DEF PopMove, producerVars
<1>12. CASE PopRecycle
  <2>1. Slot(tail) \in 0..Capacity - 1
    BY SlotInRange
  <2>2. /\ seq' \in [0..Capacity - 1 -> Nat]
        /\ popped' \in Seq(Item \cup {Empty})
    BY <1>12, <2>1 DEF PopRecycle
  <2>. QED  BY <1>12, <2>2 DEF PopRecycle, producerVars
<1>13. CASE PopAdvance
  BY <1>13 DEF PopAdvance, producerVars
<1>14. CASE UNCHANGED vars
  BY <1>14 DEF vars, producerVars, consumerVars
<1>. QED
  BY <1>1, <1>2, <1>3, <1>4, <1>5, <1>6, <1>7, <1>8, <1>9, <1>10, <1>11,
     <1>12, <1>13, <1>14 DEF Next, Push, Pop

\* Every reachable state of RingBuffer.hpp's model has the declared types.
THEOREM TypeCorrect == Spec => []TypeOK
<1>. QED  BY TypeInit, TypeNext, PTL DEF Spec

-----------------------------------------------------------------------------
(* The inductive invariant *)

\* In the first lap a position is its own slot.
LEMMA SlotFirstLap ==
    ASSUME NEW n \in 0..Capacity - 1
    PROVE  Slot(n) = n
<1>1. /\ Capacity \in Nat \ {0}
      /\ n \div Capacity \in Nat
      /\ n % Capacity \in 0..Capacity - 1
      /\ n = Capacity * (n \div Capacity) + (n % Capacity)
  <2>1. n \in Nat /\ Capacity \in Nat \ {0}
    BY CapacityPositive
  <2>. QED  BY <2>1, DivMod
<1>2. Capacity * 0 + n = Capacity * (n \div Capacity) + (n % Capacity)
  BY <1>1
<1>3. n = n % Capacity
  BY <1>1, <1>2, RemainderUnique
<1>. QED  BY <1>3 DEF Slot

\* What the actions on one slot need of the window: its bounds, ...
LEMMA WindowBounds ==
    IInv => /\ head \in Nat /\ Done \in Nat /\ Capacity \in Nat \ {0}
            /\ Done <= head /\ head <= Done + Capacity /\ Len(claimed) = head
            /\ \A q \in Producers : Holds(q) => pos[q] \in Done..head - 1
            /\ cpc # "advance" => tail = Done
<1>1. IInv => head \in Nat /\ Done \in Nat
  BY DEF IInv, TypeOK, Done
<1>2. IInv => \A q \in Producers : pos[q] \in Nat
  BY DEF IInv, TypeOK
<1>. QED  BY <1>1, <1>2, CapacityPositive DEF IInv, WindowInv, OwnerInv

\* ... and that no two of its positions share a slot.
LEMMA WindowSlots ==
    IInv => \A m, n \in Done..Done + Capacity - 1 : m # n => Slot(m) # Slot(n)
BY SlotWindow, WindowBounds

\* An empty buffer satisfies the invariant.
LEMMA InvInit == Init => IInv
<1>. SUFFICES ASSUME Init
              PROVE  IInv
  OBVIOUS
<1>1. TypeOK
  BY TypeInit
<1>2. WindowInv
  BY CapacityPositive DEF Init, WindowInv, Done
<1>3. OwnerInv
  BY DEF Init, OwnerInv, Holds
<1>4. SlotInv
  BY CapacityPositive, SlotFirstLap DEF Init, SlotInv, Done
<1>5. ConsumerInv /\ PoppedInClaimOrder
  BY DEF Init, ConsumerInv, PoppedInClaimOrder
<1>. QED  BY <1>1, <1>2, <1>3, <1>4, <1>5 DEF IInv

\* The steps of try_push that touch neither head_ nor a slot.
LEMMA LocalPushKeepsInv ==
    ASSUME IInv, TypeOK', NEW p \in Producers,
           PushCall(p) \/ PushSlotFree(p) \/ PushFull(p) \/ PushReload(p)
             \/ PushCasFails(p)
    PROVE  IInv'
<1>1. /\ UNCHANGED <<head, seq, cell, claimed, consumerVars>>
      /\ ~Holds(p) /\ ~Holds(p)'
      /\ pc' = [pc EXCEPT ![p] = pc'[p]]
      /\ pos' = [pos EXCEPT ![p] = pos'[p]]
      /\ val' = [val EXCEPT ![p] = val'[p]]
  BY DEF IInv, TypeOK, PushCall, PushSlotFree, PushFull, PushReload,
         PushCasFails, Goto, Holds
<1>2. \A q \in Producers : Holds(q)' <=> Holds(q)
  BY <1>1 DEF IInv, TypeOK, Holds
<1>3. \A q \in Producers : Holds(q) => q # p /\ pos'[q] = pos[q] /\ val'[q] = val[q]
  BY <1>1 DEF IInv, TypeOK
<1>4. pc'[p] # "idle" => val'[p] \in Item
  BY DEF IInv, TypeOK, OwnerInv, PushCall, PushSlotFree, PushFull, PushReload,
         PushCasFails, Goto, Item
<1>5. pc'[p] = "cas" => seq[Slot(pos'[p])] >= pos'[p]
  <2>1. CASE PushSlotFree(p)
    <3>1. pos' = pos /\ seq[Slot(pos[p])] = pos[p] /\ pos[p] \in Nat
      BY <2>1 DEF PushSlotFree, IInv, TypeOK
    <3>. QED  BY <3>1
  <2>2. CASE ~PushSlotFree(p)
    <3>1. pc'[p] # "cas"
      BY <2>2 DEF IInv, TypeOK, PushCall, PushFull, PushReload, PushCasFails, Goto
    <3>. QED  BY <3>1
  <2>. QED  BY <2>1, <2>2
<1>6. \A n : Published(n)' <=> Published(n)
  BY <1>1, <1>2, <1>3 DEF Published
<1>7. WindowInv' /\ PoppedInClaimOrder'
  BY <1>1 DEF IInv, WindowInv, PoppedInClaimOrder, Done, consumerVars
<1>8. OwnerInv'
  BY <1>1, <1>2, <1>3, <1>4, <1>5
  DEF IInv, TypeOK, OwnerInv, Done, Holds, consumerVars
<1>9. SlotInv' /\ ConsumerInv'
  BY <1>1, <1>6 DEF IInv, SlotInv, ConsumerInv, Done, consumerVars
<1>. QED  BY <1>7, <1>8, <1>9 DEF IInv

\* The CAS: the position is free, since in a lap of at least two slots a slot
\* whose sequence number has reached pos is not one of the claimed ones.
LEMMA CasFindsRoom ==
    ASSUME IInv, NEW p \in Producers, PushCas(p), Capacity # 1
    PROVE  head < Done + Capacity
<1>1. /\ head \in Nat /\ Done \in Nat /\ Capacity \in Nat \ {0}
      /\ Done <= head /\ head <= Done + Capacity
  BY WindowBounds
<1>. SUFFICES ASSUME head = Done + Capacity
              PROVE  FALSE
  BY <1>1
<1>2. seq[Slot(Done)] >= head
  <2>1. Slot(head) = Slot(Done)
    BY <1>1, SlotNextLap
  <2>2. seq[Slot(head)] >= head
    BY DEF IInv, OwnerInv, PushCas
  <2>. QED  BY <2>1, <2>2
<1>3. Done \in Done..head - 1
  BY <1>1
<1>4. CASE Published(Done)
  BY <1>1, <1>2, <1>3, <1>4 DEF IInv, SlotInv
<1>5. CASE ~Published(Done)
  <2>1. PICK q \in Producers : Holds(q) /\ pos[q] = Done
    BY <1>1, <1>3, <1>5 DEF Published
  <2>2. seq[Slot(Done)] = Done
    BY <2>1 DEF IInv, OwnerInv
  <2>. QED  BY <1>1, <1>2, <1>3, <2>2
<1>. QED  BY <1>4, <1>5

\* The CAS opens the window by one position, which its producer owns; no other
\* producer holds it, and its slot is still marked free.
LEMMA CasKeepsInv ==
    ASSUME IInv, TypeOK', NEW p \in Producers, PushCas(p), Capacity # 1
    PROVE  IInv'
<1>1. /\ head' = head + 1
      /\ head = pos[p]
      /\ claimed' = Append(claimed, val[p])
      /\ pc' = [pc EXCEPT ![p] = "construct"]
      /\ pc[p] = "cas"
      /\ UNCHANGED <<seq, cell, pos, val, tail, cpc, cval, popped>>
  BY DEF PushCas, Goto, consumerVars
<1>2. /\ head \in Nat /\ Done \in Nat /\ Capacity \in Nat
      /\ Done <= head /\ head <= Done + Capacity /\ Len(claimed) = head
      /\ claimed \in Seq(Item)
      /\ val[p] \in Item
      /\ pc \in [Producers -> {"idle", "load", "cas", "construct", "publish"}]
  BY <1>1, CapacityPositive DEF IInv, TypeOK, WindowInv, OwnerInv, Done
<1>3. head < Done + Capacity
  BY CasFindsRoom
<1>4. /\ claimed'[head + 1] = val[p]
      /\ \A i \in 1..head : claimed'[i] = claimed[i]
      /\ Len(claimed') = head'
      /\ claimed' \in Seq(Item)
  BY <1>1, <1>2
<1>5. /\ seq[Slot(head)] = head
      /\ cell[Slot(head)] = Empty
  BY <1>2, <1>3 DEF IInv, SlotInv
<1>6. \A q \in Producers : Holds(q)' <=> (Holds(q) \/ q = p)
  BY <1>1, <1>2 DEF Holds
<1>7. \A n \in Done..head : Published(n)' <=> Published(n)
  BY <1>1, <1>2, <1>6 DEF Published
<1>8. WindowInv' /\ PoppedInClaimOrder'
  BY <1>1, <1>2, <1>3, <1>4 DEF IInv, WindowInv, PoppedInClaimOrder, Done
<1>9. OwnerInv'
  <2>1. \A q \in Producers : Holds(q) => pos[q] < head /\ pos[q] \in Nat /\ q # p
    BY <1>1 DEF IInv, TypeOK, OwnerInv, Holds
  <2>. SUFFICES ASSUME NEW q \in Producers
                PROVE  OwnerInv!(q)'
    BY DEF OwnerInv
  <2>2. CASE q = p
    <3>1. pc'[p] = "construct"
      BY <1>1, <1>2
    <3>. QED  BY <1>1, <1>2, <1>4, <1>5, <1>6, <2>1, <2>2, <3>1 DEF Done
  <2>3. CASE q # p
    <3>1. pc'[q] = pc[q]
      BY <1>1, <1>2, <2>3
    <3>2. OwnerInv!(q)
      BY DEF IInv, OwnerInv
    <3>. QED  BY <1>1, <1>2, <1>4, <1>6, <2>1, <2>3, <3>1, <3>2 DEF Done
  <2>. QED  BY <2>2, <2>3
<1>10. SlotInv'
  <2>1. ASSUME NEW n \in Done..head, Published(n)'
        PROVE  /\ seq[Slot(n)] = n + 1
               /\ ~(cpc = "recycle" /\ n = tail) => cell[Slot(n)] = claimed'[n + 1]
    <3>1. n \in Done..head - 1 /\ Published(n)
      BY <1>2, <1>7, <2>1 DEF Published
    <3>2. n + 1 \in 1..head
      BY <1>2, <3>1
    <3>. QED  BY <1>4, <3>1, <3>2 DEF IInv, SlotInv
  <2>2. ASSUME NEW n \in head + 1..Done + Capacity - 1
        PROVE  seq[Slot(n)] = n /\ cell[Slot(n)] = Empty
    BY <1>2, <2>2 DEF IInv, SlotInv
  <2>. QED  BY <1>1, <1>2, <2>1, <2>2 DEF SlotInv, Done
<1>11. ConsumerInv'
  <2>1. CASE cpc \in {"move", "recycle"}
    <3>1. Published(tail) /\ tail = Done
      BY <2>1 DEF IInv, ConsumerInv, WindowInv
    <3>2. tail \in Done..head - 1 /\ tail + 1 \in 1..head
      BY <1>2, <3>1 DEF Published
    <3>3. Published(tail)'
      BY <1>1, <1>2, <1>7, <3>1, <3>2 DEF Published
    <3>. QED  BY <1>1, <1>4, <3>2, <3>3 DEF IInv, ConsumerInv
  <2>. QED  BY <1>1, <2>1 DEF ConsumerInv
<1>. QED  BY <1>8, <1>9, <1>10, <1>11 DEF IInv

\* Constructing the value fills only the storage of the position the producer
\* owns.
LEMMA ConstructKeepsInv ==
    ASSUME IInv, TypeOK', NEW p \in Producers, PushConstruct(p)
    PROVE  IInv'
<1>. DEFINE s == Slot(pos[p])
<1>0. /\ head \in Nat /\ Done \in Nat /\ Capacity \in Nat \ {0}
      /\ Done <= head /\ head <= Done + Capacity
      /\ \A q \in Producers : Holds(q) => pos[q] \in Done..head - 1
      /\ cpc # "advance" => tail = Done
  BY WindowBounds
<1>1. /\ pc[p] = "construct"
      /\ pc' = [pc EXCEPT ![p] = "publish"]
      /\ cell' = [cell EXCEPT ![s] = val[p]]
      /\ UNCHANGED <<head, seq, claimed, pos, val, tail, cpc, cval, popped>>
  BY DEF PushConstruct, Goto, consumerVars
<1>2. /\ pc \in [Producers -> {"idle", "load", "cas", "construct", "publish"}]
      /\ cell \in [0..Capacity - 1 -> Item \cup {Empty}]
  BY DEF IInv, TypeOK
<1>3. Holds(p) /\ pos[p] \in Done..head - 1 /\ s \in 0..Capacity - 1
  BY <1>0, <1>1, SlotInRange DEF Holds
<1>4. \A n \in Done..Done + Capacity - 1 :
         n # pos[p] => cell'[Slot(n)] = cell[Slot(n)]
  <2>. SUFFICES ASSUME NEW n \in Done..Done + Capacity - 1, n # pos[p]
                PROVE  cell'[Slot(n)] = cell[Slot(n)]
    OBVIOUS
  <2>1. Slot(n) # s
    BY <1>0, <1>3, WindowSlots
  <2>2. Slot(n) \in 0..Capacity - 1
    BY <1>0, SlotInRange
  <2>. QED  BY <1>1, <1>2, <1>3, <2>1, <2>2
<1>5. cell'[s] = val[p]
  BY <1>1, <1>2, <1>3
<1>6. \A q \in Producers : Holds(q)' <=> Holds(q)
  BY <1>1, <1>2 DEF Holds
<1>7. \A n : Published(n)' <=> Published(n)
  BY <1>1, <1>6 DEF Published
<1>8. WindowInv' /\ PoppedInClaimOrder'
  BY <1>1 DEF IInv, WindowInv, PoppedInClaimOrder, Done
<1>9. OwnerInv'
  <2>. SUFFICES ASSUME NEW q \in Producers
                PROVE  OwnerInv!(q)'
    BY DEF OwnerInv
  <2>1. OwnerInv!(q)
    BY DEF IInv, OwnerInv
  <2>2. CASE q = p
    <3>1. pc'[p] = "publish"
      BY <1>1, <1>2
    <3>. QED  BY <1>1, <1>5, <1>6, <2>1, <2>2, <3>1 DEF Done, Holds
  <2>3. CASE q # p
    <3>1. pc'[q] = pc[q]
      BY <1>1, <1>2, <2>3
    <3>2. Holds(q) => pos[q] # pos[p] /\ pos[q] \in Done..Done + Capacity - 1
      BY <1>3, <2>3, <1>0 DEF IInv, OwnerInv
    <3>3. Holds(q) => cell'[Slot(pos[q])] = cell[Slot(pos[q])]
      BY <1>4, <3>2
    <3>. QED  BY <1>1, <1>6, <2>1, <3>1, <3>3 DEF Done, Holds
  <2>. QED  BY <2>2, <2>3
<1>10. SlotInv'
  <2>1. \A n \in Done..head - 1 : Published(n) => n # pos[p]
    BY <1>3 DEF Published
  <2>2. \A n \in head..Done + Capacity - 1 : n # pos[p]
    BY <1>3, <1>0
  <2>. QED  BY <1>1, <1>4, <1>7, <2>1, <2>2, <1>0 DEF IInv, SlotInv, Done
<1>11. ConsumerInv'
  <2>1. cpc = "recycle" => tail \in Done..head - 1 /\ tail # pos[p]
    BY <1>3, <1>0 DEF IInv, ConsumerInv, WindowInv, Published
  <2>. QED  BY <1>1, <1>4, <1>7, <2>1, <1>0 DEF IInv, ConsumerInv
<1>. QED  BY <1>8, <1>9, <1>10, <1>11 DEF IInv

\* The release store marks the slot of one position of the window as published.
LEMMA PublishKeepsInv ==
    ASSUME IInv, TypeOK', NEW p \in Producers, PushPublish(p)
    PROVE  IInv'
<1>. DEFINE s == Slot(pos[p])
<1>0. /\ head \in Nat /\ Done \in Nat /\ Capacity \in Nat \ {0}
      /\ Done <= head /\ head <= Done + Capacity
      /\ \A q \in Producers : Holds(q) => pos[q] \in Done..head - 1
      /\ cpc # "advance" => tail = Done
  BY WindowBounds
<1>1. /\ pc[p] = "publish"
      /\ pc' = [pc EXCEPT ![p] = "idle"]
      /\ seq' = [seq EXCEPT ![s] = pos[p] + 1]
      /\ UNCHANGED <<head, cell, claimed, pos, val, tail, cpc, cval, popped>>
  BY DEF PushPublish, Goto, consumerVars
<1>2. /\ pc \in [Producers -> {"idle", "load", "cas", "construct", "publish"}]
      /\ seq \in [0..Capacity - 1 -> Nat]
      /\ \A q \in Producers : pos[q] \in Nat
  BY DEF IInv, TypeOK
<1>3. Holds(p) /\ pos[p] \in Done..head - 1 /\ s \in 0..Capacity - 1
  BY <1>0, <1>1, SlotInRange DEF Holds
<1>4. \A n \in Done..Done + Capacity - 1 :
         n # pos[p] => seq'[Slot(n)] = seq[Slot(n)]
  <2>. SUFFICES ASSUME NEW n \in Done..Done + Capacity - 1, n # pos[p]
                PROVE  seq'[Slot(n)] = seq[Slot(n)]
    OBVIOUS
  <2>1. Slot(n) # s
    BY <1>0, <1>3, WindowSlots
  <2>2. Slot(n) \in 0..Capacity - 1
    BY <1>0, SlotInRange
  <2>. QED  BY <1>1, <1>2, <1>3, <2>1, <2>2
<1>5. seq'[s] = pos[p] + 1 /\ seq[s] = pos[p]
  BY <1>1, <1>2, <1>3 DEF IInv, OwnerInv
<1>6. \A i \in 0..Capacity - 1 : seq'[i] >= seq[i] /\ seq'[i] \in Nat /\ seq[i] \in Nat
  BY <1>1, <1>2, <1>3, <1>5
<1>7. \A q \in Producers : Holds(q)' <=> (Holds(q) /\ q # p)
  BY <1>1, <1>2 DEF Holds
<1>8. \A n : Published(n)' <=> (Published(n) \/ n = pos[p])
  BY <1>1, <1>3, <1>7, <1>0 DEF Published, IInv, OwnerInv
<1>9. WindowInv' /\ PoppedInClaimOrder'
  BY <1>1 DEF IInv, WindowInv, PoppedInClaimOrder, Done
<1>10. OwnerInv'
  <2>. SUFFICES ASSUME NEW q \in Producers
                PROVE  OwnerInv!(q)'
    BY DEF OwnerInv
  <2>1. OwnerInv!(q)
    BY DEF IInv, OwnerInv
  <2>2. CASE q = p
    <3>1. pc'[p] = "idle"
      BY <1>1, <1>2
    <3>. QED  BY <1>7, <2>2, <3>1
  <2>3. CASE q # p
    <3>1. pc'[q] = pc[q]
      BY <1>1, <1>2, <2>3
    <3>2. Holds(q) => pos[q] # pos[p] /\ pos[q] \in Done..Done + Capacity - 1
      BY <1>3, <2>3, <1>0 DEF IInv, OwnerInv
    <3>3. Holds(q) => seq'[Slot(pos[q])] = seq[Slot(pos[q])]
      BY <1>4, <3>2
    <3>4. pc[q] = "cas" => seq'[Slot(pos[q])] >= pos[q]
      <4>1. Slot(pos[q]) \in 0..Capacity - 1
        BY <1>2, SlotInRange
      <4>. QED  BY <1>2, <1>6, <2>1, <4>1
    <3>. QED  BY <1>1, <1>7, <2>1, <3>1, <3>3, <3>4 DEF Done
  <2>. QED  BY <2>2, <2>3
<1>11. SlotInv'
  <2>1. cell[s] = claimed[pos[p] + 1]
    BY <1>1, <1>3 DEF IInv, OwnerInv
  <2>2. ASSUME NEW n \in Done..head - 1, Published(n)'
        PROVE  /\ seq'[Slot(n)] = n + 1
               /\ ~(cpc = "recycle" /\ n = tail) => cell[Slot(n)] = claimed[n + 1]
    <3>1. CASE n = pos[p]
      BY <1>5, <2>1, <3>1
    <3>2. CASE n # pos[p]
      BY <1>4, <1>8, <2>2, <3>2, <1>0 DEF IInv, SlotInv
    <3>. QED  BY <3>1, <3>2
  <2>3. \A n \in head..Done + Capacity - 1 : seq'[Slot(n)] = seq[Slot(n)]
    BY <1>3, <1>4, <1>0
  <2>. QED  BY <1>1, <2>2, <2>3 DEF IInv, SlotInv, Done
<1>12. ConsumerInv'
  BY <1>1, <1>8 DEF IInv, ConsumerInv
<1>. QED  BY <1>9, <1>10, <1>11, <1>12 DEF IInv

\* The consumer finds the position at the tail published.
LEMMA PopReadyKeepsInv ==
    ASSUME IInv, TypeOK', PopReady
    PROVE  IInv'
<1>0. /\ head \in Nat /\ Done \in Nat /\ Capacity \in Nat \ {0}
      /\ Done <= head /\ head <= Done + Capacity
      /\ \A q \in Producers : Holds(q) => pos[q] \in Done..head - 1
      /\ cpc # "advance" => tail = Done
  BY WindowBounds
<1>1. /\ cpc = "idle" /\ cpc' = "move"
      /\ seq[Slot(tail)] = tail + 1
      /\ UNCHANGED <<head, seq, cell, claimed, pc, pos, val, tail, cval, popped>>
  BY DEF PopReady, producerVars
<1>2. Published(tail)
  <2>1. tail # head
    <3>1. tail = head => seq[Slot(tail)] = tail
      BY <1>0, <1>1 DEF IInv, SlotInv
    <3>. QED  BY <1>0, <1>1, <3>1
  <2>2. \A q \in Producers : Holds(q) => pos[q] # tail
    BY <1>0, <1>1 DEF IInv, OwnerInv
  <2>. QED  BY <1>0, <1>1, <2>1, <2>2 DEF Published
<1>3. WindowInv' /\ OwnerInv' /\ PoppedInClaimOrder'
  BY <1>1 DEF IInv, WindowInv, OwnerInv, PoppedInClaimOrder, Done, Holds
<1>4. \A n : Published(n)' <=> Published(n)
  BY <1>1 DEF Published, Holds
<1>5. SlotInv' /\ ConsumerInv'
  BY <1>1, <1>2, <1>4 DEF IInv, SlotInv, ConsumerInv, Done
<1>. QED  BY <1>3, <1>5 DEF IInv

\* The consumer moves the value out of the storage of the position at the tail.
LEMMA MoveKeepsInv ==
    ASSUME IInv, TypeOK', PopMove
    PROVE  IInv'
<1>. DEFINE s == Slot(tail)
<1>0. /\ head \in Nat /\ Done \in Nat /\ Capacity \in Nat \ {0}
      /\ Done <= head /\ head <= Done + Capacity
      /\ \A q \in Producers : Holds(q) => pos[q] \in Done..head - 1
      /\ cpc # "advance" => tail = Done
  BY WindowBounds
<1>1. /\ cpc = "move" /\ cpc' = "recycle"
      /\ cval' = cell[s]
      /\ cell' = [cell EXCEPT ![s] = Empty]
      /\ UNCHANGED <<head, seq, claimed, pc, pos, val, tail, popped>>
  BY DEF PopMove, producerVars
<1>2. cell \in [0..Capacity - 1 -> Item \cup {Empty}]
  BY DEF IInv, TypeOK
<1>3. Published(tail) /\ tail \in Done..head - 1 /\ s \in 0..Capacity - 1
  BY <1>0, <1>1, SlotInRange DEF IInv, ConsumerInv, Published
<1>4. \A n \in Done..Done + Capacity - 1 :
         n # tail => cell'[Slot(n)] = cell[Slot(n)]
  <2>. SUFFICES ASSUME NEW n \in Done..Done + Capacity - 1, n # tail
                PROVE  cell'[Slot(n)] = cell[Slot(n)]
    OBVIOUS
  <2>1. Slot(n) # s
    BY <1>0, <1>3, WindowSlots
  <2>2. Slot(n) \in 0..Capacity - 1
    BY <1>0, SlotInRange
  <2>. QED  BY <1>1, <1>2, <1>3, <2>1, <2>2
<1>5. cell'[s] = Empty
  BY <1>1, <1>2, <1>3
<1>6. cell[s] = claimed[tail + 1]
  BY <1>1, <1>3 DEF IInv, SlotInv
<1>7. \A n : Published(n)' <=> Published(n)
  BY <1>1 DEF Published, Holds
<1>8. WindowInv' /\ PoppedInClaimOrder'
  BY <1>1 DEF IInv, WindowInv, PoppedInClaimOrder, Done
<1>9. OwnerInv'
  <2>1. \A q \in Producers : Holds(q) =>
           pos[q] # tail /\ pos[q] \in Done..Done + Capacity - 1
    BY <1>0, <1>3 DEF Published
  <2>2. \A q \in Producers : Holds(q) => cell'[Slot(pos[q])] = cell[Slot(pos[q])]
    BY <1>4, <2>1
  <2>. QED  BY <1>1, <2>2 DEF IInv, OwnerInv, Done, Holds
<1>10. SlotInv'
  <2>1. \A n \in Done..Done + Capacity - 1 :
           n # tail => cell'[Slot(n)] = cell[Slot(n)]
    BY <1>4
  <2>2. \A n \in head..Done + Capacity - 1 : n # tail
    BY <1>0, <1>3
  <2>3. \A n \in Done..head - 1 : n \in Done..Done + Capacity - 1
    BY <1>0
  <2>4. \A n \in head..Done + Capacity - 1 : n \in Done..Done + Capacity - 1
    BY <1>0
  <2>. QED  BY <1>1, <1>7, <2>1, <2>2, <2>3, <2>4 DEF IInv, SlotInv, Done
<1>11. ConsumerInv'
  BY <1>1, <1>3, <1>5, <1>6, <1>7 DEF ConsumerInv
<1>. QED  BY <1>8, <1>9, <1>10, <1>11 DEF IInv

\* The consumer's store frees the slot for the next lap and closes the window by
\* one position.
LEMMA RecycleKeepsInv ==
    ASSUME IInv, TypeOK', PopRecycle
    PROVE  IInv'
<1>. DEFINE s == Slot(tail)
<1>0. /\ head \in Nat /\ Done \in Nat /\ Capacity \in Nat \ {0}
      /\ Done <= head /\ head <= Done + Capacity
      /\ \A q \in Producers : Holds(q) => pos[q] \in Done..head - 1
      /\ cpc # "advance" => tail = Done
  BY WindowBounds
<1>1. /\ cpc = "recycle" /\ cpc' = "advance"
      /\ seq' = [seq EXCEPT ![s] = tail + Capacity]
      /\ popped' = Append(popped, cval)
      /\ UNCHANGED <<head, cell, claimed, pc, pos, val, tail, cval>>
  BY DEF PopRecycle, producerVars
<1>2. /\ seq \in [0..Capacity - 1 -> Nat]
      /\ popped \in Seq(Item \cup {Empty})
      /\ \A q \in Producers : pos[q] \in Nat
  BY DEF IInv, TypeOK
<1>3. /\ Published(tail) /\ tail \in Done..head - 1 /\ tail = Done
      /\ s \in 0..Capacity - 1
  BY <1>0, <1>1, SlotInRange DEF IInv, ConsumerInv, Published
<1>4. \A n \in Done..Done + Capacity - 1 :
         n # tail => seq'[Slot(n)] = seq[Slot(n)]
  <2>. SUFFICES ASSUME NEW n \in Done..Done + Capacity - 1, n # tail
                PROVE  seq'[Slot(n)] = seq[Slot(n)]
    OBVIOUS
  <2>1. Slot(n) # s
    BY <1>0, <1>3, WindowSlots
  <2>2. Slot(n) \in 0..Capacity - 1
    BY <1>0, SlotInRange
  <2>. QED  BY <1>1, <1>2, <1>3, <2>1, <2>2
<1>5. /\ seq[s] = tail + 1
      /\ seq'[s] = tail + Capacity
      /\ Slot(tail + Capacity) = s
      /\ cell[s] = Empty
      /\ cval = claimed[tail + 1]
  BY <1>1, <1>2, <1>3, <1>0, SlotNextLap DEF IInv, SlotInv, ConsumerInv
<1>6. \A i \in 0..Capacity - 1 : seq'[i] >= seq[i] /\ seq'[i] \in Nat /\ seq[i] \in Nat
  BY <1>0, <1>1, <1>2, <1>3, <1>5
<1>7. Done' = Done + 1 /\ \A i \in 1..Done : popped'[i] = popped[i]
  BY <1>1, <1>2 DEF Done
<1>8. popped'[Done + 1] = cval
  BY <1>1, <1>2 DEF Done
<1>9. \A n : Published(n)' <=> Published(n)
  BY <1>1 DEF Published, Holds
<1>10. WindowInv'
  BY <1>0, <1>1, <1>3, <1>7 DEF IInv, WindowInv
<1>11. PoppedInClaimOrder'
  <2>1. /\ Done \in Nat /\ Len(popped') = Done + 1 /\ Len(claimed) >= Done + 1
        /\ \A i \in 1..Done : popped[i] = claimed[i]
    BY <1>0, <1>3, <1>7, WindowBounds DEF IInv, PoppedInClaimOrder, Done
  <2>2. ASSUME NEW i \in 1..Done + 1
        PROVE  popped'[i] = claimed[i]
    <3>1. CASE i = Done + 1
      BY <1>3, <1>5, <1>8, <3>1
    <3>2. CASE i # Done + 1
      BY <1>7, <2>1, <3>2
    <3>. QED  BY <3>1, <3>2
  <2>. QED  BY <1>1, <2>1, <2>2 DEF PoppedInClaimOrder
<1>12. OwnerInv'
  <2>. SUFFICES ASSUME NEW q \in Producers
                PROVE  OwnerInv!(q)'
    BY DEF OwnerInv
  <2>1. OwnerInv!(q)
    BY DEF IInv, OwnerInv
  <2>2. Holds(q) => pos[q] # tail /\ pos[q] \in Done..Done + Capacity - 1
    BY <1>0, <1>3 DEF Published
  <2>3. Holds(q) => seq'[Slot(pos[q])] = seq[Slot(pos[q])] /\ Done + 1 <= pos[q]
    BY <1>0, <1>3, <1>4, <2>2
  <2>4. pc[q] = "cas" => seq'[Slot(pos[q])] >= pos[q]
    <3>1. Slot(pos[q]) \in 0..Capacity - 1
      BY <1>2, SlotInRange
    <3>. QED  BY <1>2, <1>6, <2>1, <3>1
  <2>. QED  BY <1>1, <1>7, <2>1, <2>3, <2>4 DEF Holds
<1>13. SlotInv'
  <2>1. ASSUME NEW n \in Done + 1..head - 1, Published(n)
        PROVE  seq'[Slot(n)] = n + 1 /\ cell[Slot(n)] = claimed[n + 1]
    <3>1. n \in Done..head - 1 /\ n # tail /\ n \in Done..Done + Capacity - 1
      BY <1>0, <1>3
    <3>. QED  BY <1>4, <2>1, <3>1 DEF IInv, SlotInv
  <2>2. ASSUME NEW n \in head..Done + Capacity
        PROVE  seq'[Slot(n)] = n /\ cell[Slot(n)] = Empty
    <3>1. CASE n = tail + Capacity
      BY <1>5, <3>1
    <3>2. CASE n # tail + Capacity
      <4>1. n \in head..Done + Capacity - 1 /\ n # tail /\ n \in Done..Done + Capacity - 1
        BY <1>0, <1>3, <3>2
      <4>. QED  BY <1>4, <4>1 DEF IInv, SlotInv
    <3>. QED  BY <3>1, <3>2
  <2>3. Done + 1 + Capacity - 1 = Done + Capacity
    BY <1>0
  <2>. QED  BY <1>1, <1>7, <1>9, <2>1, <2>2, <2>3 DEF SlotInv
<1>14. ConsumerInv'
  BY <1>1 DEF ConsumerInv
<1>. QED  BY <1>10, <1>11, <1>12, <1>13, <1>14 DEF IInv

\* The tail catches up with the window.
LEMMA AdvanceKeepsInv ==
    ASSUME IInv, TypeOK', PopAdvance
    PROVE  IInv'
<1>1. /\ cpc = "advance" /\ cpc' = "idle" /\ tail' = tail + 1
      /\ UNCHANGED <<head, seq, cell, claimed, pc, pos, val, cval, popped>>
  BY DEF PopAdvance, producerVars
<1>2. WindowInv' /\ OwnerInv' /\ PoppedInClaimOrder'
  BY <1>1 DEF IInv, WindowInv, OwnerInv, PoppedInClaimOrder, Done, Holds
<1>3. \A n : Published(n)' <=> Published(n)
  BY <1>1 DEF Published, Holds
<1>4. SlotInv' /\ ConsumerInv'
  BY <1>1, <1>3 DEF IInv, SlotInv, ConsumerInv, Done
<1>. QED  BY <1>2, <1>4 DEF IInv

\* Every step keeps the invariant, in a buffer of at least two slots.
LEMMA InvNext ==
    ASSUME IInv, [Next]_vars, Capacity # 1
    PROVE  IInv'
<1>1. TypeOK'
  BY TypeNext DEF IInv
<1>2. ASSUME NEW p \in Producers, Push(p)
      PROVE  IInv'
  BY <1>1, <1>2, LocalPushKeepsInv, CasKeepsInv, ConstructKeepsInv, PublishKeepsInv
  DEF Push
<1>3. CASE PopEmpty \/ UNCHANGED vars
  BY <1>1, <1>3 DEF PopEmpty, vars, producerVars, consumerVars, IInv, WindowInv,
     OwnerInv, SlotInv, ConsumerInv, PoppedInClaimOrder, Done, Holds, Published
<1>4. CASE Pop /\ ~PopEmpty
  BY <1>1, <1>4, PopReadyKeepsInv, MoveKeepsInv, RecycleKeepsInv, AdvanceKeepsInv
  DEF Pop
<1>. QED  BY <1>2, <1>3, <1>4 DEF Next

-----------------------------------------------------------------------------
(* The theorems *)

\* Sequence numbers, storage and owners agree in every reachable state of a
\* buffer of at least two slots.
THEOREM InvCorrect == ASSUME Capacity # 1 PROVE Spec => []IInv
<1>1. IInv /\ [Next]_vars => IInv'
  BY InvNext
<1>. QED  BY <1>1, InvInit, PTL DEF Spec

\* try_pop returns what try_push claimed, in that order, nothing lost, repeated
\* or overwritten: for every number of producers and every Capacity but 1.
THEOREM PopsInOrder == ASSUME Capacity # 1 PROVE Spec => []PoppedInClaimOrder
<1>1. IInv => PoppedInClaimOrder
  BY DEF IInv
<1>. QED  BY <1>1, InvCorrect, PTL

\* No two threads are in the storage of one slot at the same time.
THEOREM StorageRaceFree == ASSUME Capacity # 1 PROVE Spec => []NoStorageRace
<1>1. ASSUME IInv
      PROVE  NoStorageRace
  <2>1. /\ head \in Nat /\ Done \in Nat /\ Capacity \in Nat \ {0}
        /\ Done <= head /\ head <= Done + Capacity
        /\ \A q \in Producers : Holds(q) => pos[q] \in Done..head - 1
        /\ cpc # "advance" => tail = Done
    BY <1>1, WindowBounds
  <2>. SUFFICES ASSUME NEW p \in Producers, pc[p] = "construct"
                PROVE  NoStorageRace!(p)!2
    BY DEF NoStorageRace
  <2>2. pos[p] \in Done..Done + Capacity - 1
    BY <2>1 DEF Holds
  <2>3. ASSUME NEW q \in Producers \ {p}, pc[q] = "construct"
        PROVE  Slot(pos[q]) # Slot(pos[p])
    <3>1. pos[q] \in Done..Done + Capacity - 1 /\ pos[q] # pos[p]
      BY <1>1, <2>1, <2>3 DEF IInv, OwnerInv, Holds
    <3>. QED  BY <1>1, <2>2, <3>1, WindowSlots
  <2>4. ASSUME cpc = "move"
        PROVE  Slot(tail) # Slot(pos[p])
    <3>1. tail \in Done..Done + Capacity - 1 /\ tail # pos[p]
      BY <1>1, <2>1, <2>4 DEF IInv, ConsumerInv, Published, Holds
    <3>. QED  BY <1>1, <2>2, <3>1, WindowSlots
  <2>. QED  BY <2>3, <2>4
<1>. QED  BY <1>1, InvCorrect, PTL

\* An item is constructed only where none is alive, and moved out where one is.
THEOREM StorageIsUsedInTurn == ASSUME Capacity # 1 PROVE Spec => []StorageLifecycle
<1>1. ASSUME IInv
      PROVE  StorageLifecycle
  <2>1. ASSUME cpc = "move"
        PROVE  cell[Slot(tail)] # Empty
    <3>1. Published(tail) /\ tail \in Done..head - 1 /\ tail + 1 \in 1..Len(claimed)
      BY <1>1, <2>1, WindowBounds DEF IInv, ConsumerInv, Published
    <3>2. cell[Slot(tail)] = claimed[tail + 1]
      BY <1>1, <2>1, <3>1 DEF IInv, SlotInv
    <3>3. claimed[tail + 1] \in Item
      BY <1>1, <3>1 DEF IInv, WindowInv
    <3>. QED  BY <3>2, <3>3, EmptyAssumption
  <2>. QED  BY <1>1, <2>1 DEF StorageLifecycle, IInv, OwnerInv
<1>. QED  BY <1>1, InvCorrect, PTL

\* Every slot belongs to some position of a window of one lap.
LEMMA WindowCoversSlots ==
    ASSUME NEW d \in Nat, NEW i \in 0..Capacity - 1
    PROVE  \E n \in d..d + Capacity - 1 : Slot(n) = i
<1>. DEFINE k == d \div Capacity
            m == IF i >= d % Capacity THEN k ELSE k + 1
            n == Capacity * m + i
<1>1. /\ Capacity \in Nat \ {0} /\ k \in Nat
      /\ d % Capacity \in 0..Capacity - 1
      /\ d = Capacity * k + (d % Capacity)
  BY CapacityPositive, DivMod
<1>. HIDE DEF k
<1>2. Capacity * (k + 1) = Capacity * k + Capacity
  BY <1>1
<1>3. /\ m \in Nat
      /\ Capacity * k \in Nat
  BY <1>1
<1>4. n \in d..d + Capacity - 1
  BY <1>1, <1>2, <1>3
<1>. HIDE DEF m
<1>5. Slot(n) = i
  <2>1. n \in Nat
    BY <1>1, <1>4
  <2>2. /\ n \div Capacity \in Nat
        /\ n % Capacity \in 0..Capacity - 1
        /\ n = Capacity * (n \div Capacity) + (n % Capacity)
    BY <1>1, <2>1, DivMod
  <2>. DEFINE a == n \div Capacity
              r == n % Capacity
  <2>3. /\ Capacity * m + i = Capacity * a + r
        /\ m \in Int /\ a \in Int /\ r \in 0..Capacity - 1
    BY <1>3, <2>2
  <2>. HIDE DEF n, a, r
  <2>4. i = r
    BY <2>3, RemainderUnique, CapacityPositive
  <2>. QED  BY <2>4 DEF r, Slot
<1>. QED  BY <1>4, <1>5

\* The slots of positions behind the window are marked with later positions.
LEMMA SlotsNotBehind ==
    ASSUME IInv, NEW n \in Nat, n <= head, seq[Slot(n)] < n
    PROVE  head = Done + Capacity
<1>1. /\ head \in Nat /\ Done \in Nat /\ Capacity \in Nat \ {0}
      /\ Done <= head /\ head <= Done + Capacity
  BY WindowBounds
<1>2. PICK m \in Done..Done + Capacity - 1 : Slot(m) = Slot(n)
  BY <1>1, SlotInRange, WindowCoversSlots
<1>3. seq[Slot(m)] >= m
  <2>1. CASE m >= head
    BY <1>1, <2>1 DEF IInv, SlotInv
  <2>2. CASE m < head /\ Published(m)
    BY <1>1, <2>2 DEF IInv, SlotInv
  <2>3. CASE m < head /\ ~Published(m)
    <3>1. PICK q \in Producers : Holds(q) /\ pos[q] = m
      BY <2>3 DEF Published
    <3>. QED  BY <1>1, <3>1 DEF IInv, OwnerInv
  <2>. QED  BY <1>1, <2>1, <2>2, <2>3
<1>4. seq[Slot(n)] \in Nat
  BY SlotInRange DEF IInv, TypeOK
<1>5. m < n
  BY <1>1, <1>2, <1>3, <1>4
<1>6. n >= m + Capacity
  BY <1>1, <1>2, <1>5, SlotDistinct
<1>. QED  BY <1>1, <1>6

\* try_push answers false only while the buffer is full.
THEOREM NoFalseRejection == ASSUME Capacity # 1 PROVE Spec => RejectedOnlyWhenFull
<1>. DEFINE Step == \A p \in Producers :
              pc[p] = "load" /\ pc'[p] = "idle" => head - Len(popped) = Capacity
<1>1. ASSUME IInv, [Next]_vars
      PROVE  Step
  <2>. SUFFICES ASSUME NEW p \in Producers, pc[p] = "load", pc'[p] = "idle"
                PROVE  head = Done + Capacity
    BY <1>1, WindowBounds DEF Done
  <2>1. PushFull(p)
    BY <1>1 DEF IInv, TypeOK, Next, Push, PushCall, PushSlotFree, PushFull, PushReload,
       PushCas, PushCasFails, PushConstruct, PushPublish, Goto, Pop, PopReady, PopEmpty,
       PopMove, PopRecycle, PopAdvance, vars, producerVars
  <2>2. pos[p] \in Nat /\ pos[p] <= head
    BY <1>1 DEF IInv, TypeOK
  <2>. QED  BY <1>1, <2>1, <2>2, SlotsNotBehind DEF PushFull
<1>2. Spec => [][Step]_vars
  BY <1>1, InvCorrect, PTL DEF Spec
<1>. QED  BY <1>2 DEF RejectedOnlyWhenFull

-----------------------------------------------------------------------------
(* The ring buffer implements the queue of reservations *)

\* Steps that move neither head_ nor a producer in or out of its position
\* leave the set of committed positions as it is.
LEMMA CommittedUnchanged ==
    ASSUME UNCHANGED <<head, claimed>>, \A n : Published(n)' <=> Published(n)
    PROVE  Committed' = Committed
BY DEF Committed

\* An empty buffer is an empty queue.
LEMMA ImplementsInit == Init => Queue!QInit
BY DEF Init, Queue!QInit, Committed

\* Claiming a position reserves the next place of the queue, and there is one.
LEMMA CasReserves ==
    ASSUME IInv, NEW p \in Producers, PushCas(p), Capacity # 1
    PROVE  val[p] \in Item /\ Queue!Reserve(val[p])
<1>1. /\ head' = head + 1 /\ head = pos[p]
      /\ claimed' = Append(claimed, val[p])
      /\ pc' = [pc EXCEPT ![p] = "construct"] /\ pc[p] = "cas"
      /\ UNCHANGED <<pos, popped>>
  BY DEF PushCas, Goto, consumerVars
<1>2. /\ val[p] \in Item
      /\ pc \in [Producers -> {"idle", "load", "cas", "construct", "publish"}]
  BY <1>1 DEF IInv, TypeOK, OwnerInv
<1>3. /\ head \in Nat /\ Done \in Nat /\ Capacity \in Nat /\ Len(claimed) = head
      /\ head < Done + Capacity
      /\ claimed \in Seq(Item)
      /\ \A q \in Producers : Holds(q) => pos[q] \in Done..head - 1
  BY WindowBounds, CasFindsRoom DEF IInv, WindowInv
<1>4. Len(claimed') = head + 1
  BY <1>1, <1>2, <1>3
<1>5. \A q \in Producers : Holds(q)' <=> (Holds(q) \/ q = p)
  BY <1>1, <1>2 DEF Holds
<1>6. \A n \in 0..head : Published(n)' <=> Published(n)
  BY <1>1, <1>3, <1>5 DEF Published
<1>7. Committed' = Committed
  <2>1. ASSUME NEW i \in 1..head + 1
        PROVE  Published(i - 1)' <=> Published(i - 1)
    BY <1>3, <1>6
  <2>2. ~Published(head)
    BY <1>3 DEF Published
  <2>. QED  BY <1>3, <1>4, <2>1, <2>2 DEF Committed
<1>8. Len(claimed) - Len(popped) < Capacity
  BY <1>3 DEF Done
<1>. QED  BY <1>1, <1>2, <1>7, <1>8 DEF Queue!Reserve, Queue!HasRoom

\* Publishing a position commits it.
LEMMA PublishCommits ==
    ASSUME IInv, NEW p \in Producers, PushPublish(p)
    PROVE  pos[p] + 1 \in 1..Len(claimed) /\ Queue!Commit(pos[p] + 1)
<1>1. /\ pc' = [pc EXCEPT ![p] = "idle"] /\ pc[p] = "publish"
      /\ UNCHANGED <<head, claimed, pos, popped>>
  BY DEF PushPublish, Goto, consumerVars
<1>2. pc \in [Producers -> {"idle", "load", "cas", "construct", "publish"}]
  BY DEF IInv, TypeOK
<1>3. /\ head \in Nat /\ Done \in Nat /\ Len(claimed) = head
      /\ Holds(p) /\ pos[p] \in Done..head - 1
  BY <1>1, WindowBounds DEF Holds
<1>4. \A q \in Producers : Holds(q)' <=> (Holds(q) /\ q # p)
  BY <1>1, <1>2 DEF Holds
<1>5. \A n : Published(n)' <=> (Published(n) \/ n = pos[p])
  BY <1>1, <1>3, <1>4 DEF Published, IInv, OwnerInv
<1>. DEFINE i == pos[p] + 1
<1>6. i \in (1..Len(claimed)) \ Committed
  BY <1>3 DEF Committed, Published
<1>7. Committed' = Committed \cup {i}
  BY <1>1, <1>3, <1>5 DEF Committed
<1>. QED  BY <1>1, <1>6, <1>7 DEF Queue!Commit

\* Recycling a slot takes the oldest item, which is committed.
LEMMA RecycleTakes ==
    ASSUME IInv, PopRecycle
    PROVE  Queue!Take
<1>1. /\ cpc = "recycle" /\ popped' = Append(popped, cval)
      /\ UNCHANGED <<head, claimed, pc, pos>>
  BY DEF PopRecycle, producerVars
<1>2. /\ tail = Done /\ Published(tail) /\ cval = claimed[tail + 1]
      /\ head \in Nat /\ Done \in Nat /\ Len(claimed) = head
  BY <1>1, WindowBounds DEF IInv, ConsumerInv
<1>3. Committed' = Committed
  <2>1. \A n : Published(n)' <=> Published(n)
    BY <1>1 DEF Published, Holds
  <2>. QED  BY <1>1, <2>1, CommittedUnchanged
<1>4. Done + 1 \in Committed
  BY <1>2 DEF Committed, Published
<1>. QED  BY <1>1, <1>2, <1>3, <1>4 DEF Queue!Take, Queue!CanTake, Queue!Oldest, Done

\* All other steps are invisible to the queue.
LEMMA OtherStepsStutter ==
    ASSUME IInv, [Next]_vars,
           \A p \in Producers : ~PushCas(p) /\ ~PushPublish(p),
           ~PopRecycle
    PROVE  UNCHANGED <<claimed, Committed, popped>>
<1>1. /\ UNCHANGED <<head, claimed, popped>>
      /\ \A q \in Producers : Holds(q)' <=> Holds(q)
      /\ \A q \in Producers : Holds(q) => pos'[q] = pos[q]
  <2>. USE DEF consumerVars, producerVars
  <2>1. ASSUME NEW p \in Producers,
               PushCall(p) \/ PushSlotFree(p) \/ PushFull(p) \/ PushReload(p)
                 \/ PushCasFails(p) \/ PushConstruct(p)
        PROVE  /\ UNCHANGED <<head, claimed, popped>>
               /\ \A q \in Producers : Holds(q)' <=> Holds(q)
               /\ \A q \in Producers : Holds(q) => pos'[q] = pos[q]
    BY <2>1 DEF IInv, TypeOK, Holds, Goto, PushCall, PushSlotFree, PushFull, PushReload,
       PushCasFails, PushConstruct
  <2>2. CASE PopReady \/ PopEmpty \/ PopMove \/ PopAdvance \/ UNCHANGED vars
    BY <2>2 DEF PopReady, PopEmpty, PopMove, PopAdvance, vars, Holds
  <2>. QED  BY <2>1, <2>2 DEF Next, Push, Pop
<1>2. \A n : Published(n)' <=> Published(n)
  BY <1>1 DEF Published
<1>. QED  BY <1>1, <1>2, CommittedUnchanged

\* The ring buffer implements the bounded queue of reservations: positions are
\* reserved only while there is room, and items leave in reservation order.
THEOREM Implements == ASSUME Capacity # 1 PROVE Spec => ImplementsQueue
<1>1. ASSUME IInv, [Next]_vars
      PROVE  [Queue!QNext]_(Queue!qvars)
  <2>1. ASSUME NEW p \in Producers, PushCas(p)
        PROVE  Queue!QNext
    BY <1>1, <2>1, CasReserves DEF Queue!QNext
  <2>2. ASSUME NEW p \in Producers, PushPublish(p)
        PROVE  Queue!QNext
    BY <1>1, <2>2, PublishCommits DEF Queue!QNext
  <2>3. CASE PopRecycle
    BY <1>1, <2>3, RecycleTakes DEF Queue!QNext
  <2>. QED  BY <1>1, <2>1, <2>2, <2>3, OtherStepsStutter DEF Queue!qvars
<1>. QED  BY <1>1, ImplementsInit, InvCorrect, PTL
          DEF Spec, ImplementsQueue, Queue!QSpec

=============================================================================

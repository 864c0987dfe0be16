------------------------ MODULE LockFreeQueueProofs ------------------------
(* Proofs about LockFreeQueue (src/include/LockFreeQueue.hpp), for any number  *)
(* of producers, consumers and calls and for any Size > 1.                    *)
(*                                                                            *)
(* The invariants of the runs are not inductive: that a slot is exclusive     *)
(* depends on the sequence number every slot may carry, and RingInv says it:  *)
(* the slot of a position n in use (dequeuePos <= n < enqueuePos) carries n    *)
(* while its producer writes and n + 1 once it is published; the slot of a     *)
(* position n still to be claimed carries n, or n - Size + 1 while a consumer  *)
(* is emptying it.  DataInv adds what the slots hold, SizeInv what a caller of *)
(* size() has loaded, OwnerInv whose numbers the sequences are and ItemInv     *)
(* that no task is in two slots: with them the ring implements TaskQueue.      *)
EXTENDS LockFreeQueue, SequenceTheorems, TLAPS

LEMMA DivisionFact ==
    ASSUME NEW n \in Int
    PROVE  /\ n \div Size \in Int
           /\ n % Size \in 0 .. (Size - 1)
           /\ n = (Size * (n \div Size)) + (n % Size)
  BY SizeAssumption

LEMMA ProductGap ==
    ASSUME NEW a \in Int, NEW b \in Int, a < b
    PROVE  /\ Size * b \in Int /\ Size * a \in Int
           /\ Size * b >= (Size * a) + Size
<1>1. Size * b = (Size * a) + (Size * (b - a))
  BY SizeAssumption
<1>2. Size * (b - a) >= Size
  BY SizeAssumption
<1>. QED  BY <1>1, <1>2, SizeAssumption

LEMMA SlotInjective ==
    ASSUME NEW n \in Int, NEW m \in Int, n <= m, m < n + Size,
           Slot(n) = Slot(m)
    PROVE  n = m
<1>. DEFINE a == n \div Size
            b == m \div Size
            r == n % Size
<1>1. /\ a \in Int /\ b \in Int /\ r \in 0 .. (Size - 1)
      /\ n = (Size * a) + r
      /\ m = (Size * b) + r
  BY DivisionFact DEF Slot
<1>. HIDE DEF a, b, r
<1>2. ~(a < b)
  BY <1>1, ProductGap, SizeAssumption
<1>3. ~(b < a)
  BY <1>1, ProductGap, SizeAssumption
<1>. QED  BY <1>1, <1>2, <1>3, SizeAssumption

LEMMA SlotLaps ==
    ASSUME NEW n \in Int, NEW k \in Int
    PROVE  Slot(n + Size * k) = Slot(n)
<1>. DEFINE a == n \div Size
            m == n + Size * k
            b == m \div Size
            r == n % Size
            q == m % Size
<1>1. m \in Int /\ Size * k \in Int
  BY SizeAssumption
<1>2. a \in Int /\ r \in 0 .. (Size - 1) /\ n = (Size * a) + r
  BY DivisionFact
<1>. HIDE DEF a, r, m
<1>3. b \in Int /\ q \in 0 .. (Size - 1) /\ m = (Size * b) + q
  BY <1>1, DivisionFact
<1>4. m = n + Size * k
  BY DEF m
<1>5. SUFFICES r = q
  BY DEF Slot, m, r
<1>. HIDE DEF b, q
<1>6. Size * (a + k) = (Size * a) + (Size * k)
  BY <1>2, SizeAssumption
<1>7. ~(a + k < b)
  BY <1>1, <1>2, <1>3, <1>4, <1>6, ProductGap, SizeAssumption
<1>8. ~(b < a + k)
  BY <1>1, <1>2, <1>3, <1>4, <1>6, ProductGap, SizeAssumption
<1>. QED  BY <1>1, <1>2, <1>3, <1>4, <1>6, <1>7, <1>8, SizeAssumption

LEMMA SlotWraps ==
    ASSUME NEW n \in Int
    PROVE  Slot(n + Size) = Slot(n)
<1>1. Size * 1 = Size
  BY SizeAssumption
<1>. QED  BY <1>1, SlotLaps

\* Every slot has a position in each window of Size positions.
LEMMA SlotInWindow ==
    ASSUME NEW a \in Nat, NEW n \in Nat, n < a
    PROVE  \E m \in Nat : /\ a <= m /\ m < a + Size
                          /\ n + Size <= m
                          /\ Slot(m) = Slot(n)
<1>. DEFINE d == n - a
            k == 0 - (d \div Size)
            r == d % Size
            m == n + Size * k
<1>1. /\ d \in Int /\ d \div Size \in Int /\ r \in 0 .. (Size - 1)
      /\ d = (Size * (d \div Size)) + r
  BY DivisionFact
<1>2. /\ k \in Int /\ Size * (d \div Size) \in Int
      /\ Size * k = 0 - (Size * (d \div Size))
  BY <1>1, SizeAssumption
<1>. HIDE DEF k, r
<1>3. m = a + r
  BY <1>1, <1>2
<1>4. Slot(m) = Slot(n)
  BY <1>2, SlotLaps
<1>5. k >= 1
  <2>. SUFFICES ASSUME k < 1 PROVE FALSE
    BY <1>2
  <2>1. CASE k < 0
    BY <1>2, <1>3, <2>1, ProductGap, SizeAssumption
  <2>2. CASE k = 0
    BY <1>1, <1>2, <1>3, <2>2, SizeAssumption
  <2>. QED  BY <1>2, <2>1, <2>2
<1>6. Size * k >= Size
  <2>1. CASE k = 1
    BY <2>1, SizeAssumption
  <2>2. CASE k > 1
    BY <1>2, <2>2, ProductGap, SizeAssumption
  <2>. QED  BY <1>2, <1>5, <2>1, <2>2
<1>7. Size * k \in Int /\ m \in Int
  BY <1>2, SizeAssumption
<1>. HIDE DEF m
<1>8. m \in Nat /\ a <= m /\ m < a + Size /\ n + Size <= m
  BY <1>1, <1>3, <1>6, <1>7, SizeAssumption DEF m
<1>. QED  BY <1>4, <1>8

LEMMA SlotType ==
    ASSUME NEW n \in Int
    PROVE  Slot(n) \in Slots
  BY DivisionFact DEF Slot, Slots

LEMMA SlotDistinct ==
    ASSUME NEW n \in Int, NEW m \in Int, n # m, m < n + Size, n < m + Size
    PROVE  Slot(n) # Slot(m)
  BY SlotInjective, SizeAssumption

LEMMA SlotLap ==
    ASSUME NEW n \in Int, NEW m \in Int, n < m, m <= n + Size,
           Slot(n) = Slot(m)
    PROVE  m = n + Size
<1>1. Slot(n + Size) = Slot(m)
  BY SlotWraps
<1>. QED  BY <1>1, SlotInjective, SizeAssumption

-----------------------------------------------------------------------------
(* Type correctness                                                         *)

\* A thread inside enqueue or dequeue works on a real position, and a producer
\* inside enqueue carries one of its tasks.
CallInv ==
    /\ \A p \in Producers : pc[p] \notin {"idle", "s_tail"} =>
                              pos[p] >= 0 /\ calls[p] >= 1
    /\ \A c \in Consumers : pc[c] # "idle" => pos[c] >= 0

TypeInv == TypeOK /\ CallInv

LEMMA TypeInit == Init => TypeInv
  BY ThreadsAssumption, SizeAssumption, MaxCallsAssumption
     DEF Init, TypeInv, TypeOK, CallInv, Threads, Slots, ProducerPc, ConsumerPc

LEMMA ItemType ==
    ASSUME TypeInv, NEW p \in Producers, pc[p] \notin {"idle", "s_tail"}
    PROVE  Item(p) \in Items
  BY MaxCallsAssumption DEF TypeInv, TypeOK, CallInv, Item, Items, Threads

LEMMA TypeStep == TypeInv /\ [Next]_vars => TypeInv'
<1>. SUFFICES ASSUME TypeInv, [Next]_vars PROVE TypeInv'
  OBVIOUS
<1>. USE ThreadsAssumption, SizeAssumption, MaxCallsAssumption
     DEF TypeInv, TypeOK, CallInv, Threads, ProducerPc, ConsumerPc, Goto
<1>1. ASSUME NEW p \in Producers, EnqueueCall(p) PROVE TypeInv'
  BY <1>1 DEF EnqueueCall
<1>2. ASSUME NEW p \in Producers, EnqueueReadSequence(p) PROVE TypeInv'
  BY <1>2 DEF EnqueueReadSequence
<1>3. ASSUME NEW p \in Producers, EnqueueClaim(p) PROVE TypeInv'
  BY <1>3 DEF EnqueueClaim
<1>4. ASSUME NEW p \in Producers, EnqueueLoseClaim(p) PROVE TypeInv'
  BY <1>4 DEF EnqueueLoseClaim
<1>5. ASSUME NEW p \in Producers, EnqueueReload(p) PROVE TypeInv'
  BY <1>5 DEF EnqueueReload
<1>6. ASSUME NEW p \in Producers, EnqueueWrite(p) PROVE TypeInv'
  <2>1. Item(p) \in Items
    BY <1>6, ItemType DEF EnqueueWrite
  <2>. QED  BY <1>6, <2>1 DEF EnqueueWrite
<1>7. ASSUME NEW p \in Producers, EnqueuePublish(p) PROVE TypeInv'
  <2>1. pos[p] + 1 \in Nat
    BY <1>7 DEF EnqueuePublish
  <2>2. sequence' \in [Slots -> Nat]
    BY <1>7, <2>1 DEF EnqueuePublish
  <2>. QED  BY <1>7, <2>2 DEF EnqueuePublish
<1>8. ASSUME NEW p \in Producers, LoadSize(p) PROVE TypeInv'
  <2>1. CASE pc[p] = "idle"
    BY <1>8, <2>1 DEF LoadSize
  <2>2. CASE pc[p] = "s_tail"
    BY <1>8, <2>2 DEF LoadSize
  <2>. QED  BY <1>8, <2>1, <2>2 DEF LoadSize
<1>9. ASSUME NEW c \in Consumers, DequeueCall(c) PROVE TypeInv'
  BY <1>9 DEF DequeueCall
<1>10. ASSUME NEW c \in Consumers, DequeueReadSequence(c) PROVE TypeInv'
  BY <1>10 DEF DequeueReadSequence
<1>11. ASSUME NEW c \in Consumers, DequeueClaim(c) PROVE TypeInv'
  BY <1>11 DEF DequeueClaim
<1>12. ASSUME NEW c \in Consumers, DequeueLoseClaim(c) PROVE TypeInv'
  BY <1>12 DEF DequeueLoseClaim
<1>13. ASSUME NEW c \in Consumers, DequeueReload(c) PROVE TypeInv'
  BY <1>13 DEF DequeueReload
<1>14. ASSUME NEW c \in Consumers, DequeueRead(c) PROVE TypeInv'
  <2>1. data[Slot(pos[c])] \in Items \cup {Empty}
    BY SlotType
  <2>2. /\ data' \in [Slots -> Items \cup {Empty}]
        /\ out' \in [Consumers -> Items \cup {Empty}]
    BY <1>14, <2>1 DEF DequeueRead
  <2>. QED  BY <1>14, <2>2 DEF DequeueRead
<1>15. ASSUME NEW c \in Consumers, DequeueRelease(c) PROVE TypeInv'
  <2>1. pos[c] + Size \in Nat
    BY <1>15 DEF DequeueRelease
  <2>2. sequence' \in [Slots -> Nat]
    BY <1>15, <2>1 DEF DequeueRelease
  <2>. QED  BY <1>15, <2>2 DEF DequeueRelease
<1>16. CASE UNCHANGED vars
  BY <1>16 DEF vars
<1>. QED
  BY <1>1, <1>2, <1>3, <1>4, <1>5, <1>6, <1>7, <1>8, <1>9, <1>10, <1>11,
     <1>12, <1>13, <1>14, <1>15, <1>16 DEF Next, Enqueue, Dequeue

\* Type correctness of include/LockFreeQueue.hpp for any number of threads,
\* any ring size and any number of calls.
THEOREM TypeCorrect == Spec => []TypeOK
<1>1. Spec => []TypeInv
  BY TypeInit, TypeStep, PTL DEF Spec
<1>2. TypeInv => TypeOK
  BY DEF TypeInv
<1>. QED  BY <1>1, <1>2, PTL

-----------------------------------------------------------------------------
(* The ring invariant. The positions [dequeuePos, enqueuePos) are filled or *)
(* being filled, the positions [enqueuePos, dequeuePos + Size) are free or  *)
(* still hold the task of the previous lap that a consumer is moving out;   *)
(* together they visit every slot once.                                     *)

Adds(t)  == pc[t] \in {"e_write", "e_publish"}
Takes(t) == pc[t] \in {"d_read", "d_release"}

WindowInv ==
    dequeuePos <= enqueuePos /\ enqueuePos <= dequeuePos + Size

AdderInv ==
    \A p \in Producers : Adds(p) =>
        /\ dequeuePos <= pos[p] /\ pos[p] < enqueuePos
        /\ sequence[Slot(pos[p])] = pos[p]
        /\ \A q \in Producers : q # p /\ Adds(q) => pos[q] # pos[p]

TakerInv ==
    \A c \in Consumers : Takes(c) =>
        /\ enqueuePos <= pos[c] + Size /\ pos[c] < dequeuePos
        /\ sequence[Slot(pos[c])] = pos[c] + 1
        /\ \A d \in Consumers : d # c /\ Takes(d) => pos[d] # pos[c]

FilledInv ==
    \A n \in Nat : dequeuePos <= n /\ n < enqueuePos =>
        sequence[Slot(n)] \in {n, n + 1}

FreeInv ==
    \A n \in Nat : enqueuePos <= n /\ n < dequeuePos + Size =>
        sequence[Slot(n)] \in {n, n - Size + 1}

\* A position a thread works with may be stale but never runs ahead; what a
\* thread about to compare and swap has read still holds, unless the counter has
\* moved on and the swap will fail.
ClaimInv ==
    /\ \A p \in Producers : pc[p] \in {"e_seq", "e_cas"} => pos[p] <= enqueuePos
    /\ \A c \in Consumers : pc[c] \in {"d_seq", "d_cas"} => pos[c] <= dequeuePos
    /\ \A p \in Producers : pc[p] = "e_cas" /\ pos[p] = enqueuePos =>
                              sequence[Slot(pos[p])] = pos[p]
    /\ \A c \in Consumers : pc[c] = "d_cas" /\ pos[c] = dequeuePos =>
                              sequence[Slot(pos[c])] = pos[c] + 1

RingInv == WindowInv /\ AdderInv /\ TakerInv /\ FilledInv /\ FreeInv /\ ClaimInv

\* A claim that will succeed finds room: the ring is not full, and no consumer
\* still owns the slot.
LEMMA ClaimHasRoom ==
    ASSUME Size > 1, TypeInv, RingInv,
           NEW p \in Producers, pc[p] = "e_cas", pos[p] = enqueuePos
    PROVE  /\ enqueuePos < dequeuePos + Size
           /\ \A c \in Consumers : Takes(c) => enqueuePos < pos[c] + Size
<1>. USE SizeAssumption DEF TypeInv, TypeOK, Threads
<1>1. sequence[Slot(enqueuePos)] = enqueuePos
  BY DEF RingInv, ClaimInv
<1>2. enqueuePos # dequeuePos + Size
  <2>. SUFFICES ASSUME enqueuePos = dequeuePos + Size PROVE FALSE
    OBVIOUS
  <2>1. Slot(enqueuePos) = Slot(dequeuePos)
    BY SlotWraps
  <2>2. sequence[Slot(dequeuePos)] \in {dequeuePos, dequeuePos + 1}
    BY DEF RingInv, FilledInv
  <2>. QED  BY <1>1, <2>1, <2>2
<1>3. ASSUME NEW c \in Consumers, Takes(c), enqueuePos = pos[c] + Size
      PROVE  FALSE
  <2>1. Slot(enqueuePos) = Slot(pos[c])
    BY <1>3, SlotWraps
  <2>2. sequence[Slot(pos[c])] = pos[c] + 1
    BY <1>3 DEF RingInv, TakerInv
  <2>. QED  BY <1>1, <1>3, <2>1, <2>2
<1>4. \A c \in Consumers : Takes(c) => enqueuePos <= pos[c] + Size
  BY DEF RingInv, TakerInv
<1>. QED  BY <1>2, <1>3, <1>4 DEF RingInv, WindowInv

\* A take that will succeed finds a published task: the queue is not empty, and
\* no producer still owns the slot.
LEMMA ClaimHasTask ==
    ASSUME Size > 1, TypeInv, RingInv,
           NEW c \in Consumers, pc[c] = "d_cas", pos[c] = dequeuePos
    PROVE  /\ dequeuePos < enqueuePos
           /\ \A p \in Producers : Adds(p) => dequeuePos < pos[p]
<1>. USE SizeAssumption DEF TypeInv, TypeOK, Threads
<1>1. sequence[Slot(dequeuePos)] = dequeuePos + 1
  BY DEF RingInv, ClaimInv
<1>2. dequeuePos # enqueuePos
  <2>. SUFFICES ASSUME dequeuePos = enqueuePos PROVE FALSE
    OBVIOUS
  <2>1. sequence[Slot(dequeuePos)] \in {dequeuePos, dequeuePos - Size + 1}
    BY DEF RingInv, FreeInv
  <2>. QED  BY <1>1, <2>1
<1>3. \A p \in Producers : Adds(p) =>
        dequeuePos <= pos[p] /\ sequence[Slot(pos[p])] = pos[p]
  BY DEF RingInv, AdderInv
<1>. QED  BY <1>1, <1>2, <1>3 DEF RingInv, WindowInv

\* Two owners never share a slot.
LEMMA OwnersApart ==
    ASSUME TypeInv, RingInv, NEW t \in Threads, NEW u \in Threads, t # u,
           Owns(t), Owns(u)
    PROVE  Slot(pos[t]) # Slot(pos[u])
<1>. USE SizeAssumption DEF TypeInv, TypeOK, Threads
<1>1. pos[t] # pos[u] /\ pos[t] < pos[u] + Size /\ pos[u] < pos[t] + Size
  <2>1. \A p \in Threads : Adds(p) => p \in Producers
    BY DEF Adds, ConsumerPc
  <2>2. \A c \in Threads : Takes(c) => c \in Consumers
    BY DEF Takes, ProducerPc
  <2>3. CASE Adds(t) /\ Adds(u)
    BY <2>1, <2>3 DEF RingInv, WindowInv, AdderInv
  <2>4. CASE Takes(t) /\ Takes(u)
    BY <2>2, <2>4 DEF RingInv, WindowInv, TakerInv
  <2>5. CASE Adds(t) /\ Takes(u)
    BY <2>1, <2>2, <2>5 DEF RingInv, AdderInv, TakerInv
  <2>6. CASE Takes(t) /\ Adds(u)
    BY <2>1, <2>2, <2>6 DEF RingInv, AdderInv, TakerInv
  <2>. QED  BY <2>3, <2>4, <2>5, <2>6 DEF Owns, Adds, Takes
<1>. QED  BY <1>1, SlotDistinct

\* Within the window an owned slot belongs to one position only.
LEMMA AdderAlone ==
    ASSUME TypeInv, RingInv, NEW p \in Producers, Adds(p),
           NEW n \in Nat, dequeuePos <= n, n < dequeuePos + Size, n # pos[p]
    PROVE  Slot(n) # Slot(pos[p])
  BY SlotDistinct, SizeAssumption
     DEF TypeInv, TypeOK, Threads, RingInv, WindowInv, AdderInv

LEMMA TakerAlone ==
    ASSUME TypeInv, RingInv, NEW c \in Consumers, Takes(c),
           NEW n \in Nat, dequeuePos <= n, n < dequeuePos + Size,
           n # pos[c] + Size
    PROVE  Slot(n) # Slot(pos[c])
<1>. SUFFICES ASSUME Slot(n) = Slot(pos[c]) PROVE FALSE
  OBVIOUS
<1>1. /\ pos[c] \in Int /\ pos[c] + Size \in Int
      /\ pos[c] < n /\ n < (pos[c] + Size) + Size
  BY SizeAssumption
     DEF TypeInv, TypeOK, Threads, RingInv, WindowInv, TakerInv
<1>2. Slot(pos[c] + Size) = Slot(pos[c])
  BY <1>1, SlotWraps
<1>3. CASE n <= pos[c] + Size
  BY <1>1, <1>3, SlotLap
<1>4. CASE n > pos[c] + Size
  BY <1>1, <1>2, <1>4, SlotInjective
<1>. QED  BY <1>1, <1>3, <1>4

LEMMA RingInit == Init => RingInv
<1>. SUFFICES ASSUME Init PROVE RingInv
  OBVIOUS
<1>. USE SizeAssumption DEF Init
<1>1. \A n \in Nat : n < Size => sequence[Slot(n)] = n
  <2>1. \A n \in Nat : n < Size => Slot(n) = n
    BY DEF Slot
  <2>. QED  BY <2>1 DEF Slots
<1>. QED
  BY <1>1 DEF RingInv, WindowInv, AdderInv, TakerInv, FilledInv, FreeInv,
              ClaimInv, Adds, Takes, Threads

\* A step that leaves the counters, the sequences and the owners alone keeps
\* everything but ClaimInv.
LEMMA SameRing ==
    ASSUME RingInv, UNCHANGED <<enqueuePos, dequeuePos, sequence>>,
           \A t \in Threads : /\ Adds(t)' <=> Adds(t)
                              /\ Takes(t)' <=> Takes(t)
                              /\ Adds(t) \/ Takes(t) => pos'[t] = pos[t]
    PROVE  /\ WindowInv' /\ AdderInv' /\ TakerInv' /\ FilledInv' /\ FreeInv'
  BY DEF RingInv, WindowInv, AdderInv, TakerInv, FilledInv, FreeInv, Threads

LEMMA RingEnqueueClaim ==
    ASSUME Size > 1, TypeInv, RingInv, NEW p \in Producers, EnqueueClaim(p)
    PROVE  RingInv'
<1>. USE SizeAssumption, ThreadsAssumption DEF TypeInv, TypeOK, Threads
<1>1. /\ pc[p] = "e_cas" /\ pc' = [pc EXCEPT ![p] = "e_write"]
      /\ pos[p] = enqueuePos /\ enqueuePos' = enqueuePos + 1
      /\ UNCHANGED <<dequeuePos, sequence, pos>>
  BY DEF EnqueueClaim, Goto
<1>2. /\ enqueuePos < dequeuePos + Size
      /\ \A c \in Consumers : Takes(c) => enqueuePos < pos[c] + Size
  BY <1>1, ClaimHasRoom
<1>3. sequence[Slot(enqueuePos)] = enqueuePos
  BY <1>1 DEF RingInv, ClaimInv
<1>4. /\ \A q \in Producers : Adds(q)' <=> q = p \/ Adds(q)
      /\ \A c \in Consumers : Takes(c)' <=> Takes(c)
  BY <1>1 DEF Adds, Takes
<1>5. WindowInv'
  BY <1>1, <1>2 DEF RingInv, WindowInv
<1>6. AdderInv'
  BY <1>1, <1>3, <1>4 DEF RingInv, WindowInv, AdderInv
<1>7. TakerInv'
  BY <1>1, <1>2, <1>4 DEF RingInv, TakerInv
<1>8. FilledInv'
  BY <1>1, <1>3 DEF RingInv, FilledInv
<1>9. FreeInv'
  BY <1>1 DEF RingInv, FreeInv
<1>10. ClaimInv'
  BY <1>1 DEF RingInv, ClaimInv
<1>. QED  BY <1>5, <1>6, <1>7, <1>8, <1>9, <1>10 DEF RingInv

LEMMA RingDequeueClaim ==
    ASSUME Size > 1, TypeInv, RingInv, NEW c \in Consumers, DequeueClaim(c)
    PROVE  RingInv'
<1>. USE SizeAssumption, ThreadsAssumption DEF TypeInv, TypeOK, Threads
<1>1. /\ pc[c] = "d_cas" /\ pc' = [pc EXCEPT ![c] = "d_read"]
      /\ pos[c] = dequeuePos /\ dequeuePos' = dequeuePos + 1
      /\ UNCHANGED <<enqueuePos, sequence, pos>>
  BY DEF DequeueClaim, Goto
<1>2. /\ dequeuePos < enqueuePos
      /\ \A p \in Producers : Adds(p) => dequeuePos < pos[p]
  BY <1>1, ClaimHasTask
<1>3. sequence[Slot(dequeuePos)] = dequeuePos + 1
  BY <1>1 DEF RingInv, ClaimInv
<1>4. /\ \A p \in Producers : Adds(p)' <=> Adds(p)
      /\ \A d \in Consumers : Takes(d)' <=> d = c \/ Takes(d)
  BY <1>1 DEF Adds, Takes
<1>5. WindowInv'
  BY <1>1, <1>2 DEF RingInv, WindowInv
<1>6. AdderInv'
  BY <1>1, <1>2, <1>4 DEF RingInv, AdderInv
<1>7. TakerInv'
  BY <1>1, <1>3, <1>4 DEF RingInv, WindowInv, TakerInv
<1>8. FilledInv'
  BY <1>1 DEF RingInv, FilledInv
<1>9. FreeInv'
  <2>. SUFFICES ASSUME NEW n \in Nat, enqueuePos' <= n, n < dequeuePos' + Size
                PROVE  sequence'[Slot(n)] \in {n, n - Size + 1}
    BY DEF FreeInv
  <2>1. CASE n < dequeuePos + Size
    BY <1>1, <2>1 DEF RingInv, FreeInv
  <2>2. CASE n = dequeuePos + Size
    BY <1>1, <1>3, <2>2, SlotWraps
  <2>. QED  BY <1>1, <2>1, <2>2
<1>10. ClaimInv'
  BY <1>1 DEF RingInv, ClaimInv
<1>. QED  BY <1>5, <1>6, <1>7, <1>8, <1>9, <1>10 DEF RingInv

LEMMA RingEnqueuePublish ==
    ASSUME Size > 1, TypeInv, RingInv, NEW p \in Producers, EnqueuePublish(p)
    PROVE  RingInv'
<1>. USE SizeAssumption, ThreadsAssumption DEF TypeInv, TypeOK, Threads
<1>. DEFINE own == Slot(pos[p])
<1>1. /\ pc[p] = "e_publish" /\ pc' = [pc EXCEPT ![p] = "idle"]
      /\ sequence' = [sequence EXCEPT ![own] = pos[p] + 1]
      /\ pos' = [pos EXCEPT ![p] = 0]
      /\ UNCHANGED <<enqueuePos, dequeuePos>>
  BY DEF EnqueuePublish, Goto
<1>2. /\ dequeuePos <= pos[p] /\ pos[p] < enqueuePos
      /\ sequence[own] = pos[p] /\ own \in Slots
  BY <1>1, SlotType DEF RingInv, AdderInv, Adds
<1>3. \A n \in Nat : /\ dequeuePos <= n /\ n < dequeuePos + Size /\ n # pos[p]
                     => Slot(n) # own
  BY <1>1, AdderAlone DEF Adds
<1>. HIDE DEF own
<1>4. /\ sequence'[own] = pos[p] + 1
      /\ \A s \in Slots : s # own => sequence'[s] = sequence[s]
  BY <1>1, <1>2
<1>5. /\ \A q \in Producers : Adds(q)' => Adds(q) /\ q # p
      /\ \A c \in Consumers : Takes(c)' <=> Takes(c)
  BY <1>1 DEF Adds, Takes
<1>6. WindowInv'
  BY <1>1 DEF RingInv, WindowInv
<1>7. AdderInv'
  <2>1. \A q \in Producers : Adds(q) /\ q # p => Slot(pos[q]) # own
    BY <1>1, OwnersApart DEF own, Owns, Adds
  <2>. QED  BY <1>1, <1>4, <1>5, <2>1, SlotType DEF RingInv, AdderInv
<1>8. TakerInv'
  <2>1. \A c \in Consumers : Takes(c) => Slot(pos[c]) # own
    BY <1>1, OwnersApart DEF own, Owns, Takes
  <2>. QED  BY <1>1, <1>4, <1>5, <2>1, SlotType DEF RingInv, TakerInv
<1>9. FilledInv'
  <2>. SUFFICES ASSUME NEW n \in Nat, dequeuePos <= n, n < enqueuePos
                PROVE  sequence'[Slot(n)] \in {n, n + 1}
    BY <1>1 DEF FilledInv
  <2>1. CASE n = pos[p]
    BY <1>4, <2>1 DEF own
  <2>2. CASE n # pos[p]
    <3>1. n < dequeuePos + Size
      BY DEF RingInv, WindowInv
    <3>. QED  BY <1>3, <1>4, <2>2, <3>1, SlotType DEF RingInv, FilledInv
  <2>. QED  BY <2>1, <2>2
<1>10. FreeInv'
  <2>. SUFFICES ASSUME NEW n \in Nat, enqueuePos <= n, n < dequeuePos + Size
                PROVE  sequence'[Slot(n)] \in {n, n - Size + 1}
    BY <1>1 DEF FreeInv
  <2>1. dequeuePos <= n /\ n # pos[p]
    BY <1>2 DEF RingInv, WindowInv
  <2>. QED  BY <1>3, <1>4, <2>1, SlotType DEF RingInv, FreeInv
<1>11. ClaimInv'
  <2>1. ASSUME NEW q \in Producers, pc'[q] = "e_cas", pos'[q] = enqueuePos'
        PROVE  sequence'[Slot(pos'[q])] = pos'[q]
    <3>1. pc[q] = "e_cas" /\ pos[q] = enqueuePos
      BY <1>1, <2>1
    <3>2. enqueuePos < dequeuePos + Size
      BY <3>1, ClaimHasRoom
    <3>3. Slot(enqueuePos) # own
      BY <1>2, <1>3, <3>2 DEF RingInv, WindowInv
    <3>. QED  BY <1>1, <1>4, <3>1, <3>3, SlotType DEF RingInv, ClaimInv
  <2>2. ASSUME NEW c \in Consumers, pc'[c] = "d_cas", pos'[c] = dequeuePos'
        PROVE  sequence'[Slot(pos'[c])] = pos'[c] + 1
    <3>1. pc[c] = "d_cas" /\ pos[c] = dequeuePos
      BY <1>1, <2>2
    <3>2. dequeuePos < pos[p]
      BY <1>1, <3>1, ClaimHasTask DEF Adds
    <3>3. Slot(dequeuePos) # own
      BY <1>2, <1>3, <3>2
    <3>. QED  BY <1>1, <1>4, <3>1, <3>3, SlotType DEF RingInv, ClaimInv
  <2>3. /\ \A q \in Producers : pc'[q] \in {"e_seq", "e_cas"} => pos'[q] <= enqueuePos'
        /\ \A c \in Consumers : pc'[c] \in {"d_seq", "d_cas"} => pos'[c] <= dequeuePos'
    BY <1>1 DEF RingInv, ClaimInv
  <2>. QED  BY <2>1, <2>2, <2>3 DEF ClaimInv
<1>. QED  BY <1>6, <1>7, <1>8, <1>9, <1>10, <1>11 DEF RingInv

LEMMA RingDequeueRelease ==
    ASSUME Size > 1, TypeInv, RingInv, NEW c \in Consumers, DequeueRelease(c)
    PROVE  RingInv'
<1>. USE SizeAssumption, ThreadsAssumption DEF TypeInv, TypeOK, Threads
<1>. DEFINE own == Slot(pos[c])
<1>1. /\ pc[c] = "d_release" /\ pc' = [pc EXCEPT ![c] = "idle"]
      /\ sequence' = [sequence EXCEPT ![own] = pos[c] + Size]
      /\ pos' = [pos EXCEPT ![c] = 0]
      /\ UNCHANGED <<enqueuePos, dequeuePos>>
  BY DEF DequeueRelease, Goto
<1>2. /\ enqueuePos <= pos[c] + Size /\ pos[c] < dequeuePos
      /\ sequence[own] = pos[c] + 1 /\ own \in Slots
  BY <1>1, SlotType DEF RingInv, TakerInv, Takes
<1>3. \A n \in Nat : /\ dequeuePos <= n /\ n < dequeuePos + Size
                     /\ n # pos[c] + Size
                     => Slot(n) # own
  BY <1>1, TakerAlone DEF Takes
<1>4. Slot(pos[c] + Size) = own
  BY SlotWraps
<1>. HIDE DEF own
<1>5. /\ sequence'[own] = pos[c] + Size
      /\ \A s \in Slots : s # own => sequence'[s] = sequence[s]
  BY <1>1, <1>2
<1>6. /\ \A p \in Producers : Adds(p)' <=> Adds(p)
      /\ \A d \in Consumers : Takes(d)' => Takes(d) /\ d # c
  BY <1>1 DEF Adds, Takes
<1>7. WindowInv'
  BY <1>1 DEF RingInv, WindowInv
<1>8. AdderInv'
  <2>1. \A p \in Producers : Adds(p) => Slot(pos[p]) # own
    BY <1>1, OwnersApart DEF own, Owns, Adds
  <2>. QED  BY <1>1, <1>5, <1>6, <2>1, SlotType DEF RingInv, AdderInv
<1>9. TakerInv'
  <2>1. \A d \in Consumers : Takes(d) /\ d # c => Slot(pos[d]) # own
    BY <1>1, OwnersApart DEF own, Owns, Takes
  <2>. QED  BY <1>1, <1>5, <1>6, <2>1, SlotType DEF RingInv, TakerInv
<1>10. FilledInv'
  <2>. SUFFICES ASSUME NEW n \in Nat, dequeuePos <= n, n < enqueuePos
                PROVE  sequence'[Slot(n)] \in {n, n + 1}
    BY <1>1 DEF FilledInv
  <2>1. n < dequeuePos + Size /\ n # pos[c] + Size
    BY <1>2 DEF RingInv, WindowInv
  <2>. QED  BY <1>3, <1>5, <2>1, SlotType DEF RingInv, FilledInv
<1>11. FreeInv'
  <2>. SUFFICES ASSUME NEW n \in Nat, enqueuePos <= n, n < dequeuePos + Size
                PROVE  sequence'[Slot(n)] \in {n, n - Size + 1}
    BY <1>1 DEF FreeInv
  <2>1. CASE n = pos[c] + Size
    BY <1>4, <1>5, <2>1
  <2>2. CASE n # pos[c] + Size
    <3>1. dequeuePos <= n
      BY DEF RingInv, WindowInv
    <3>. QED  BY <1>3, <1>5, <2>2, <3>1, SlotType DEF RingInv, FreeInv
  <2>. QED  BY <2>1, <2>2
<1>12. ClaimInv'
  <2>1. ASSUME NEW p \in Producers, pc'[p] = "e_cas", pos'[p] = enqueuePos'
        PROVE  sequence'[Slot(pos'[p])] = pos'[p]
    <3>1. pc[p] = "e_cas" /\ pos[p] = enqueuePos
      BY <1>1, <2>1
    <3>2. enqueuePos < dequeuePos + Size /\ enqueuePos < pos[c] + Size
      BY <1>1, <3>1, ClaimHasRoom DEF Takes
    <3>3. Slot(enqueuePos) # own
      BY <1>2, <1>3, <3>2 DEF RingInv, WindowInv
    <3>. QED  BY <1>1, <1>5, <3>1, <3>3, SlotType DEF RingInv, ClaimInv
  <2>2. ASSUME NEW d \in Consumers, pc'[d] = "d_cas", pos'[d] = dequeuePos'
        PROVE  sequence'[Slot(pos'[d])] = pos'[d] + 1
    <3>1. pc[d] = "d_cas" /\ pos[d] = dequeuePos
      BY <1>1, <2>2
    <3>2. dequeuePos < enqueuePos
      BY <3>1, ClaimHasTask
    <3>3. Slot(dequeuePos) # own
      BY <1>2, <1>3, <3>2 DEF RingInv, WindowInv
    <3>. QED  BY <1>1, <1>5, <3>1, <3>3, SlotType DEF RingInv, ClaimInv
  <2>3. /\ \A p \in Producers : pc'[p] \in {"e_seq", "e_cas"} => pos'[p] <= enqueuePos'
        /\ \A d \in Consumers : pc'[d] \in {"d_seq", "d_cas"} => pos'[d] <= dequeuePos'
    BY <1>1 DEF RingInv, ClaimInv
  <2>. QED  BY <2>1, <2>2, <2>3 DEF ClaimInv
<1>. QED  BY <1>7, <1>8, <1>9, <1>10, <1>11, <1>12 DEF RingInv

\* The remaining actions move no counter, no sequence and no owner.
LEMMA RingOther ==
    ASSUME Size > 1, TypeInv, RingInv, NEW t \in Threads,
           \/ t \in Producers /\ (\/ EnqueueCall(t) \/ EnqueueReadSequence(t)
                                  \/ EnqueueLoseClaim(t) \/ EnqueueReload(t)
                                  \/ EnqueueWrite(t) \/ LoadSize(t))
           \/ t \in Consumers /\ (\/ DequeueCall(t) \/ DequeueReadSequence(t)
                                  \/ DequeueLoseClaim(t) \/ DequeueReload(t)
                                  \/ DequeueRead(t))
    PROVE  RingInv'
<1>. USE SizeAssumption, ThreadsAssumption DEF TypeInv, TypeOK, Threads, Goto
<1>1. /\ UNCHANGED <<enqueuePos, dequeuePos, sequence>>
      /\ \A u \in Threads : u # t => pc'[u] = pc[u] /\ pos'[u] = pos[u]
  BY DEF EnqueueCall, EnqueueReadSequence, EnqueueLoseClaim, EnqueueReload,
         EnqueueWrite, LoadSize, DequeueCall, DequeueReadSequence,
         DequeueLoseClaim, DequeueReload, DequeueRead
<1>2. /\ Adds(t)' <=> Adds(t)
      /\ Takes(t)' <=> Takes(t)
      /\ Adds(t) \/ Takes(t) => pos'[t] = pos[t]
  BY DEF EnqueueCall, EnqueueReadSequence, EnqueueLoseClaim, EnqueueReload,
         EnqueueWrite, LoadSize, DequeueCall, DequeueReadSequence,
         DequeueLoseClaim, DequeueReload, DequeueRead, Adds, Takes
<1>3. /\ WindowInv' /\ AdderInv' /\ TakerInv' /\ FilledInv' /\ FreeInv'
  <2>1. \A u \in Threads : /\ Adds(u)' <=> Adds(u)
                           /\ Takes(u)' <=> Takes(u)
                           /\ Adds(u) \/ Takes(u) => pos'[u] = pos[u]
    BY <1>1, <1>2 DEF Adds, Takes
  <2>. QED  BY <1>1, <2>1, SameRing
<1>4. ClaimInv'
  BY <1>1
     DEF RingInv, ClaimInv, EnqueueCall, EnqueueReadSequence, EnqueueLoseClaim,
         EnqueueReload, EnqueueWrite, LoadSize, DequeueCall,
         DequeueReadSequence, DequeueLoseClaim, DequeueReload, DequeueRead
<1>. QED  BY <1>3, <1>4 DEF RingInv

LEMMA RingStep ==
    ASSUME Size > 1, TypeInv, RingInv, [Next]_vars
    PROVE  RingInv'
<1>1. CASE UNCHANGED vars
  BY <1>1 DEF vars, RingInv, WindowInv, AdderInv, TakerInv, FilledInv, FreeInv,
              ClaimInv, Adds, Takes
<1>2. ASSUME NEW p \in Producers, Enqueue(p) \/ LoadSize(p) PROVE RingInv'
  BY <1>2, RingEnqueueClaim, RingEnqueuePublish, RingOther DEF Enqueue, Threads
<1>3. ASSUME NEW c \in Consumers, Dequeue(c) PROVE RingInv'
  BY <1>3, RingDequeueClaim, RingDequeueRelease, RingOther DEF Dequeue, Threads
<1>. QED  BY <1>1, <1>2, <1>3 DEF Next

\* Mutual exclusion on the slots: in a ring of at least two slots, with any
\* number of producers and consumers, no two threads ever are between claim and
\* release of the same slot.
THEOREM SlotsAreExclusive ==
    ASSUME Size > 1
    PROVE  Spec => []SlotExclusive
<1>1. Init => TypeInv /\ RingInv
  BY TypeInit, RingInit
<1>2. TypeInv /\ RingInv /\ [Next]_vars => (TypeInv /\ RingInv)'
  BY TypeStep, RingStep
<1>3. TypeInv /\ RingInv => SlotExclusive
  BY OwnersApart DEF SlotExclusive
<1>. QED  BY <1>1, <1>2, <1>3, PTL DEF Spec

-----------------------------------------------------------------------------
(* size(): a head loaded earlier is never ahead of the tail.                *)

SizeInv ==
    \A p \in Producers :
        /\ pc[p] = "idle" => pos[p] >= 0
        /\ pc[p] = "s_tail" => 0 <= pos[p] /\ pos[p] <= dequeuePos

LEMMA SizeStep ==
    ASSUME TypeInv, RingInv, SizeInv, [Next]_vars
    PROVE  SizeInv'
<1>. USE ThreadsAssumption
     DEF TypeInv, TypeOK, CallInv, Threads, SizeInv, Goto, ConsumerPc
<1>1. ASSUME NEW p \in Producers, Enqueue(p) PROVE SizeInv'
  BY <1>1 DEF Enqueue, EnqueueCall, EnqueueReadSequence, EnqueueClaim,
              EnqueueLoseClaim, EnqueueReload, EnqueueWrite, EnqueuePublish
<1>2. ASSUME NEW p \in Producers, LoadSize(p) PROVE SizeInv'
  <2>1. CASE pc[p] = "idle"
    BY <1>2, <2>1 DEF LoadSize
  <2>2. CASE pc[p] = "s_tail"
    <3>1. enqueuePos - pos[p] >= 0
      BY <2>2 DEF RingInv, WindowInv
    <3>. QED  BY <1>2, <2>2, <3>1 DEF LoadSize
  <2>. QED  BY <1>2, <2>1, <2>2 DEF LoadSize
<1>3. ASSUME NEW c \in Consumers, Dequeue(c) PROVE SizeInv'
  BY <1>3 DEF Dequeue, DequeueCall, DequeueReadSequence, DequeueClaim,
              DequeueLoseClaim, DequeueReload, DequeueRead, DequeueRelease
<1>4. CASE UNCHANGED vars
  BY <1>4 DEF vars
<1>. QED  BY <1>1, <1>2, <1>3, <1>4 DEF Next

\* size() and empty() never compute tail - head below zero, so the unsigned
\* length that queueInLoop compares with the water marks is never huge.
THEOREM SizeIsSafe ==
    ASSUME Size > 1
    PROVE  Spec => []SizeNeverWraps
<1>1. Init => TypeInv /\ RingInv /\ SizeInv
  BY TypeInit, RingInit DEF Init, SizeInv, Threads
<1>2. TypeInv /\ RingInv /\ SizeInv /\ [Next]_vars => (TypeInv /\ RingInv /\ SizeInv)'
  BY TypeStep, RingStep, SizeStep
<1>3. SizeInv => SizeNeverWraps
  BY DEF SizeInv, SizeNeverWraps
<1>. QED  BY <1>1, <1>2, <1>3, PTL DEF Spec

-----------------------------------------------------------------------------
(* The tasks: a free slot is empty, a published one is not.                 *)

FreeData ==
    \A n \in Nat : /\ enqueuePos <= n /\ n < dequeuePos + Size
                   /\ sequence[Slot(n)] = n
                   => data[Slot(n)] = Empty

FilledData ==
    \A n \in Nat : /\ dequeuePos <= n /\ n < enqueuePos
                   /\ sequence[Slot(n)] = n + 1
                   => data[Slot(n)] # Empty

OwnedData ==
    /\ \A p \in Producers : pc[p] = "e_publish" => data[Slot(pos[p])] # Empty
    /\ \A c \in Consumers :
          /\ pc[c] = "d_read" => data[Slot(pos[c])] # Empty
          /\ pc[c] = "d_release" => data[Slot(pos[c])] = Empty /\ out[c] # Empty

DataInv == FreeData /\ FilledData /\ OwnedData

LEMMA DataInit == Init => DataInv
  BY SlotType DEF Init, DataInv, FreeData, FilledData, OwnedData, Threads

LEMMA DataEnqueueWrite ==
    ASSUME TypeInv, RingInv, DataInv, NEW p \in Producers, EnqueueWrite(p)
    PROVE  DataInv'
<1>. USE SizeAssumption, ThreadsAssumption DEF TypeInv, TypeOK, Threads
<1>. DEFINE own == Slot(pos[p])
<1>1. /\ pc[p] = "e_write" /\ pc' = [pc EXCEPT ![p] = "e_publish"]
      /\ data' = [data EXCEPT ![own] = Item(p)]
      /\ UNCHANGED <<enqueuePos, dequeuePos, sequence, pos, out>>
  BY DEF EnqueueWrite, Goto
<1>2. own \in Slots /\ Item(p) # Empty
  BY <1>1, SlotType, ItemType, EmptyAssumption
<1>3. /\ dequeuePos <= pos[p] /\ pos[p] < enqueuePos
      /\ sequence[own] = pos[p]
  BY <1>1 DEF RingInv, AdderInv, Adds
<1>4. \A n \in Nat : /\ dequeuePos <= n /\ n < dequeuePos + Size /\ n # pos[p]
                     => Slot(n) # own
  BY <1>1, AdderAlone DEF Adds
<1>5. \A u \in Threads : u # p /\ Owns(u) => Slot(pos[u]) # own
  BY <1>1, OwnersApart DEF Owns
<1>. HIDE DEF own
<1>6. /\ data'[own] = Item(p)
      /\ \A s \in Slots : s # own => data'[s] = data[s]
  BY <1>1, <1>2
<1>7. FreeData'
  <2>. SUFFICES ASSUME NEW n \in Nat, enqueuePos <= n, n < dequeuePos + Size,
                       sequence[Slot(n)] = n
                PROVE  data'[Slot(n)] = Empty
    BY <1>1 DEF FreeData
  <2>1. Slot(n) # own
    BY <1>3, <1>4 DEF RingInv, WindowInv
  <2>. QED  BY <1>6, <2>1, SlotType DEF DataInv, FreeData
<1>8. FilledData'
  <2>. SUFFICES ASSUME NEW n \in Nat, dequeuePos <= n, n < enqueuePos,
                       sequence[Slot(n)] = n + 1
                PROVE  data'[Slot(n)] # Empty
    BY <1>1 DEF FilledData
  <2>. QED  BY <1>2, <1>6, SlotType DEF DataInv, FilledData
<1>9. OwnedData'
  <2>1. data'[Slot(pos[p])] # Empty
    BY <1>2, <1>6 DEF own
  <2>2. \A q \in Producers : q # p /\ pc[q] = "e_publish" => data'[Slot(pos[q])] # Empty
    BY <1>5, <1>6, SlotType DEF DataInv, OwnedData, Owns
  <2>3. \A c \in Consumers : /\ pc[c] = "d_read" => data'[Slot(pos[c])] # Empty
                             /\ pc[c] = "d_release" => data'[Slot(pos[c])] = Empty
    BY <1>5, <1>6, SlotType DEF DataInv, OwnedData, Owns
  <2>. QED  BY <1>1, <2>1, <2>2, <2>3 DEF DataInv, OwnedData
<1>. QED  BY <1>7, <1>8, <1>9 DEF DataInv

LEMMA DataDequeueRead ==
    ASSUME TypeInv, RingInv, DataInv, NEW c \in Consumers, DequeueRead(c)
    PROVE  DataInv'
<1>. USE SizeAssumption, ThreadsAssumption DEF TypeInv, TypeOK, Threads
<1>. DEFINE own == Slot(pos[c])
<1>1. /\ pc[c] = "d_read" /\ pc' = [pc EXCEPT ![c] = "d_release"]
      /\ out' = [out EXCEPT ![c] = data[own]]
      /\ data' = [data EXCEPT ![own] = Empty]
      /\ UNCHANGED <<enqueuePos, dequeuePos, sequence, pos>>
  BY DEF DequeueRead, Goto
<1>2. own \in Slots
  BY SlotType
<1>3. enqueuePos <= pos[c] + Size
  BY <1>1 DEF RingInv, TakerInv, Takes
<1>4. \A n \in Nat : /\ dequeuePos <= n /\ n < dequeuePos + Size
                     /\ n # pos[c] + Size
                     => Slot(n) # own
  BY <1>1, TakerAlone DEF Takes
<1>5. \A u \in Threads : u # c /\ Owns(u) => Slot(pos[u]) # own
  BY <1>1, OwnersApart DEF Owns
<1>6. data[own] # Empty
  BY <1>1 DEF DataInv, OwnedData
<1>. HIDE DEF own
<1>7. /\ data'[own] = Empty
      /\ \A s \in Slots : s # own => data'[s] = data[s]
  BY <1>1, <1>2
<1>8. FreeData'
  BY <1>1, <1>7, SlotType DEF DataInv, FreeData
<1>9. FilledData'
  <2>. SUFFICES ASSUME NEW n \in Nat, dequeuePos <= n, n < enqueuePos,
                       sequence[Slot(n)] = n + 1
                PROVE  data'[Slot(n)] # Empty
    BY <1>1 DEF FilledData
  <2>1. Slot(n) # own
    BY <1>3, <1>4 DEF RingInv, WindowInv
  <2>. QED  BY <1>7, <2>1, SlotType DEF DataInv, FilledData
<1>10. OwnedData'
  <2>1. data'[Slot(pos[c])] = Empty
    BY <1>7 DEF own
  <2>2. \A p \in Producers : pc[p] = "e_publish" => data'[Slot(pos[p])] # Empty
    BY <1>1, <1>5, <1>7, SlotType DEF DataInv, OwnedData, Owns
  <2>3. \A d \in Consumers : d # c =>
            /\ pc[d] = "d_read" => data'[Slot(pos[d])] # Empty
            /\ pc[d] = "d_release" => data'[Slot(pos[d])] = Empty
    BY <1>5, <1>7, SlotType DEF DataInv, OwnedData, Owns
  <2>. QED  BY <1>1, <1>6, <2>1, <2>2, <2>3 DEF DataInv, OwnedData
<1>. QED  BY <1>8, <1>9, <1>10 DEF DataInv

\* Claims move a counter, and with it one position between the two windows.
LEMMA DataClaims ==
    ASSUME Size > 1, TypeInv, RingInv, DataInv,
           \/ \E p \in Producers : EnqueueClaim(p)
           \/ \E c \in Consumers : DequeueClaim(c)
    PROVE  DataInv'
<1>. USE SizeAssumption, ThreadsAssumption DEF TypeInv, TypeOK, Threads
<1>1. ASSUME NEW p \in Producers, EnqueueClaim(p) PROVE DataInv'
  <2>1. /\ pc[p] = "e_cas" /\ pc' = [pc EXCEPT ![p] = "e_write"]
        /\ pos[p] = enqueuePos /\ enqueuePos' = enqueuePos + 1
        /\ UNCHANGED <<dequeuePos, sequence, pos, data, out>>
    BY <1>1 DEF EnqueueClaim, Goto
  <2>2. sequence[Slot(enqueuePos)] = enqueuePos
    BY <2>1 DEF RingInv, ClaimInv
  <2>3. FreeData'
    BY <2>1 DEF DataInv, FreeData
  <2>4. FilledData'
    BY <2>1, <2>2 DEF DataInv, FilledData
  <2>5. OwnedData'
    BY <2>1 DEF DataInv, OwnedData
  <2>. QED  BY <2>3, <2>4, <2>5 DEF DataInv
<1>2. ASSUME NEW c \in Consumers, DequeueClaim(c) PROVE DataInv'
  <2>1. /\ pc[c] = "d_cas" /\ pc' = [pc EXCEPT ![c] = "d_read"]
        /\ pos[c] = dequeuePos /\ dequeuePos' = dequeuePos + 1
        /\ UNCHANGED <<enqueuePos, sequence, pos, data, out>>
    BY <1>2 DEF DequeueClaim, Goto
  <2>2. dequeuePos < enqueuePos /\ sequence[Slot(dequeuePos)] = dequeuePos + 1
    BY <2>1, ClaimHasTask DEF RingInv, ClaimInv
  <2>3. FreeData'
    <3>1. sequence[Slot(dequeuePos + Size)] # dequeuePos + Size
      BY <2>2, SlotWraps, Size > 1
    <3>. QED  BY <2>1, <3>1 DEF DataInv, FreeData
  <2>4. FilledData'
    BY <2>1 DEF DataInv, FilledData
  <2>5. OwnedData'
    BY <2>1, <2>2 DEF DataInv, FilledData, OwnedData
  <2>. QED  BY <2>3, <2>4, <2>5 DEF DataInv
<1>. QED  BY <1>1, <1>2

\* Publishing and releasing store one sequence number, for one position.
LEMMA DataStores ==
    ASSUME Size > 1, TypeInv, RingInv, DataInv,
           \/ \E p \in Producers : EnqueuePublish(p)
           \/ \E c \in Consumers : DequeueRelease(c)
    PROVE  DataInv'
<1>. USE SizeAssumption, ThreadsAssumption DEF TypeInv, TypeOK, Threads
<1>1. ASSUME NEW p \in Producers, EnqueuePublish(p) PROVE DataInv'
  <2>. DEFINE own == Slot(pos[p])
  <2>1. /\ pc[p] = "e_publish" /\ pc' = [pc EXCEPT ![p] = "idle"]
        /\ sequence' = [sequence EXCEPT ![own] = pos[p] + 1]
        /\ pos' = [pos EXCEPT ![p] = 0]
        /\ UNCHANGED <<enqueuePos, dequeuePos, data, out>>
    BY <1>1 DEF EnqueuePublish, Goto
  <2>2. /\ dequeuePos <= pos[p] /\ pos[p] < enqueuePos
        /\ data[own] # Empty
    BY <2>1 DEF RingInv, AdderInv, Adds, DataInv, OwnedData
  <2>3. \A n \in Nat : /\ dequeuePos <= n /\ n < dequeuePos + Size /\ n # pos[p]
                       => sequence'[Slot(n)] = sequence[Slot(n)]
    BY <2>1, AdderAlone, SlotType DEF Adds
  <2>. HIDE DEF own
  <2>4. FreeData'
    BY <2>1, <2>2, <2>3 DEF RingInv, WindowInv, DataInv, FreeData
  <2>5. FilledData'
    BY <2>1, <2>2, <2>3 DEF RingInv, WindowInv, DataInv, FilledData, own
  <2>6. OwnedData'
    BY <2>1 DEF DataInv, OwnedData
  <2>. QED  BY <2>4, <2>5, <2>6 DEF DataInv
<1>2. ASSUME NEW c \in Consumers, DequeueRelease(c) PROVE DataInv'
  <2>. DEFINE own == Slot(pos[c])
  <2>1. /\ pc[c] = "d_release" /\ pc' = [pc EXCEPT ![c] = "idle"]
        /\ sequence' = [sequence EXCEPT ![own] = pos[c] + Size]
        /\ pos' = [pos EXCEPT ![c] = 0]
        /\ out' = [out EXCEPT ![c] = Empty]
        /\ UNCHANGED <<enqueuePos, dequeuePos, data>>
    BY <1>2 DEF DequeueRelease, Goto
  <2>2. /\ enqueuePos <= pos[c] + Size
        /\ data[own] = Empty
    BY <2>1 DEF RingInv, TakerInv, Takes, DataInv, OwnedData
  <2>3. \A n \in Nat : /\ dequeuePos <= n /\ n < dequeuePos + Size
                       /\ n # pos[c] + Size
                       => sequence'[Slot(n)] = sequence[Slot(n)]
    BY <2>1, TakerAlone, SlotType DEF Takes
  <2>4. Slot(pos[c] + Size) = own
    BY SlotWraps
  <2>. HIDE DEF own
  <2>5. FreeData'
    <3>. SUFFICES ASSUME NEW n \in Nat, enqueuePos <= n, n < dequeuePos + Size,
                         sequence'[Slot(n)] = n
                  PROVE  data[Slot(n)] = Empty
      BY <2>1 DEF FreeData
    <3>1. dequeuePos <= n
      BY DEF RingInv, WindowInv
    <3>2. CASE n = pos[c] + Size
      BY <2>2, <2>4, <3>2
    <3>3. CASE n # pos[c] + Size
      BY <2>3, <3>1, <3>3 DEF DataInv, FreeData
    <3>. QED  BY <3>2, <3>3
  <2>6. FilledData'
    BY <2>1, <2>2, <2>3 DEF RingInv, WindowInv, DataInv, FilledData
  <2>7. OwnedData'
    BY <2>1 DEF DataInv, OwnedData
  <2>. QED  BY <2>5, <2>6, <2>7 DEF DataInv
<1>. QED  BY <1>1, <1>2

LEMMA DataStep ==
    ASSUME Size > 1, TypeInv, RingInv, DataInv, [Next]_vars
    PROVE  DataInv'
<1>. USE ThreadsAssumption DEF TypeInv, TypeOK, Threads
<1>1. CASE UNCHANGED vars
  BY <1>1 DEF vars, DataInv, FreeData, FilledData, OwnedData
<1>2. ASSUME NEW p \in Producers,
             \/ EnqueueCall(p) \/ EnqueueReadSequence(p) \/ EnqueueLoseClaim(p)
             \/ EnqueueReload(p) \/ LoadSize(p)
      PROVE  DataInv'
  BY <1>2 DEF EnqueueCall, EnqueueReadSequence, EnqueueLoseClaim, EnqueueReload,
              LoadSize, Goto, DataInv, FreeData, FilledData, OwnedData
<1>3. ASSUME NEW c \in Consumers,
             \/ DequeueCall(c) \/ DequeueReadSequence(c) \/ DequeueLoseClaim(c)
             \/ DequeueReload(c)
      PROVE  DataInv'
  BY <1>3 DEF DequeueCall, DequeueReadSequence, DequeueLoseClaim, DequeueReload,
              Goto, DataInv, FreeData, FilledData, OwnedData
<1>. QED
  BY <1>1, <1>2, <1>3, DataEnqueueWrite, DataDequeueRead, DataClaims, DataStores
     DEF Next, Enqueue, Dequeue

\* In a ring of at least two slots a claim never lands on an unread task, and a
\* dequeue never hands out an empty one.
THEOREM TasksAreIntact ==
    ASSUME Size > 1
    PROVE  Spec => [](ClaimableSlotIsFree /\ TakenTaskIsReal)
<1>. DEFINE IInv == TypeInv /\ RingInv /\ DataInv
<1>1. Init => IInv
  BY TypeInit, RingInit, DataInit
<1>2. IInv /\ [Next]_vars => IInv'
  BY TypeStep, RingStep, DataStep
<1>3. IInv => ClaimableSlotIsFree
  <2>. SUFFICES ASSUME IInv, NEW p \in Producers, pc[p] = "e_cas",
                       pos[p] = enqueuePos
                PROVE  data[Slot(pos[p])] = Empty
    BY DEF ClaimableSlotIsFree
  <2>1. enqueuePos < dequeuePos + Size /\ sequence[Slot(enqueuePos)] = enqueuePos
    BY ClaimHasRoom DEF RingInv, ClaimInv
  <2>. QED  BY <2>1 DEF TypeInv, TypeOK, DataInv, FreeData
<1>4. IInv => TakenTaskIsReal
  BY DEF DataInv, OwnedData, TakenTaskIsReal
<1>. QED  BY <1>1, <1>2, <1>3, <1>4, PTL DEF Spec

-----------------------------------------------------------------------------
(* The ring implements TaskQueue                                            *)
(*                                                                          *)
(* Beyond the sequence numbers the refinement needs to know whom they speak  *)
(* of: a claimed position that still carries its own number has a producer,   *)
(* a free one that still carries the number of the last lap has a consumer.   *)
(* And no two tasks are the same: the one a producer carries is in no other   *)
(* slot than its own.                                                        *)

OwnerInv ==
    /\ \A n \in Nat : /\ dequeuePos <= n /\ n < enqueuePos
                      /\ sequence[Slot(n)] = n
                      => \E p \in Producers : Adds(p) /\ pos[p] = n
    /\ \A n \in Nat : /\ enqueuePos <= n /\ n < dequeuePos + Size
                      /\ sequence[Slot(n)] = n - Size + 1
                      => \E c \in Consumers : Takes(c) /\ pos[c] = n - Size

Inside(p) == pc[p] \notin {"idle", "s_tail"}

ItemInv ==
    /\ \A p \in Producers : pc[p] = "e_publish" => data[Slot(pos[p])] = Item(p)
    /\ \A s \in Slots : \A p \in Producers : \A k \in 1 .. MaxCalls :
          data[s] = <<p, k>> =>
              /\ k <= calls[p]
              /\ Inside(p) /\ k = calls[p] =>
                    pc[p] = "e_publish" /\ s = Slot(pos[p])

LEMMA OwnerInit == Size > 1 /\ Init => OwnerInv /\ ItemInv
<1>. SUFFICES ASSUME Size > 1, Init PROVE OwnerInv /\ ItemInv
  OBVIOUS
<1>. USE SizeAssumption
<1>1. \A n \in Nat : n < Size => sequence[Slot(n)] = n
  <2>1. \A n \in Nat : n < Size => Slot(n) = n
    BY DEF Slot
  <2>. QED  BY <2>1 DEF Slots, Init
<1>2. OwnerInv
  BY <1>1 DEF Init, OwnerInv
<1>3. ItemInv
  <2>1. \A s \in Slots : data[s] = Empty
    BY DEF Init
  <2>2. \A p \in Producers : \A k \in 1 .. MaxCalls : <<p, k>> # Empty
    BY EmptyAssumption DEF Items
  <2>. QED  BY <2>1, <2>2 DEF Init, ItemInv, Threads
<1>. QED  BY <1>2, <1>3

LEMMA OwnerEnqueueClaim ==
    ASSUME Size > 1, TypeInv, RingInv, OwnerInv, NEW p \in Producers, EnqueueClaim(p)
    PROVE  OwnerInv'
<1>. USE SizeAssumption, ThreadsAssumption DEF TypeInv, TypeOK, Threads
<1>1. /\ pc[p] = "e_cas" /\ pc' = [pc EXCEPT ![p] = "e_write"]
      /\ pos[p] = enqueuePos /\ enqueuePos' = enqueuePos + 1
      /\ UNCHANGED <<dequeuePos, sequence, pos>>
  BY DEF EnqueueClaim, Goto
<1>2. /\ \A q \in Producers : Adds(q) => Adds(q)'
      /\ Adds(p)' /\ pos'[p] = enqueuePos
      /\ \A c \in Consumers : Takes(c) => Takes(c)'
  BY <1>1 DEF Adds, Takes
<1>3. ASSUME NEW n \in Nat, dequeuePos <= n, n < enqueuePos', sequence[Slot(n)] = n
      PROVE  \E q \in Producers : Adds(q)' /\ pos'[q] = n
  <2>1. CASE n = enqueuePos
    BY <1>2, <2>1
  <2>2. CASE n < enqueuePos
    <3>1. PICK q \in Producers : Adds(q) /\ pos[q] = n
      BY <1>3, <2>2 DEF OwnerInv
    <3>. QED  BY <1>1, <1>2, <3>1
  <2>. QED  BY <1>1, <1>3, <2>1, <2>2
<1>4. ASSUME NEW n \in Nat, enqueuePos' <= n, n < dequeuePos + Size,
             sequence[Slot(n)] = n - Size + 1
      PROVE  \E c \in Consumers : Takes(c)' /\ pos'[c] = n - Size
  <2>1. PICK c \in Consumers : Takes(c) /\ pos[c] = n - Size
    BY <1>1, <1>4 DEF OwnerInv
  <2>. QED  BY <1>1, <1>2, <2>1
<1>. QED  BY <1>1, <1>3, <1>4 DEF OwnerInv

LEMMA OwnerDequeueClaim ==
    ASSUME Size > 1, TypeInv, RingInv, OwnerInv, NEW c \in Consumers, DequeueClaim(c)
    PROVE  OwnerInv'
<1>. USE SizeAssumption, ThreadsAssumption DEF TypeInv, TypeOK, Threads
<1>1. /\ pc[c] = "d_cas" /\ pc' = [pc EXCEPT ![c] = "d_read"]
      /\ pos[c] = dequeuePos /\ dequeuePos' = dequeuePos + 1
      /\ UNCHANGED <<enqueuePos, sequence, pos>>
  BY DEF DequeueClaim, Goto
<1>2. /\ \A q \in Producers : Adds(q) => Adds(q)'
      /\ Takes(c)' /\ pos'[c] = dequeuePos
      /\ \A d \in Consumers : Takes(d) => Takes(d)'
  BY <1>1 DEF Adds, Takes
<1>3. ASSUME NEW n \in Nat, dequeuePos' <= n, n < enqueuePos, sequence[Slot(n)] = n
      PROVE  \E q \in Producers : Adds(q)' /\ pos'[q] = n
  <2>1. PICK q \in Producers : Adds(q) /\ pos[q] = n
    BY <1>1, <1>3 DEF OwnerInv
  <2>. QED  BY <1>1, <1>2, <2>1
<1>4. ASSUME NEW n \in Nat, enqueuePos <= n, n < dequeuePos' + Size,
             sequence[Slot(n)] = n - Size + 1
      PROVE  \E d \in Consumers : Takes(d)' /\ pos'[d] = n - Size
  <2>1. CASE n = dequeuePos + Size
    BY <1>2, <2>1
  <2>2. CASE n < dequeuePos + Size
    <3>1. PICK d \in Consumers : Takes(d) /\ pos[d] = n - Size
      BY <1>4, <2>2 DEF OwnerInv
    <3>. QED  BY <1>1, <1>2, <3>1
  <2>. QED  BY <1>1, <1>4, <2>1, <2>2
<1>. QED  BY <1>1, <1>3, <1>4 DEF OwnerInv

LEMMA OwnerEnqueuePublish ==
    ASSUME Size > 1, TypeInv, RingInv, OwnerInv, NEW p \in Producers, EnqueuePublish(p)
    PROVE  OwnerInv'
<1>. USE SizeAssumption, ThreadsAssumption DEF TypeInv, TypeOK, Threads
<1>1. /\ pc[p] = "e_publish" /\ pc' = [pc EXCEPT ![p] = "idle"]
      /\ sequence' = [sequence EXCEPT ![Slot(pos[p])] = pos[p] + 1]
      /\ pos' = [pos EXCEPT ![p] = 0]
      /\ UNCHANGED <<enqueuePos, dequeuePos>>
  BY DEF EnqueuePublish, Goto
<1>2. /\ dequeuePos <= pos[p] /\ pos[p] < enqueuePos /\ Adds(p)
      /\ enqueuePos <= dequeuePos + Size
  BY <1>1 DEF RingInv, WindowInv, AdderInv, Adds
<1>3. /\ \A q \in Producers : Adds(q) /\ q # p => Adds(q)'
      /\ \A c \in Consumers : Takes(c) => Takes(c)'
  BY <1>1 DEF Adds, Takes
<1>4. sequence'[Slot(pos[p])] = pos[p] + 1
  BY <1>1, SlotType
<1>5. \A n \in Nat : dequeuePos <= n /\ n < dequeuePos + Size /\ n # pos[p] =>
          sequence'[Slot(n)] = sequence[Slot(n)]
  BY <1>1, <1>2, AdderAlone, SlotType
<1>6. ASSUME NEW n \in Nat, dequeuePos <= n, n < enqueuePos, sequence'[Slot(n)] = n
      PROVE  \E q \in Producers : Adds(q)' /\ pos'[q] = n
  <2>1. n # pos[p]
    BY <1>4, <1>6
  <2>2. sequence[Slot(n)] = n
    BY <1>2, <1>5, <1>6, <2>1
  <2>3. PICK q \in Producers : Adds(q) /\ pos[q] = n
    BY <1>6, <2>2 DEF OwnerInv
  <2>. QED  BY <1>1, <1>3, <2>1, <2>3
<1>7. ASSUME NEW n \in Nat, enqueuePos <= n, n < dequeuePos + Size,
             sequence'[Slot(n)] = n - Size + 1
      PROVE  \E c \in Consumers : Takes(c)' /\ pos'[c] = n - Size
  <2>1. n # pos[p] /\ dequeuePos <= n
    BY <1>2, <1>7
  <2>2. sequence[Slot(n)] = n - Size + 1
    BY <1>5, <1>7, <2>1
  <2>3. PICK c \in Consumers : Takes(c) /\ pos[c] = n - Size
    BY <1>7, <2>2 DEF OwnerInv
  <2>. QED  BY <1>1, <1>3, <2>3
<1>. QED  BY <1>1, <1>6, <1>7 DEF OwnerInv

LEMMA OwnerDequeueRelease ==
    ASSUME Size > 1, TypeInv, RingInv, OwnerInv, NEW c \in Consumers, DequeueRelease(c)
    PROVE  OwnerInv'
<1>. USE SizeAssumption, ThreadsAssumption DEF TypeInv, TypeOK, Threads
<1>1. /\ pc[c] = "d_release" /\ pc' = [pc EXCEPT ![c] = "idle"]
      /\ sequence' = [sequence EXCEPT ![Slot(pos[c])] = pos[c] + Size]
      /\ pos' = [pos EXCEPT ![c] = 0]
      /\ UNCHANGED <<enqueuePos, dequeuePos>>
  BY DEF DequeueRelease, Goto
<1>2. /\ enqueuePos <= pos[c] + Size /\ pos[c] < dequeuePos /\ Takes(c)
      /\ dequeuePos <= enqueuePos /\ enqueuePos <= dequeuePos + Size
  BY <1>1 DEF RingInv, WindowInv, TakerInv, Takes
<1>3. /\ \A q \in Producers : Adds(q) => Adds(q)'
      /\ \A d \in Consumers : Takes(d) /\ d # c => Takes(d)'
  BY <1>1 DEF Adds, Takes
<1>4. sequence'[Slot(pos[c] + Size)] = pos[c] + Size
  BY <1>1, SlotType, SlotWraps
<1>5. \A n \in Nat : dequeuePos <= n /\ n < dequeuePos + Size /\ n # pos[c] + Size =>
          sequence'[Slot(n)] = sequence[Slot(n)]
  BY <1>1, <1>2, TakerAlone, SlotType
<1>6. ASSUME NEW n \in Nat, dequeuePos <= n, n < enqueuePos, sequence'[Slot(n)] = n
      PROVE  \E q \in Producers : Adds(q)' /\ pos'[q] = n
  <2>1. n # pos[c] + Size /\ n < dequeuePos + Size
    BY <1>2, <1>6
  <2>2. sequence[Slot(n)] = n
    BY <1>5, <1>6, <2>1
  <2>3. PICK q \in Producers : Adds(q) /\ pos[q] = n
    BY <1>6, <2>2 DEF OwnerInv
  <2>. QED  BY <1>1, <1>3, <2>3
<1>7. ASSUME NEW n \in Nat, enqueuePos <= n, n < dequeuePos + Size,
             sequence'[Slot(n)] = n - Size + 1
      PROVE  \E d \in Consumers : Takes(d)' /\ pos'[d] = n - Size
  <2>1. n # pos[c] + Size
    BY <1>4, <1>7
  <2>2. sequence[Slot(n)] = n - Size + 1
    BY <1>2, <1>5, <1>7, <2>1
  <2>3. PICK d \in Consumers : Takes(d) /\ pos[d] = n - Size
    BY <1>7, <2>2 DEF OwnerInv
  <2>4. d # c
    BY <2>1, <2>3
  <2>. QED  BY <1>1, <1>3, <2>3, <2>4
<1>. QED  BY <1>1, <1>6, <1>7 DEF OwnerInv

LEMMA OwnerStep ==
    ASSUME Size > 1, TypeInv, RingInv, OwnerInv, [Next]_vars
    PROVE  OwnerInv'
<1>1. ASSUME UNCHANGED <<enqueuePos, dequeuePos, sequence>>,
             \A t \in Threads : (Adds(t) => Adds(t)') /\ (Takes(t) => Takes(t)'),
             \A t \in Threads : Adds(t) \/ Takes(t) => pos'[t] = pos[t]
      PROVE  OwnerInv'
  <2>1. ASSUME NEW n \in Nat, dequeuePos <= n, n < enqueuePos, sequence[Slot(n)] = n
        PROVE  \E q \in Producers : Adds(q)' /\ pos'[q] = n
    <3>1. PICK q \in Producers : Adds(q) /\ pos[q] = n
      BY <2>1 DEF OwnerInv
    <3>. QED  BY <1>1, <3>1 DEF Threads
  <2>2. ASSUME NEW n \in Nat, enqueuePos <= n, n < dequeuePos + Size,
               sequence[Slot(n)] = n - Size + 1
        PROVE  \E d \in Consumers : Takes(d)' /\ pos'[d] = n - Size
    <3>1. PICK d \in Consumers : Takes(d) /\ pos[d] = n - Size
      BY <2>2 DEF OwnerInv
    <3>. QED  BY <1>1, <3>1 DEF Threads
  <2>. QED  BY <1>1, <2>1, <2>2 DEF OwnerInv
<1>2. ASSUME NEW t \in Threads,
             \/ t \in Producers /\ (\/ EnqueueCall(t) \/ EnqueueReadSequence(t)
                                    \/ EnqueueLoseClaim(t) \/ EnqueueReload(t)
                                    \/ EnqueueWrite(t) \/ LoadSize(t))
             \/ t \in Consumers /\ (\/ DequeueCall(t) \/ DequeueReadSequence(t)
                                    \/ DequeueLoseClaim(t) \/ DequeueReload(t)
                                    \/ DequeueRead(t))
      PROVE  OwnerInv'
  <2>. USE DEF TypeInv, TypeOK, Threads, Goto
  <2>1. /\ UNCHANGED <<enqueuePos, dequeuePos, sequence>>
        /\ \A u \in Threads : u # t => pc'[u] = pc[u] /\ pos'[u] = pos[u]
    BY <1>2 DEF EnqueueCall, EnqueueReadSequence, EnqueueLoseClaim, EnqueueReload,
           EnqueueWrite, LoadSize, DequeueCall, DequeueReadSequence,
           DequeueLoseClaim, DequeueReload, DequeueRead
  <2>2. /\ Adds(t) => Adds(t)'
        /\ Takes(t) => Takes(t)'
        /\ Adds(t) \/ Takes(t) => pos'[t] = pos[t]
    BY <1>2 DEF EnqueueCall, EnqueueReadSequence, EnqueueLoseClaim, EnqueueReload,
           EnqueueWrite, LoadSize, DequeueCall, DequeueReadSequence,
           DequeueLoseClaim, DequeueReload, DequeueRead, Adds, Takes
  <2>3. \A u \in Threads : /\ (Adds(u) => Adds(u)') /\ (Takes(u) => Takes(u)')
                           /\ Adds(u) \/ Takes(u) => pos'[u] = pos[u]
    BY <2>1, <2>2 DEF Adds, Takes
  <2>. QED  BY <1>1, <2>1, <2>3
<1>3. CASE UNCHANGED vars
  BY <1>1, <1>3 DEF vars, Adds, Takes
<1>. QED
  BY <1>2, <1>3, OwnerEnqueueClaim, OwnerDequeueClaim, OwnerEnqueuePublish,
     OwnerDequeueRelease DEF Next, Enqueue, Dequeue, Threads

\* The tasks the slots hold, when one slot is emptied or none changes.
LEMMA ItemStays ==
    ASSUME TypeInv, RingInv, ItemInv,
           \A s \in Slots : data'[s] \in {data[s], Empty},
           \A p \in Producers :
              pc'[p] = "e_publish" =>
                  /\ pc[p] = "e_publish" /\ pos'[p] = pos[p]
                  /\ data'[Slot(pos[p])] = data[Slot(pos[p])],
           \A p \in Producers :
              \/ /\ calls'[p] = calls[p]
                 /\ Inside(p)' => Inside(p)
                 /\ pc[p] = "e_publish" /\ Inside(p)' =>
                        pc'[p] = "e_publish" /\ pos'[p] = pos[p]
              \/ calls'[p] = calls[p] + 1 /\ pc'[p] # "e_publish"
    PROVE  ItemInv'
<1>. USE DEF TypeInv, TypeOK, Threads
<1>1. \A p \in Producers : pc'[p] = "e_publish" => data'[Slot(pos'[p])] = Item(p)'
  <2>. SUFFICES ASSUME NEW p \in Producers, pc'[p] = "e_publish"
                PROVE  data'[Slot(pos'[p])] = Item(p)'
    OBVIOUS
  <2>1. /\ pc[p] = "e_publish" /\ pos'[p] = pos[p]
        /\ data'[Slot(pos[p])] = data[Slot(pos[p])]
    OBVIOUS
  <2>2. data[Slot(pos[p])] = Item(p)
    BY <2>1 DEF ItemInv
  <2>3. calls'[p] = calls[p]
    OBVIOUS
  <2>. QED  BY <2>1, <2>2, <2>3 DEF Item
<1>2. ASSUME NEW s \in Slots, NEW p \in Producers, NEW k \in 1 .. MaxCalls,
             data'[s] = <<p, k>>
      PROVE  /\ k <= calls'[p]
             /\ Inside(p)' /\ k = calls'[p] => pc'[p] = "e_publish" /\ s = Slot(pos'[p])
  <2>1. data[s] = <<p, k>>
    BY <1>2, EmptyAssumption DEF Items
  <2>2. /\ k <= calls[p]
        /\ Inside(p) /\ k = calls[p] => pc[p] = "e_publish" /\ s = Slot(pos[p])
    BY <2>1 DEF ItemInv
  <2>3. calls[p] \in Int /\ k \in Int
    OBVIOUS
  <2>4. CASE calls'[p] = calls[p] + 1
    BY <2>2, <2>3, <2>4
  <2>5. CASE /\ calls'[p] = calls[p]
             /\ Inside(p)' => Inside(p)
             /\ pc[p] = "e_publish" /\ Inside(p)' =>
                    pc'[p] = "e_publish" /\ pos'[p] = pos[p]
    BY <2>2, <2>5, Zenon
  <2>. QED  BY <2>4, <2>5
<1>. QED  BY <1>1, <1>2 DEF ItemInv

LEMMA ItemStep ==
    ASSUME Size > 1, TypeInv, RingInv, ItemInv, [Next]_vars
    PROVE  ItemInv'
<1>. USE ThreadsAssumption DEF TypeInv, TypeOK, Threads, Goto
<1>1. ASSUME NEW p \in Producers,
             \/ EnqueueCall(p) \/ EnqueueReadSequence(p) \/ EnqueueClaim(p)
             \/ EnqueueLoseClaim(p) \/ EnqueueReload(p) \/ EnqueuePublish(p) \/ LoadSize(p)
      PROVE  ItemInv'
  <2>1. data' = data /\ \A q \in Producers : q # p => /\ pc'[q] = pc[q] /\ pos'[q] = pos[q]
                                                       /\ calls'[q] = calls[q]
    BY <1>1 DEF EnqueueCall, EnqueueReadSequence, EnqueueClaim, EnqueueLoseClaim,
           EnqueueReload, EnqueuePublish, LoadSize
  <2>2. /\ pc'[p] # "e_publish"
        /\ \/ /\ calls'[p] = calls[p]
              /\ Inside(p)' => Inside(p)
              /\ pc[p] = "e_publish" => ~Inside(p)'
           \/ calls'[p] = calls[p] + 1
    BY <1>1 DEF EnqueueCall, EnqueueReadSequence, EnqueueClaim, EnqueueLoseClaim,
           EnqueueReload, EnqueuePublish, LoadSize, Inside
  <2>3. \A q \in Producers : q # p => (Inside(q)' <=> Inside(q))
    BY <2>1 DEF Inside
  <2>. QED  BY <2>1, <2>2, <2>3, ItemStays
<1>2. ASSUME NEW c \in Consumers, Dequeue(c) PROVE ItemInv'
  <2>1. \A p \in Producers : /\ pc'[p] = pc[p] /\ pos'[p] = pos[p]
                             /\ calls'[p] = calls[p] /\ (Inside(p)' <=> Inside(p))
    BY <1>2 DEF Dequeue, DequeueCall, DequeueReadSequence, DequeueClaim, DequeueLoseClaim,
           DequeueReload, DequeueRead, DequeueRelease, Inside
  <2>2. CASE ~DequeueRead(c)
    <3>1. data' = data
      BY <1>2, <2>2 DEF Dequeue, DequeueCall, DequeueReadSequence, DequeueClaim,
         DequeueLoseClaim, DequeueReload, DequeueRelease
    <3>. QED  BY <2>1, <3>1, ItemStays
  <2>3. CASE DequeueRead(c)
    <3>1. pc[c] = "d_read" /\ data' = [data EXCEPT ![Slot(pos[c])] = Empty]
      BY <2>3 DEF DequeueRead
    <3>2. \A p \in Producers : pc[p] = "e_publish" =>
              Slot(pos[p]) # Slot(pos[c]) /\ Slot(pos[p]) \in Slots
      BY <3>1, OwnersApart, SlotType DEF Owns
    <3>. QED  BY <2>1, <3>1, <3>2, ItemStays
  <2>. QED  BY <2>2, <2>3
<1>3. ASSUME NEW p \in Producers, EnqueueWrite(p) PROVE ItemInv'
  <2>1. /\ pc[p] = "e_write" /\ pc' = [pc EXCEPT ![p] = "e_publish"]
        /\ data' = [data EXCEPT ![Slot(pos[p])] = Item(p)]
        /\ UNCHANGED <<pos, calls>> /\ Slot(pos[p]) \in Slots
    BY <1>3, SlotType DEF EnqueueWrite
  <2>2. \A q \in Producers : q # p /\ pc[q] = "e_publish" => Slot(pos[q]) # Slot(pos[p])
    BY <2>1, OwnersApart DEF Owns
  <2>3. \A q \in Producers : Item(q)' = Item(q)
    BY <2>1 DEF Item
  <2>4. ASSUME NEW q \in Producers, pc'[q] = "e_publish"
        PROVE  data'[Slot(pos'[q])] = Item(q)'
    <3>1. CASE q = p
      BY <2>1, <2>3, <3>1
    <3>2. CASE q # p
      <4>1. pc[q] = "e_publish" /\ data'[Slot(pos[q])] = data[Slot(pos[q])]
        BY <2>1, <2>2, <2>4, <3>2, SlotType
      <4>. QED  BY <2>1, <2>3, <4>1 DEF ItemInv
    <3>. QED  BY <3>1, <3>2
  <2>5. ASSUME NEW s \in Slots, NEW q \in Producers, NEW k \in 1 .. MaxCalls,
               data'[s] = <<q, k>>
        PROVE  /\ k <= calls'[q]
               /\ Inside(q)' /\ k = calls'[q] => pc'[q] = "e_publish" /\ s = Slot(pos'[q])
    <3>1. CASE s = Slot(pos[p])
      <4>1. <<q, k>> = <<p, calls[p]>>
        BY <2>1, <2>5, <3>1 DEF Item
      <4>2. q = p /\ k = calls[p]
        BY <4>1
      <4>. QED  BY <2>1, <3>1, <4>2
    <3>2. CASE s # Slot(pos[p])
      <4>1. data[s] = <<q, k>>
        BY <2>1, <2>5, <3>2
      <4>2. /\ k <= calls[q]
            /\ Inside(q) /\ k = calls[q] => pc[q] = "e_publish" /\ s = Slot(pos[q])
        BY <4>1 DEF ItemInv
      <4>. QED  BY <2>1, <3>2, <4>2 DEF Inside
    <3>. QED  BY <3>1, <3>2
  <2>. QED  BY <2>4, <2>5 DEF ItemInv
<1>4. CASE UNCHANGED vars
  <2>1. UNCHANGED <<data, pc, pos, calls>>
    BY <1>4 DEF vars
  <2>. QED  BY <2>1, ItemStays DEF Inside
<1>. QED  BY <1>1, <1>2, <1>3, <1>4 DEF Next, Enqueue

-----------------------------------------------------------------------------
(* The refinement mapping                                                   *)

Writing(p, n) == pc[p] = "e_write" /\ pos[p] = n

PlacedInv ==
    \A n \in Nat :
        /\ \A p \in Producers : Writing(p, n) => Placed(n) = Item(p)
        /\ (\A p \in Producers : ~Writing(p, n)) => Placed(n) = data[Slot(n)]

LEMMA PlacedIs == TypeInv /\ RingInv => PlacedInv
<1>. SUFFICES ASSUME TypeInv, RingInv, NEW n \in Nat
              PROVE  /\ \A p \in Producers : Writing(p, n) => Placed(n) = Item(p)
                     /\ (\A p \in Producers : ~Writing(p, n)) => Placed(n) = data[Slot(n)]
  BY DEF PlacedInv
<1>. DEFINE writers == {p \in Producers : pc[p] = "e_write" /\ pos[p] = n}
<1>1. ASSUME NEW p \in Producers, Writing(p, n) PROVE Placed(n) = Item(p)
  <2>1. p \in writers
    BY <1>1 DEF Writing
  <2>2. \A q \in writers : q = p
    BY <1>1 DEF RingInv, AdderInv, Adds, Writing
  <2>3. (CHOOSE q \in writers : TRUE) = p
    BY <2>1, <2>2
  <2>. QED  BY <2>1, <2>3 DEF Placed
<1>2. ASSUME \A p \in Producers : ~Writing(p, n) PROVE Placed(n) = data[Slot(n)]
  <2>1. writers = {}
    BY <1>2 DEF Writing
  <2>. QED  BY <2>1 DEF Placed
<1>. QED  BY <1>1, <1>2

\* The task at a position stays when its writer stays, or, when it has none, the
\* content of its slot.
LEMMA PlacedStays ==
    ASSUME PlacedInv, PlacedInv', NEW n \in Nat,
           \A p \in Producers : Writing(p, n)' <=> Writing(p, n),
           \A p \in Producers : Writing(p, n) => Item(p)' = Item(p),
           (\A p \in Producers : ~Writing(p, n)) => data'[Slot(n)] = data[Slot(n)]
    PROVE  Placed(n)' = Placed(n)
<1>1. CASE \E p \in Producers : Writing(p, n)
  <2>1. PICK p \in Producers : Writing(p, n)
    BY <1>1
  <2>2. Placed(n) = Item(p)
    BY <2>1 DEF PlacedInv
  <2>3. Placed(n)' = Item(p)'
    BY <2>1 DEF PlacedInv
  <2>. QED  BY <2>1, <2>2, <2>3
<1>2. CASE \A p \in Producers : ~Writing(p, n)
  <2>1. Placed(n) = data[Slot(n)]
    BY <1>2 DEF PlacedInv
  <2>2. Placed(n)' = data'[Slot(n)]
    BY <1>2 DEF PlacedInv
  <2>. QED  BY <1>2, <2>1, <2>2
<1>. QED  BY <1>1, <1>2

LEMMA QueueStays ==
    ASSUME TypeInv, UNCHANGED <<enqueuePos, dequeuePos>>,
           \A n \in Nat : dequeuePos <= n /\ n < enqueuePos => Placed(n)' = Placed(n)
    PROVE  PlacedQueue' = PlacedQueue
<1>1. \A i \in 1 .. enqueuePos - dequeuePos :
          /\ dequeuePos + i - 1 \in Nat
          /\ dequeuePos <= dequeuePos + i - 1 /\ dequeuePos + i - 1 < enqueuePos
  BY DEF TypeInv, TypeOK
<1>2. \A i \in 1 .. enqueuePos - dequeuePos :
          Placed(dequeuePos + i - 1)' = Placed(dequeuePos + i - 1)
  BY <1>1
<1>. QED  BY <1>2 DEF PlacedQueue

-----------------------------------------------------------------------------
(* The steps of the ring are steps of TaskQueue                              *)

Kept     == UNCHANGED <<PlacedQueue, BeingAdded, BeingTaken, ret>>
FifoNext == FIFO!TaskQueueNext

IInv == TypeInv /\ RingInv /\ DataInv /\ OwnerInv /\ ItemInv /\ PlacedInv

\* The sequence number of a slot never falls behind a position that has been
\* claimed: a thread that reads a smaller one works on the counter itself.
LEMMA PastSequence ==
    ASSUME TypeInv, RingInv, NEW n \in Nat
    PROVE  /\ n < enqueuePos => sequence[Slot(n)] \in Nat /\ sequence[Slot(n)] >= n
           /\ n < dequeuePos => sequence[Slot(n)] \in Nat /\ sequence[Slot(n)] >= n + 1
<1>. USE SizeAssumption DEF TypeInv, TypeOK
<1>1. ASSUME n < dequeuePos
      PROVE  sequence[Slot(n)] \in Nat /\ sequence[Slot(n)] >= n + 1
  <2>1. PICK m \in Nat : /\ dequeuePos <= m /\ m < dequeuePos + Size
                         /\ n + Size <= m /\ Slot(m) = Slot(n)
    BY <1>1, SlotInWindow
  <2>2. sequence[Slot(m)] \in {m, m + 1, m - Size + 1}
    BY <2>1 DEF RingInv, WindowInv, FilledInv, FreeInv
  <2>3. m \in Nat /\ m >= n + 1 /\ m - Size + 1 >= n + 1
    BY <2>1
  <2>. QED  BY <2>1, <2>2, <2>3
<1>2. ASSUME n < enqueuePos, ~(n < dequeuePos)
      PROVE  sequence[Slot(n)] \in Nat /\ sequence[Slot(n)] >= n
  <2>1. sequence[Slot(n)] \in {n, n + 1}
    BY <1>2 DEF RingInv, WindowInv, FilledInv
  <2>. QED  BY <2>1
<1>. QED  BY <1>1, <1>2

\* The task a producer has placed is the one at its position.
LEMMA PlacedByAdder ==
    ASSUME IInv, NEW p \in Producers, Adds(p)
    PROVE  Placed(pos[p]) = Item(p) /\ BeingAdded[p] = Item(p)
<1>1. pos[p] \in Nat
  BY ThreadsAssumption DEF IInv, TypeInv, TypeOK, CallInv, Adds, Threads
<1>2. BeingAdded[p] = Item(p)
  BY DEF BeingAdded, Adds
<1>3. pc[p] = "e_write" => Placed(pos[p]) = Item(p)
  <2>1. pc[p] = "e_write" => Writing(p, pos[p])
    BY DEF Writing
  <2>. QED  BY <1>1, <2>1 DEF IInv, PlacedInv
<1>4. ASSUME pc[p] = "e_publish" PROVE Placed(pos[p]) = Item(p)
  <2>1. \A q \in Producers : ~Writing(q, pos[p])
    BY <1>4 DEF IInv, RingInv, AdderInv, Adds, Writing
  <2>2. Placed(pos[p]) = data[Slot(pos[p])]
    BY <1>1, <2>1 DEF IInv, PlacedInv
  <2>. QED  BY <1>4, <2>2 DEF IInv, ItemInv
<1>. QED  BY <1>2, <1>3, <1>4 DEF Adds

\* What a producer or a consumer carries, in terms of where it is.
LEMMA Carried ==
    ASSUME IInv
    PROVE  /\ \A p \in Producers : IF Adds(p) THEN BeingAdded[p] = Item(p) /\ Item(p) # Empty
                                              ELSE BeingAdded[p] = Empty
           /\ \A c \in Consumers : Takes(c) <=> BeingTaken[c] # Empty
<1>1. \A p \in Producers : Adds(p) => Item(p) # Empty
  BY ItemType, EmptyAssumption DEF IInv, Adds
<1>2. \A p \in Producers : IF Adds(p) THEN BeingAdded[p] = Item(p)
                                      ELSE BeingAdded[p] = Empty
  BY DEF BeingAdded, Adds
<1>3. \A c \in Consumers : Takes(c) <=> BeingTaken[c] # Empty
  BY DEF IInv, DataInv, OwnedData, BeingTaken, Takes
<1>. QED  BY <1>1, <1>2, <1>3

\* The queue, seen as a sequence.
LEMMA QueueIs ==
    ASSUME IInv
    PROVE  /\ Len(PlacedQueue) = enqueuePos - dequeuePos
           /\ dequeuePos < enqueuePos => Head(PlacedQueue) = Placed(dequeuePos)
           /\ dequeuePos = enqueuePos => PlacedQueue = <<>>
           /\ dequeuePos < enqueuePos => PlacedQueue # <<>>
<1>1. /\ enqueuePos \in Nat /\ dequeuePos \in Nat
      /\ enqueuePos - dequeuePos \in Nat
  BY DEF IInv, TypeInv, TypeOK, RingInv, WindowInv
<1>2. \A i \in 1 .. enqueuePos - dequeuePos :
          PlacedQueue[i] = Placed(dequeuePos + i - 1)
  BY DEF PlacedQueue
<1>3. Len(PlacedQueue) = enqueuePos - dequeuePos
  BY <1>1 DEF PlacedQueue
<1>4. dequeuePos < enqueuePos => Head(PlacedQueue) = Placed(dequeuePos)
  <2>. SUFFICES ASSUME dequeuePos < enqueuePos
                PROVE  Head(PlacedQueue) = Placed(dequeuePos)
    OBVIOUS
  <2>1. dequeuePos + 1 - 1 = dequeuePos /\ 1 \in 1 .. enqueuePos - dequeuePos
    BY <1>1
  <2>2. PlacedQueue[1] = Placed(dequeuePos)
    BY <1>2, <2>1
  <2>. QED  BY <2>2
<1>5. dequeuePos = enqueuePos => PlacedQueue = <<>>
  BY <1>1 DEF PlacedQueue
<1>6. dequeuePos < enqueuePos => PlacedQueue # <<>>
  BY <1>1, <1>3
<1>. QED  BY <1>3, <1>4, <1>5, <1>6

Cells == Items \cup {Empty}

QueueShape ==
    /\ PlacedQueue \in Seq(Cells)
    /\ Len(PlacedQueue) = enqueuePos - dequeuePos
    /\ \A n \in Nat : dequeuePos <= n /\ n < enqueuePos =>
          PlacedQueue[n - dequeuePos + 1] = Placed(n)

LEMMA QueueType == IInv => QueueShape
<1>. SUFFICES ASSUME IInv PROVE QueueShape
  OBVIOUS
<1>1. /\ enqueuePos \in Nat /\ dequeuePos \in Nat
      /\ enqueuePos - dequeuePos \in Nat
  BY DEF IInv, TypeInv, TypeOK, RingInv, WindowInv
<1>2. ASSUME NEW n \in Nat PROVE Placed(n) \in Cells
  <2>1. CASE \E p \in Producers : Writing(p, n)
    <3>1. PICK p \in Producers : Writing(p, n)
      BY <2>1
    <3>2. Placed(n) = Item(p)
      BY <3>1 DEF IInv, PlacedInv
    <3>3. Item(p) \in Items
      BY <3>1, ItemType DEF Writing, IInv
    <3>. QED  BY <3>2, <3>3 DEF Cells
  <2>2. CASE \A p \in Producers : ~Writing(p, n)
    <3>1. Placed(n) = data[Slot(n)]
      BY <2>2 DEF IInv, PlacedInv
    <3>. QED  BY <3>1, SlotType DEF Cells, IInv, TypeInv, TypeOK
  <2>. QED  BY <2>1, <2>2
<1>3. /\ \A i \in 1 .. enqueuePos - dequeuePos :
            PlacedQueue[i] = Placed(dequeuePos + i - 1)
  BY DEF PlacedQueue
<1>4. PlacedQueue \in [1 .. enqueuePos - dequeuePos -> Cells]
  <2>1. \A i \in 1 .. enqueuePos - dequeuePos : dequeuePos + i - 1 \in Nat
    BY <1>1
  <2>2. \A i \in 1 .. enqueuePos - dequeuePos : PlacedQueue[i] \in Cells
    BY <1>2, <1>3, <2>1
  <2>. QED  BY <2>2 DEF PlacedQueue
<1>5. PlacedQueue \in Seq(Cells)
  BY <1>1, <1>4
<1>6. \A n \in Nat : dequeuePos <= n /\ n < enqueuePos =>
          PlacedQueue[n - dequeuePos + 1] = Placed(n)
  <2>1. \A n \in Nat : dequeuePos <= n /\ n < enqueuePos =>
            /\ n - dequeuePos + 1 \in 1 .. enqueuePos - dequeuePos
            /\ dequeuePos + (n - dequeuePos + 1) - 1 = n
    BY <1>1
  <2>. QED  BY <1>3, <2>1
<1>. QED  BY <1>5, <1>6, QueueIs DEF QueueShape

\* A claim appends what is placed at the counter, a take removes the head.
LEMMA QueueAppended ==
    ASSUME IInv, IInv', enqueuePos' = enqueuePos + 1, dequeuePos' = dequeuePos,
           \A n \in Nat : dequeuePos <= n /\ n < enqueuePos => Placed(n)' = Placed(n),
           NEW x, \A n \in Nat : n = enqueuePos => Placed(n)' = x
    PROVE  PlacedQueue' = Append(PlacedQueue, x)
<1>. DEFINE len == enqueuePos - dequeuePos
            longer == Append(PlacedQueue, x)
<1>1. /\ enqueuePos \in Nat /\ dequeuePos \in Nat /\ len \in Nat
      /\ enqueuePos' - dequeuePos' = len + 1
  BY DEF IInv, TypeInv, TypeOK, RingInv, WindowInv
<1>2. /\ PlacedQueue \in Seq(Cells) /\ Len(PlacedQueue) = len
      /\ \A n \in Nat : dequeuePos <= n /\ n < enqueuePos =>
            PlacedQueue[n - dequeuePos + 1] = Placed(n)
  BY QueueType DEF QueueShape
<1>3. QueueShape'
  BY QueueType, PTL
<1>4. /\ PlacedQueue' \in Seq(Cells) /\ Len(PlacedQueue') = len + 1
      /\ \A n \in Nat : dequeuePos <= n /\ n < enqueuePos + 1 =>
            PlacedQueue'[n - dequeuePos + 1] = Placed(n)'
  BY <1>1, <1>3 DEF QueueShape
<1>5. PlacedQueue'[len + 1] = x
  <2>1. enqueuePos - dequeuePos + 1 = len + 1 /\ dequeuePos <= enqueuePos
    BY <1>1
  <2>. QED  BY <1>1, <1>4, <2>1
<1>6. ASSUME NEW i \in 1 .. len PROVE PlacedQueue'[i] = PlacedQueue[i]
  <2>1. PICK n \in Nat : n = dequeuePos + i - 1
    BY <1>1
  <2>2. dequeuePos <= n /\ n < enqueuePos /\ n < enqueuePos + 1 /\ n - dequeuePos + 1 = i
    BY <1>1, <2>1
  <2>. QED  BY <1>2, <1>4, <2>2
<1>7. x \in Cells
  <2>1. len + 1 \in 1 .. len + 1
    BY <1>1
  <2>. QED  BY <1>4, <1>5, <2>1, ElementOfSeq
<1>. HIDE DEF len
<1>8. /\ longer \in Seq(Cells) /\ Len(longer) = len + 1
      /\ longer[len + 1] = x
      /\ \A i \in 1 .. len : longer[i] = PlacedQueue[i]
  BY <1>1, <1>2, <1>7
<1>. HIDE DEF longer
<1>9. \A i \in 1 .. len + 1 : PlacedQueue'[i] = longer[i]
  BY <1>1, <1>5, <1>6, <1>8
<1>10. PlacedQueue' = longer
  BY <1>4, <1>8, <1>9, SeqEqual
<1>. QED  BY <1>10 DEF longer

LEMMA QueueTailed ==
    ASSUME IInv, IInv', dequeuePos < enqueuePos,
           enqueuePos' = enqueuePos, dequeuePos' = dequeuePos + 1,
           \A n \in Nat : dequeuePos < n /\ n < enqueuePos => Placed(n)' = Placed(n)
    PROVE  PlacedQueue' = Tail(PlacedQueue)
<1>. DEFINE len == enqueuePos - dequeuePos
            shorter == Tail(PlacedQueue)
<1>1. /\ enqueuePos \in Nat /\ dequeuePos \in Nat /\ len \in Nat /\ len > 0
      /\ enqueuePos' - dequeuePos' = len - 1
  BY DEF IInv, TypeInv, TypeOK, RingInv, WindowInv
<1>2. /\ PlacedQueue \in Seq(Cells) /\ Len(PlacedQueue) = len
      /\ \A n \in Nat : dequeuePos <= n /\ n < enqueuePos =>
            PlacedQueue[n - dequeuePos + 1] = Placed(n)
  BY QueueType DEF QueueShape
<1>3. QueueShape'
  BY QueueType, PTL
<1>4. /\ PlacedQueue' \in Seq(Cells) /\ Len(PlacedQueue') = len - 1
      /\ \A n \in Nat : dequeuePos + 1 <= n /\ n < enqueuePos =>
            PlacedQueue'[n - (dequeuePos + 1) + 1] = Placed(n)'
  BY <1>1, <1>3 DEF QueueShape
<1>5. ASSUME NEW i \in 1 .. len - 1 PROVE PlacedQueue'[i] = PlacedQueue[i + 1]
  <2>1. PICK n \in Nat : n = dequeuePos + i
    BY <1>1
  <2>2. /\ dequeuePos < n /\ dequeuePos <= n /\ dequeuePos + 1 <= n /\ n < enqueuePos
        /\ n - dequeuePos + 1 = i + 1 /\ n - (dequeuePos + 1) + 1 = i
    BY <1>1, <2>1
  <2>. QED  BY <1>2, <1>4, <2>2
<1>. HIDE DEF len
<1>6. /\ shorter \in Seq(Cells) /\ Len(shorter) = len - 1
      /\ \A i \in 1 .. len - 1 : shorter[i] = PlacedQueue[i + 1]
  <2>1. PlacedQueue # <<>>
    BY <1>1, <1>2
  <2>. QED  BY <1>1, <1>2, <2>1, HeadTailProperties
<1>. HIDE DEF shorter
<1>7. \A i \in 1 .. len - 1 : PlacedQueue'[i] = shorter[i]
  BY <1>5, <1>6
<1>8. PlacedQueue' = shorter
  BY <1>4, <1>6, <1>7, SeqEqual
<1>. QED  BY <1>8 DEF shorter

\* What the mapping shows is untouched by a step that leaves the counters, the
\* slots and the threads inside them alone.
LEMMA QueueKept ==
    ASSUME IInv, IInv', UNCHANGED <<enqueuePos, dequeuePos>>,
           \A p \in Producers : pc'[p] = "e_write" <=> pc[p] = "e_write",
           \A p \in Producers : pc[p] = "e_write" =>
                                   pos'[p] = pos[p] /\ calls'[p] = calls[p],
           \A n \in Nat : dequeuePos <= n /\ n < enqueuePos =>
                             data'[Slot(n)] = data[Slot(n)]
    PROVE  PlacedQueue' = PlacedQueue
<1>1. ASSUME NEW n \in Nat, dequeuePos <= n, n < enqueuePos
      PROVE  Placed(n)' = Placed(n)
  <2>1. \A p \in Producers : Writing(p, n)' <=> Writing(p, n)
    BY DEF Writing
  <2>2. \A p \in Producers : Writing(p, n) => Item(p)' = Item(p)
    BY DEF Writing, Item
  <2>3. data'[Slot(n)] = data[Slot(n)]
    BY <1>1
  <2>4. PlacedInv /\ PlacedInv'
    BY DEF IInv
  <2>. QED  BY <2>1, <2>2, <2>3, <2>4, PlacedStays
<1>2. TypeInv
  BY DEF IInv
<1>. QED  BY <1>1, <1>2, QueueStays

LEMMA AddedKept ==
    ASSUME \A p \in Producers : Adds(p)' <=> Adds(p),
           \A p \in Producers : Adds(p) => calls'[p] = calls[p]
    PROVE  BeingAdded' = BeingAdded
<1>1. \A p \in Producers : Adds(p) => Item(p)' = Item(p)
  BY DEF Item
<1>. QED  BY <1>1 DEF BeingAdded, Adds

LEMMA TakenKept ==
    ASSUME \A c \in Consumers : Takes(c) \/ Takes(c)' =>
              /\ pc'[c] = pc[c]
              /\ data'[Slot(pos'[c])] = data[Slot(pos[c])]
              /\ out'[c] = out[c]
    PROVE  BeingTaken' = BeingTaken
<1>1. \A c \in Consumers : BeingTaken'[c] = BeingTaken[c]
  BY DEF BeingTaken, Takes
<1>. QED  BY <1>1 DEF BeingTaken

LEMMA QuietStep ==
    ASSUME IInv, IInv', UNCHANGED <<enqueuePos, dequeuePos, data, out>>,
           \A t \in Threads : Owns(t) \/ Owns(t)' =>
              pc'[t] = pc[t] /\ pos'[t] = pos[t],
           \A p \in Producers : Owns(p) => calls'[p] = calls[p]
    PROVE  UNCHANGED <<PlacedQueue, BeingAdded, BeingTaken>>
<1>. USE DEF Threads, Owns
<1>1. PlacedQueue' = PlacedQueue
  BY QueueKept
<1>2. BeingAdded' = BeingAdded
  BY AddedKept DEF Adds
<1>3. BeingTaken' = BeingTaken
  BY TakenKept DEF Takes
<1>. QED  BY <1>1, <1>2, <1>3

LEMMA FifoQuietEnqueue ==
    ASSUME IInv, IInv', NEW p \in Producers,
           \/ EnqueueCall(p) \/ EnqueueReadSequence(p) \/ EnqueueLoseClaim(p)
           \/ EnqueueReload(p) \/ LoadSize(p)
    PROVE  UNCHANGED <<PlacedQueue, BeingAdded, BeingTaken>>
<1>1. /\ UNCHANGED <<enqueuePos, dequeuePos, data, out>>
      /\ ~Owns(p) /\ ~Owns(p)'
      /\ \A t \in Threads : t # p => pc'[t] = pc[t] /\ pos'[t] = pos[t]
      /\ \A q \in Producers : q # p => calls'[q] = calls[q]
  BY DEF EnqueueCall, EnqueueReadSequence, EnqueueLoseClaim, EnqueueReload, LoadSize,
         Goto, Owns, Threads, IInv, TypeInv, TypeOK
<1>. QED  BY <1>1, QuietStep

LEMMA FifoQuietDequeue ==
    ASSUME IInv, IInv', NEW c \in Consumers,
           \/ DequeueCall(c) \/ DequeueReadSequence(c) \/ DequeueLoseClaim(c)
           \/ DequeueReload(c)
    PROVE  UNCHANGED <<PlacedQueue, BeingAdded, BeingTaken>>
<1>1. /\ UNCHANGED <<enqueuePos, dequeuePos, data, out, calls>>
      /\ ~Owns(c) /\ ~Owns(c)'
      /\ \A t \in Threads : t # c => pc'[t] = pc[t] /\ pos'[t] = pos[t]
  BY DEF DequeueCall, DequeueReadSequence, DequeueLoseClaim, DequeueReload,
         Goto, Owns, Threads, IInv, TypeInv, TypeOK
<1>. QED  BY <1>1, QuietStep

\* A producer is refused when the ring is full, or while the slot it needs is
\* still being emptied.
LEMMA FifoRefuse ==
    ASSUME IInv, IInv', NEW p \in Producers, EnqueueReadSequence(p)
    PROVE  FifoNext \/ Kept
<1>. USE SizeAssumption, ThreadsAssumption DEF TypeInv, TypeOK, Threads
<1>1. TypeInv /\ RingInv /\ OwnerInv
  BY DEF IInv
<1>2. UNCHANGED <<PlacedQueue, BeingAdded, BeingTaken>>
  BY FifoQuietEnqueue
<1>3. CASE ret' = ret
  BY <1>2, <1>3 DEF Kept
<1>4. CASE ret' # ret
  <2>1. /\ pc[p] = "e_seq" /\ sequence[Slot(pos[p])] < pos[p]
        /\ ret' = [ret EXCEPT ![p] = "no"]
    BY <1>4 DEF EnqueueReadSequence, Goto
  <2>2. pos[p] \in Nat /\ pos[p] <= enqueuePos
    BY <1>1, <2>1 DEF CallInv, RingInv, ClaimInv
  <2>3. sequence[Slot(pos[p])] \in Nat
    BY <1>1, <2>2, SlotType
  <2>4. ~(pos[p] < enqueuePos)
    BY <1>1, <2>1, <2>2, <2>3, PastSequence
  <2>5. pos[p] = enqueuePos /\ enqueuePos \in Nat /\ dequeuePos \in Nat
    BY <1>1, <2>2, <2>4
  <2>6. Len(PlacedQueue) = Size \/ \E c \in Consumers : BeingTaken[c] # Empty
    <3>1. CASE enqueuePos < dequeuePos + Size
      <4>1. sequence[Slot(enqueuePos)] = enqueuePos - Size + 1
        BY <1>1, <2>1, <2>5, <3>1 DEF RingInv, FreeInv
      <4>2. \E c \in Consumers : Takes(c)
        BY <1>1, <2>5, <3>1, <4>1 DEF OwnerInv
      <4>. QED  BY <4>2, Carried
    <3>2. CASE ~(enqueuePos < dequeuePos + Size)
      BY <1>1, <2>5, <3>2, QueueIs DEF RingInv, WindowInv
    <3>. QED  BY <3>1, <3>2
  <2>7. FIFO!Refuse(p)
    BY <1>2, <2>1, <2>6 DEF FIFO!Refuse
  <2>. QED  BY <2>7 DEF FifoNext, FIFO!TaskQueueNext
<1>. QED  BY <1>3, <1>4

\* A consumer finds nothing when the queue is empty, or while the task at its head
\* is still being written.
LEMMA FifoFindEmpty ==
    ASSUME Size > 1, IInv, IInv', NEW c \in Consumers, DequeueReadSequence(c)
    PROVE  FifoNext \/ Kept
<1>. USE SizeAssumption, ThreadsAssumption DEF TypeInv, TypeOK, Threads
<1>1. TypeInv /\ RingInv /\ OwnerInv
  BY DEF IInv
<1>2. UNCHANGED <<PlacedQueue, BeingAdded, BeingTaken>>
  BY FifoQuietDequeue
<1>3. CASE ret' = ret
  BY <1>2, <1>3 DEF Kept
<1>4. CASE ret' # ret
  <2>1. /\ pc[c] = "d_seq" /\ sequence[Slot(pos[c])] < pos[c] + 1
        /\ ret' = [ret EXCEPT ![c] = "no"]
    BY <1>4 DEF DequeueReadSequence, Goto
  <2>2. pos[c] \in Nat /\ pos[c] <= dequeuePos
    BY <1>1, <2>1 DEF CallInv, RingInv, ClaimInv
  <2>3. sequence[Slot(pos[c])] \in Nat
    BY <1>1, <2>2, SlotType
  <2>4. ~(pos[c] < dequeuePos)
    BY <1>1, <2>1, <2>2, <2>3, PastSequence
  <2>5. pos[c] = dequeuePos /\ enqueuePos \in Nat /\ dequeuePos \in Nat
    BY <1>1, <2>2, <2>4
  <2>6. PlacedQueue # <<>> => \E p \in Producers : BeingAdded[p] = Head(PlacedQueue)
    <3>1. CASE dequeuePos < enqueuePos
      <4>1. sequence[Slot(dequeuePos)] = dequeuePos
        BY <1>1, <2>1, <2>5, <3>1 DEF RingInv, FilledInv
      <4>2. PICK p \in Producers : Adds(p) /\ pos[p] = dequeuePos
        BY <1>1, <2>5, <3>1, <4>1 DEF OwnerInv
      <4>3. Placed(dequeuePos) = BeingAdded[p]
        BY <4>2, PlacedByAdder
      <4>. QED  BY <3>1, <4>3, QueueIs
    <3>2. CASE ~(dequeuePos < enqueuePos)
      BY <1>1, <2>5, <3>2, QueueIs DEF RingInv, WindowInv
    <3>. QED  BY <3>1, <3>2
  <2>7. FIFO!FindEmpty(c)
    BY <1>2, <2>1, <2>6 DEF FIFO!FindEmpty, FIFO!Unpublished
  <2>. QED  BY <2>7 DEF FifoNext, FIFO!TaskQueueNext
<1>. QED  BY <1>3, <1>4

LEMMA FifoClaim ==
    ASSUME Size > 1, IInv, IInv', NEW p \in Producers, EnqueueClaim(p)
    PROVE  FifoNext
<1>. USE SizeAssumption, ThreadsAssumption DEF TypeInv, TypeOK, Threads
<1>1. TypeInv /\ RingInv /\ PlacedInv /\ PlacedInv'
  BY DEF IInv
<1>2. /\ pc[p] = "e_cas" /\ pc' = [pc EXCEPT ![p] = "e_write"]
      /\ pos[p] = enqueuePos /\ enqueuePos' = enqueuePos + 1
      /\ UNCHANGED <<dequeuePos, data, pos, calls, out, ret>>
  BY DEF EnqueueClaim, Goto
<1>3. \A q \in Producers : Item(q)' = Item(q)
  BY <1>2 DEF Item
<1>4. \A n \in Nat : dequeuePos <= n /\ n < enqueuePos => Placed(n)' = Placed(n)
  <2>. SUFFICES ASSUME NEW n \in Nat, dequeuePos <= n, n < enqueuePos
                PROVE  Placed(n)' = Placed(n)
    OBVIOUS
  <2>1. \A q \in Producers : Writing(q, n)' <=> Writing(q, n)
    BY <1>1, <1>2 DEF Writing
  <2>. QED  BY <1>1, <1>2, <1>3, <2>1, PlacedStays
<1>5. \A n \in Nat : n = enqueuePos => Placed(n)' = Item(p)
  <2>1. \A n \in Nat : n = enqueuePos => Writing(p, n)'
    BY <1>1, <1>2 DEF Writing
  <2>. QED  BY <1>1, <1>3, <2>1 DEF PlacedInv
<1>6. PlacedQueue' = Append(PlacedQueue, Item(p))
  BY <1>2, <1>4, <1>5, QueueAppended
<1>7. BeingAdded' = [BeingAdded EXCEPT ![p] = Item(p)]
  BY <1>1, <1>2, <1>3 DEF BeingAdded
<1>8. BeingTaken' = BeingTaken
  BY <1>1, <1>2, TakenKept DEF Takes
<1>9. BeingAdded[p] = Empty
  BY <1>2 DEF BeingAdded
<1>10. Len(PlacedQueue) < Size
  <2>1. enqueuePos < dequeuePos + Size
    BY <1>1, <1>2, ClaimHasRoom
  <2>. QED  BY <1>1, <2>1, QueueIs
<1>11. Item(p) \in Items
  BY <1>1, <1>2, ItemType
<1>12. FIFO!Claim(p, Item(p))
  BY <1>2, <1>6, <1>7, <1>8, <1>9, <1>10 DEF FIFO!Claim
<1>. QED  BY <1>11, <1>12 DEF FifoNext, FIFO!TaskQueueNext

\* Writing the task into the slot is not visible.
LEMMA FifoWrite ==
    ASSUME IInv, IInv', NEW p \in Producers, EnqueueWrite(p)
    PROVE  Kept
<1>. USE SizeAssumption, ThreadsAssumption DEF TypeInv, TypeOK, Threads
<1>1. TypeInv /\ RingInv /\ PlacedInv /\ PlacedInv'
  BY DEF IInv
<1>2. /\ pc[p] = "e_write" /\ pc' = [pc EXCEPT ![p] = "e_publish"]
      /\ data' = [data EXCEPT ![Slot(pos[p])] = Item(p)]
      /\ UNCHANGED <<enqueuePos, dequeuePos, pos, calls, out, ret>>
      /\ Slot(pos[p]) \in Slots
  BY <1>1, SlotType DEF EnqueueWrite, Goto
<1>3. \A q \in Producers : Item(q)' = Item(q)
  BY <1>2 DEF Item
<1>4. Adds(p) /\ Owns(p)
  BY <1>2 DEF Adds, Owns
<1>5. ASSUME NEW n \in Nat, dequeuePos <= n, n < enqueuePos
      PROVE  Placed(n)' = Placed(n)
  <2>1. CASE n = pos[p]
    <3>1. Placed(n) = Item(p)
      BY <1>1, <1>2, <2>1 DEF PlacedInv, Writing
    <3>2. \A q \in Producers : q # p => ~(Adds(q) /\ pos[q] = n)
      BY <1>1, <1>4, <2>1 DEF RingInv, AdderInv
    <3>3. \A q \in Producers : ~Writing(q, n)'
      BY <1>1, <1>2, <3>2 DEF Writing, Adds
    <3>4. Placed(n)' = data'[Slot(n)]
      BY <1>1, <3>3 DEF PlacedInv
    <3>. QED  BY <1>1, <1>2, <2>1, <3>1, <3>4
  <2>2. CASE n # pos[p]
    <3>1. \A q \in Producers : Writing(q, n)' <=> Writing(q, n)
      BY <1>1, <1>2, <2>2 DEF Writing
    <3>2. Slot(n) # Slot(pos[p]) /\ Slot(n) \in Slots
      BY <1>1, <1>4, <1>5, <2>2, AdderAlone, SlotType DEF RingInv, WindowInv
    <3>3. data'[Slot(n)] = data[Slot(n)]
      BY <1>1, <1>2, <3>2
    <3>. QED  BY <1>1, <1>3, <3>1, <3>3, PlacedStays
  <2>. QED  BY <2>1, <2>2
<1>6. PlacedQueue' = PlacedQueue
  BY <1>1, <1>2, <1>5, QueueStays
<1>7. BeingAdded' = BeingAdded
  BY <1>1, <1>2, AddedKept DEF Adds
<1>8. BeingTaken' = BeingTaken
  <2>1. \A c \in Consumers : Takes(c) => Slot(pos[c]) # Slot(pos[p])
    BY <1>1, <1>2, <1>4, OwnersApart DEF Takes, Owns
  <2>2. \A c \in Consumers : Takes(c) => Slot(pos[c]) \in Slots
    BY <1>1, SlotType
  <2>3. \A c \in Consumers : Takes(c)' <=> Takes(c)
    BY <1>1, <1>2 DEF Takes
  <2>. QED  BY <1>1, <1>2, <2>1, <2>2, <2>3, TakenKept DEF Takes
<1>. QED  BY <1>2, <1>6, <1>7, <1>8 DEF Kept

LEMMA FifoPublish ==
    ASSUME IInv, IInv', NEW p \in Producers, EnqueuePublish(p)
    PROVE  FifoNext
<1>. USE ThreadsAssumption DEF TypeInv, TypeOK, Threads
<1>1. TypeInv
  BY DEF IInv
<1>2. /\ pc[p] = "e_publish" /\ pc' = [pc EXCEPT ![p] = "idle"]
      /\ ret' = [ret EXCEPT ![p] = "ok"]
      /\ pos' = [pos EXCEPT ![p] = 0]
      /\ UNCHANGED <<enqueuePos, dequeuePos, data, calls, out>>
  BY DEF EnqueuePublish, Goto
<1>3. PlacedQueue' = PlacedQueue
  BY <1>1, <1>2, QueueKept
<1>4. BeingTaken' = BeingTaken
  BY <1>1, <1>2, TakenKept DEF Takes
<1>5. \A q \in Producers : Item(q)' = Item(q)
  BY <1>2 DEF Item
<1>6. BeingAdded' = [BeingAdded EXCEPT ![p] = Empty]
  BY <1>1, <1>2, <1>5 DEF BeingAdded
<1>7. BeingAdded[p] # Empty
  BY <1>2, Carried DEF Adds
<1>8. FIFO!Publish(p)
  BY <1>2, <1>3, <1>4, <1>6, <1>7 DEF FIFO!Publish
<1>. QED  BY <1>8 DEF FifoNext, FIFO!TaskQueueNext

LEMMA FifoTake ==
    ASSUME Size > 1, IInv, IInv', NEW c \in Consumers, DequeueClaim(c)
    PROVE  FifoNext
<1>. USE SizeAssumption, ThreadsAssumption DEF TypeInv, TypeOK, Threads
<1>1. TypeInv /\ RingInv /\ DataInv /\ ItemInv /\ PlacedInv /\ PlacedInv'
  BY DEF IInv
<1>2. /\ pc[c] = "d_cas" /\ pc' = [pc EXCEPT ![c] = "d_read"]
      /\ pos[c] = dequeuePos /\ dequeuePos' = dequeuePos + 1
      /\ UNCHANGED <<enqueuePos, data, pos, calls, out, ret>>
  BY DEF DequeueClaim, Goto
<1>3. /\ dequeuePos < enqueuePos /\ dequeuePos \in Nat
      /\ \A p \in Producers : Adds(p) => dequeuePos < pos[p]
      /\ sequence[Slot(dequeuePos)] = dequeuePos + 1
  BY <1>1, <1>2, ClaimHasTask DEF RingInv, ClaimInv
<1>4. Head(PlacedQueue) = data[Slot(dequeuePos)] /\ PlacedQueue # <<>>
  <2>1. \A p \in Producers : ~Writing(p, dequeuePos)
    BY <1>1, <1>3 DEF Adds, Writing
  <2>2. Placed(dequeuePos) = data[Slot(dequeuePos)]
    BY <1>1, <1>3, <2>1 DEF PlacedInv
  <2>. QED  BY <1>3, <2>2, QueueIs
<1>5. data[Slot(dequeuePos)] # Empty
  BY <1>1, <1>3 DEF DataInv, FilledData
<1>6. ASSUME NEW p \in Producers PROVE BeingAdded[p] # data[Slot(dequeuePos)]
  <2>1. CASE ~Adds(p)
    BY <1>5, <2>1, Carried
  <2>2. CASE Adds(p)
    <3>1. SUFFICES ASSUME Item(p) = data[Slot(dequeuePos)] PROVE FALSE
      BY <2>2, Carried
    <3>2. Inside(p) /\ calls[p] \in 1 .. MaxCalls
      BY <1>1, <2>2, MaxCallsAssumption DEF Inside, Adds, CallInv
    <3>3. Slot(dequeuePos) \in Slots /\ data[Slot(dequeuePos)] = <<p, calls[p]>>
      BY <1>1, <3>1, SlotType DEF Item
    <3>4. Slot(dequeuePos) = Slot(pos[p])
      BY <1>1, <3>2, <3>3 DEF ItemInv
    <3>5. Slot(dequeuePos) # Slot(pos[p])
      BY <1>1, <1>3, <2>2, AdderAlone
    <3>. QED  BY <3>4, <3>5
  <2>. QED  BY <2>1, <2>2
<1>7. \A n \in Nat : dequeuePos < n /\ n < enqueuePos => Placed(n)' = Placed(n)
  <2>1. \A n \in Nat : \A p \in Producers : Writing(p, n)' <=> Writing(p, n)
    BY <1>1, <1>2 DEF Writing
  <2>2. \A p \in Producers : Item(p)' = Item(p)
    BY <1>2 DEF Item
  <2>. QED  BY <1>1, <1>2, <2>1, <2>2, PlacedStays
<1>8. PlacedQueue' = Tail(PlacedQueue)
  BY <1>2, <1>3, <1>7, QueueTailed
<1>9. BeingAdded' = BeingAdded
  BY <1>1, <1>2, AddedKept DEF Adds
<1>10. BeingTaken' = [BeingTaken EXCEPT ![c] = Head(PlacedQueue)]
  <2>1. \A d \in Consumers : BeingTaken'[d] =
            IF d = c THEN data[Slot(dequeuePos)] ELSE BeingTaken[d]
    BY <1>1, <1>2 DEF BeingTaken
  <2>. QED  BY <1>4, <2>1 DEF BeingTaken
<1>11. BeingTaken[c] = Empty
  BY <1>2 DEF BeingTaken
<1>12. FIFO!Take(c)
  BY <1>2, <1>4, <1>6, <1>8, <1>9, <1>10, <1>11 DEF FIFO!Take, FIFO!Unpublished
<1>. QED  BY <1>12 DEF FifoNext, FIFO!TaskQueueNext

\* Moving the task out of the slot is not visible.
LEMMA FifoRead ==
    ASSUME IInv, IInv', NEW c \in Consumers, DequeueRead(c)
    PROVE  Kept
<1>. USE SizeAssumption, ThreadsAssumption DEF TypeInv, TypeOK, Threads
<1>1. TypeInv /\ RingInv
  BY DEF IInv
<1>2. /\ pc[c] = "d_read" /\ pc' = [pc EXCEPT ![c] = "d_release"]
      /\ out' = [out EXCEPT ![c] = data[Slot(pos[c])]]
      /\ data' = [data EXCEPT ![Slot(pos[c])] = Empty]
      /\ UNCHANGED <<enqueuePos, dequeuePos, pos, calls, ret>>
  BY DEF DequeueRead, Goto
<1>3. Takes(c) /\ Owns(c)
  BY <1>2 DEF Takes, Owns
<1>4. PlacedQueue' = PlacedQueue
  <2>1. \A n \in Nat : dequeuePos <= n /\ n < enqueuePos =>
            /\ n < dequeuePos + Size /\ n # pos[c] + Size
    BY <1>1, <1>3 DEF RingInv, WindowInv, TakerInv
  <2>2. \A n \in Nat : dequeuePos <= n /\ n < enqueuePos =>
            Slot(n) # Slot(pos[c]) /\ Slot(n) \in Slots
    BY <1>1, <1>3, <2>1, TakerAlone, SlotType
  <2>3. \A n \in Nat : dequeuePos <= n /\ n < enqueuePos =>
            data'[Slot(n)] = data[Slot(n)]
    BY <1>1, <1>2, <2>2
  <2>. QED  BY <1>1, <1>2, <2>3, QueueKept
<1>5. BeingAdded' = BeingAdded
  BY <1>1, <1>2, AddedKept DEF Adds
<1>6. BeingTaken' = BeingTaken
  <2>1. \A d \in Consumers : d # c /\ Takes(d) =>
            Slot(pos[d]) # Slot(pos[c]) /\ Slot(pos[d]) \in Slots
    BY <1>1, <1>3, OwnersApart, SlotType DEF Takes, Owns
  <2>2. \A d \in Consumers : BeingTaken'[d] = BeingTaken[d]
    BY <1>1, <1>2, <2>1 DEF BeingTaken, Takes
  <2>. QED  BY <2>2 DEF BeingTaken
<1>. QED  BY <1>2, <1>4, <1>5, <1>6 DEF Kept

LEMMA FifoRelease ==
    ASSUME IInv, IInv', NEW c \in Consumers, DequeueRelease(c)
    PROVE  FifoNext
<1>. USE ThreadsAssumption DEF TypeInv, TypeOK, Threads
<1>1. TypeInv
  BY DEF IInv
<1>2. /\ pc[c] = "d_release" /\ pc' = [pc EXCEPT ![c] = "idle"]
      /\ ret' = [ret EXCEPT ![c] = "ok"]
      /\ pos' = [pos EXCEPT ![c] = 0]
      /\ out' = [out EXCEPT ![c] = Empty]
      /\ UNCHANGED <<enqueuePos, dequeuePos, data, calls>>
  BY DEF DequeueRelease, Goto
<1>3. PlacedQueue' = PlacedQueue
  BY <1>1, <1>2, QueueKept
<1>4. BeingAdded' = BeingAdded
  BY <1>1, <1>2, AddedKept DEF Adds
<1>5. BeingTaken' = [BeingTaken EXCEPT ![c] = Empty]
  <2>1. \A d \in Consumers : BeingTaken'[d] = IF d = c THEN Empty ELSE BeingTaken[d]
    BY <1>1, <1>2 DEF BeingTaken
  <2>. QED  BY <2>1 DEF BeingTaken
<1>6. BeingTaken[c] # Empty
  BY <1>2, Carried DEF Takes
<1>7. FIFO!Release(c)
  BY <1>2, <1>3, <1>4, <1>5, <1>6 DEF FIFO!Release
<1>. QED  BY <1>7 DEF FifoNext, FIFO!TaskQueueNext

LEMMA FifoStep ==
    ASSUME Size > 1, IInv, IInv', [Next]_vars
    PROVE  FifoNext \/ Kept
<1>1. ASSUME NEW p \in Producers, EnqueueCall(p) PROVE FifoNext
  <2>1. ret' = [ret EXCEPT ![p] = "none"] /\ p \in FIFO!Threads
    BY <1>1 DEF EnqueueCall, FIFO!Threads
  <2>2. FIFO!Call(p)
    BY <1>1, <2>1, FifoQuietEnqueue DEF FIFO!Call
  <2>. QED  BY <2>1, <2>2 DEF FifoNext, FIFO!TaskQueueNext
<1>2. ASSUME NEW c \in Consumers, DequeueCall(c) PROVE FifoNext
  <2>1. ret' = [ret EXCEPT ![c] = "none"] /\ c \in FIFO!Threads
    BY <1>2 DEF DequeueCall, FIFO!Threads
  <2>2. FIFO!Call(c)
    BY <1>2, <2>1, FifoQuietDequeue DEF FIFO!Call
  <2>. QED  BY <2>1, <2>2 DEF FifoNext, FIFO!TaskQueueNext
<1>3. ASSUME NEW p \in Producers,
             EnqueueLoseClaim(p) \/ EnqueueReload(p) \/ LoadSize(p)
      PROVE  Kept
  <2>1. ret' = ret
    BY <1>3 DEF EnqueueLoseClaim, EnqueueReload, LoadSize
  <2>. QED  BY <1>3, <2>1, FifoQuietEnqueue DEF Kept
<1>4. ASSUME NEW c \in Consumers, DequeueLoseClaim(c) \/ DequeueReload(c)
      PROVE  Kept
  <2>1. ret' = ret
    BY <1>4 DEF DequeueLoseClaim, DequeueReload
  <2>. QED  BY <1>4, <2>1, FifoQuietDequeue DEF Kept
<1>5. CASE UNCHANGED vars
  <2>1. /\ UNCHANGED <<enqueuePos, dequeuePos, data, out, ret>>
        /\ UNCHANGED <<pc, pos, calls>>
    BY <1>5 DEF vars
  <2>. QED  BY <2>1, QuietStep DEF Kept
<1>. QED
  BY <1>1, <1>2, <1>3, <1>4, <1>5, FifoRefuse, FifoFindEmpty, FifoClaim, FifoWrite,
     FifoPublish, FifoTake, FifoRead, FifoRelease DEF Next, Enqueue, Dequeue

LEMMA FifoInit == Init /\ IInv => FIFO!TaskQueueInit
<1>. SUFFICES ASSUME Init, IInv PROVE FIFO!TaskQueueInit
  OBVIOUS
<1>1. PlacedQueue = <<>>
  BY QueueIs DEF Init
<1>2. /\ BeingAdded = [p \in Producers |-> Empty]
      /\ BeingTaken = [c \in Consumers |-> Empty]
  BY DEF Init, BeingAdded, BeingTaken, Threads
<1>3. ret = [t \in FIFO!Threads |-> "none"]
  BY DEF Init, Threads, FIFO!Threads
<1>. QED  BY <1>1, <1>2, <1>3 DEF FIFO!TaskQueueInit

\* The ring of include/LockFreeQueue.hpp is a bounded queue: first in, first out,
\* nothing lost, nothing handed out twice, and a call is refused only when the
\* queue is full or empty or when the neighbour at that end is not finished.
THEOREM RingImplementsTaskQueue ==
    ASSUME Size > 1
    PROVE  Spec => ImplementsTaskQueue
<1>1. Init => IInv
  BY TypeInit, RingInit, DataInit, OwnerInit, PlacedIs DEF IInv
<1>2. IInv /\ [Next]_vars => IInv'
  <2>1. IInv /\ [Next]_vars => (TypeInv /\ RingInv)'
    BY TypeStep, RingStep DEF IInv
  <2>2. (TypeInv /\ RingInv)' => PlacedInv'
    BY PlacedIs, PTL
  <2>3. IInv /\ [Next]_vars => (DataInv /\ OwnerInv /\ ItemInv)'
    BY DataStep, OwnerStep, ItemStep DEF IInv
  <2>. QED  BY <2>1, <2>2, <2>3 DEF IInv
<1>3. Init => FIFO!TaskQueueInit
  BY <1>1, FifoInit
<1>4. IInv /\ IInv' /\ [Next]_vars => [FIFO!TaskQueueNext]_(FIFO!tqVars)
  BY FifoStep DEF FifoNext, Kept, FIFO!tqVars
<1>. QED
  BY <1>1, <1>2, <1>3, <1>4, PTL DEF Spec, ImplementsTaskQueue, FIFO!TaskQueueSpec
==============================================================================

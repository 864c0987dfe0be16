-------------------------- MODULE StructuresProofs --------------------------
(* Proofs about the parts of Structures: the memory pool, the options, the     *)
(* channel with its buffers, and the cache.                                    *)
EXTENDS Structures, SequenceTheorems, FiniteSetTheorems, WellFoundedInduction, TLAPS

-----------------------------------------------------------------------------
(* The memory pool (src/memory/MemoryPool.cpp)                               *)
(*                                                                          *)
(* The list is cleared without its mutex, so a thread in the middle of a pop  *)
(* or a push brings slots back that the list had lost.  What makes this safe  *)
(* is said of all slots that have been given back, listed or lost: they link  *)
(* to each other only, no two to the same one, and none to the head or to a   *)
(* slot a thread is popping.                                                  *)

PoolPlaces == {"idle", "lock_list", "pop", "lock_block", "new_block", "clear", "cut",
               "push", "crashed"}

PoolTypeInv ==
    /\ freeList \in Slots \union {Null}
    /\ link \in [Slots -> Slots \union {Null}]
    /\ cur \in Nat /\ last \in Nat /\ blocks \in 0 .. MaxBlocks
    /\ freeMutex \in PoolThreads \union {Nobody}
    /\ blockMutex \in PoolThreads \union {Nobody}
    /\ at \in [PoolThreads -> PoolPlaces]
    /\ slot \in [PoolThreads -> Slots \union {Null}]
    /\ held \in [PoolThreads -> SUBSET Slots]

MutexInv ==
    \A t \in PoolThreads :
        /\ at[t] \in {"pop", "push"} => freeMutex = t
        /\ at[t] \in {"new_block", "clear", "cut"} => blockMutex = t

CutInv ==
    /\ last = blocks * BlockSlots
    /\ cur <= last + 1
    /\ \A t \in PoolThreads : at[t] = "new_block" => cur > last
    /\ \A t \in PoolThreads : at[t] \in {"clear", "cut"} => cur <= last

\* A slot on its way back to the list, and the slots that are back.
Returning(t, s) == at[t] = "push" /\ slot[t] = s

Given == {s \in Slots : /\ s < cur
                        /\ \A t \in PoolThreads : s \notin held[t] /\ ~Returning(t, s)}

HeldInv ==
    /\ \A t \in PoolThreads : \A s \in held[t] : s < cur
    /\ \A t, u \in PoolThreads : t # u => held[t] \cap held[u] = {}
    /\ \A t \in PoolThreads : at[t] = "push" =>
          /\ slot[t] \in Slots /\ slot[t] < cur
          /\ \A u \in PoolThreads : slot[t] \notin held[u]

Unlinked(x) == \A s \in Given : link[s] # x

LinkInv ==
    /\ freeList # Null => freeList \in Given /\ Unlinked(freeList)
    /\ \A s \in Given : link[s] \in Given \union {Null}
    /\ \A s, r \in Given : link[s] = link[r] /\ link[s] # Null => s = r
    /\ \A t \in PoolThreads : at[t] = "pop" => slot[t] \in Given /\ Unlinked(slot[t])
    /\ \A t \in PoolThreads : at[t] = "push" /\ link[slot[t]] # Null =>
          link[slot[t]] \in Given /\ Unlinked(link[slot[t]])

PoolInv == PoolTypeInv /\ MutexInv /\ CutInv /\ HeldInv /\ LinkInv

LEMMA PoolStart == PoolInit => PoolInv
  BY PoolAssumption
     DEF PoolInit, PoolInv, PoolTypeInv, PoolPlaces, MutexInv, CutInv, HeldInv, LinkInv,
         Given, Null

LEMMA SlotsFit ==
    ASSUME PoolInv
    PROVE  /\ Slots \subseteq Nat \ {0}
           /\ last \in Nat /\ cur \in Nat
           /\ \A t \in PoolThreads : at[t] = "cut" /\ cur # Null => cur \in Slots
<1>1. BlockSlots * MaxBlocks \in Nat /\ blocks * BlockSlots <= BlockSlots * MaxBlocks
  BY PoolAssumption DEF PoolInv, PoolTypeInv
<1>. QED  BY <1>1 DEF PoolInv, PoolTypeInv, CutInv, Slots, Null

\* A step that gives no slot out or back keeps the slots that are back, and what
\* links to them.
LEMMA GivenKept ==
    ASSUME PoolInv, cur' = cur, held' = held,
           \A t \in PoolThreads : at'[t] = "push" <=> at[t] = "push",
           \A t \in PoolThreads : at[t] = "push" => slot'[t] = slot[t]
    PROVE  Given' = Given /\ HeldInv'
<1>1. \A t \in PoolThreads : \A s \in Slots : Returning(t, s)' <=> Returning(t, s)
  BY DEF Returning
<1>. QED  BY <1>1 DEF Given, PoolInv, HeldInv

LEMMA LinksKept ==
    ASSUME PoolInv, Given' = Given, link' = link, freeList' \in {freeList, Null},
           \A t \in PoolThreads : at'[t] \in {"pop", "push"} =>
              at[t] = at'[t] /\ slot'[t] = slot[t]
    PROVE  LinkInv'
  BY DEF PoolInv, LinkInv, Unlinked

LEMMA PoolTypeStep ==
    ASSUME PoolInv, PoolNext
    PROVE  PoolTypeInv'
<1>. USE DEF PoolTypeInv, PoolPlaces, Move, lists, cutting, mutexes
<1>1. PoolTypeInv /\ LinkInv /\ Slots \subseteq Nat \ {0} /\ Given \subseteq Slots
  BY SlotsFit DEF PoolInv, Given
<1>2. ASSUME NEW t \in PoolThreads,
             Allocate(t) \/ LockList(t) \/ LockBlock(t) \/ ClearFreeList(t)
      PROVE  PoolTypeInv'
  BY <1>1, <1>2 DEF Allocate, LockList, LockBlock, ClearFreeList
<1>3. ASSUME NEW t \in PoolThreads, Pop(t) PROVE PoolTypeInv'
  <2>1. slot[t] \in Slots
    BY <1>1, <1>3 DEF Pop, LinkInv
  <2>2. /\ held[t] \union {slot[t]} \in SUBSET Slots
        /\ link[slot[t]] \in Slots \union {Null}
    BY <1>1, <2>1
  <2>3. held' \in [PoolThreads -> SUBSET Slots] /\ freeList' \in Slots \union {Null}
    BY <1>1, <1>3, <2>2 DEF Pop
  <2>. QED  BY <1>1, <1>3, <2>3 DEF Pop
<1>4. ASSUME NEW t \in PoolThreads, AllocateNewBlock(t) PROVE PoolTypeInv'
  <2>1. blocks * BlockSlots + 1 \in Nat /\ (blocks + 1) * BlockSlots \in Nat
    BY <1>1, PoolAssumption
  <2>. QED  BY <1>1, <1>4, <2>1, PoolAssumption DEF AllocateNewBlock
<1>5. ASSUME NEW t \in PoolThreads, Cut(t) PROVE PoolTypeInv'
  <2>1. {cur} \ {Null} \subseteq Slots
    BY <1>5, SlotsFit DEF Cut
  <2>. QED  BY <1>1, <1>5, <2>1 DEF Cut
<1>6. ASSUME NEW t \in PoolThreads, Deallocate(t) PROVE PoolTypeInv'
  <2>1. PICK s \in held[t] : /\ slot' = [slot EXCEPT ![t] = s]
                             /\ held' = [held EXCEPT ![t] = @ \ {s}]
                             /\ link' = [link EXCEPT ![s] = freeList]
    BY <1>6 DEF Deallocate
  <2>2. s \in Slots
    BY <1>1
  <2>. QED  BY <1>1, <1>6, <2>1, <2>2 DEF Deallocate
<1>7. ASSUME NEW t \in PoolThreads, Push(t) PROVE PoolTypeInv'
  BY <1>1, <1>7 DEF Push
<1>. QED  BY <1>2, <1>3, <1>4, <1>5, <1>6, <1>7 DEF PoolNext

\* The two mutexes, and the slots they guard.
LEMMA PoolGuardStep ==
    ASSUME PoolInv, PoolNext
    PROVE  MutexInv' /\ CutInv'
<1>. USE DEF PoolInv, PoolTypeInv, Move, lists, cutting, mutexes, MutexInv
<1>2. MutexInv'
  BY PoolAssumption DEF PoolNext, Allocate, LockList, Pop, LockBlock,
     AllocateNewBlock, ClearFreeList, Cut, Deallocate, Push
<1>3. ASSUME NEW t \in PoolThreads, AllocateNewBlock(t) PROVE CutInv'
  <2>1. /\ blocks * BlockSlots \in Nat /\ (blocks + 1) * BlockSlots \in Nat
        /\ (blocks + 1) * BlockSlots = blocks * BlockSlots + BlockSlots
    BY PoolAssumption
  <2>2. \A u \in PoolThreads : u # t => at[u] \notin {"new_block", "clear", "cut"}
    BY <1>3, PoolAssumption DEF AllocateNewBlock
  <2>. QED  BY <1>3, <2>1, <2>2, PoolAssumption DEF AllocateNewBlock, CutInv
<1>4. ASSUME NEW t \in PoolThreads, Cut(t) PROVE CutInv'
  <2>1. \A u \in PoolThreads : u # t => at[u] \notin {"new_block", "clear", "cut"}
    BY <1>4, PoolAssumption DEF Cut
  <2>. QED  BY <1>4, <2>1, PoolAssumption DEF Cut, CutInv
<1>5. ASSUME NEW t \in PoolThreads,
             \/ Allocate(t) \/ LockList(t) \/ Pop(t) \/ LockBlock(t)
             \/ ClearFreeList(t) \/ Deallocate(t) \/ Push(t)
      PROVE  CutInv'
  <2>1. UNCHANGED <<cur, last, blocks>>
    BY <1>5 DEF Allocate, LockList, Pop, LockBlock, ClearFreeList, Deallocate, Push
  <2>2. \A u \in PoolThreads : /\ at'[u] = "new_block" => at[u] = "new_block" \/ cur > last
                               /\ at'[u] \in {"clear", "cut"} =>
                                     at[u] \in {"clear", "cut"} \/ ~(cur > last)
    BY <1>5 DEF Allocate, LockList, Pop, LockBlock, ClearFreeList, Deallocate, Push
  <2>. QED  BY <2>1, <2>2 DEF CutInv
<1>. QED  BY <1>2, <1>3, <1>4, <1>5 DEF PoolNext

LEMMA PoolListStep ==
    ASSUME PoolInv, PoolNext
    PROVE  HeldInv' /\ LinkInv'
<1>. USE DEF PoolTypeInv, Move, lists, cutting, mutexes
<1>1. /\ PoolTypeInv /\ MutexInv /\ CutInv /\ HeldInv /\ LinkInv
      /\ Slots \subseteq Nat \ {0} /\ Given \subseteq Slots
  BY SlotsFit DEF PoolInv, Given
<1>2. ASSUME NEW t \in PoolThreads,
             Allocate(t) \/ LockBlock(t) \/ AllocateNewBlock(t) \/ ClearFreeList(t)
      PROVE  HeldInv' /\ LinkInv'
  <2>1. cur' = cur
    BY <1>1, <1>2 DEF Allocate, LockBlock, AllocateNewBlock, ClearFreeList, CutInv
  <2>2. /\ held' = held /\ link' = link /\ slot' = slot /\ freeList' \in {freeList, Null}
        /\ \A u \in PoolThreads : at'[u] \in {"pop", "push"} => at[u] = at'[u]
        /\ \A u \in PoolThreads : at'[u] = "push" <=> at[u] = "push"
    BY <1>1, <1>2 DEF Allocate, LockBlock, AllocateNewBlock, ClearFreeList
  <2>3. Given' = Given /\ HeldInv'
    BY <2>1, <2>2, GivenKept
  <2>. QED  BY <2>2, <2>3, LinksKept
<1>3. ASSUME NEW t \in PoolThreads, LockList(t) PROVE HeldInv' /\ LinkInv'
  <2>1. /\ UNCHANGED <<cur, held, link, freeList>> /\ at[t] = "lock_list"
        /\ at'[t] # "push" /\ (at'[t] = "pop" => slot'[t] = freeList /\ freeList # Null)
        /\ \A u \in PoolThreads : u # t => at'[u] = at[u] /\ slot'[u] = slot[u]
    BY <1>1, <1>3 DEF LockList
  <2>2. Given' = Given /\ HeldInv'
    BY <2>1, GivenKept
  <2>. QED  BY <1>1, <2>1, <2>2 DEF LinkInv, Unlinked
<1>4. ASSUME NEW t \in PoolThreads, Pop(t) PROVE HeldInv' /\ LinkInv'
  <2>1. /\ at[t] = "pop" /\ at'[t] \notin {"pop", "push"}
        /\ UNCHANGED <<cur, link, slot>>
        /\ \A u \in PoolThreads : u # t =>
              at'[u] = at[u] /\ held'[u] = held[u] /\ at[u] \notin {"pop", "push"}
    BY <1>1, <1>4, PoolAssumption DEF Pop, MutexInv
  <2>2. slot[t] \in Given /\ Unlinked(slot[t])
    BY <1>1, <2>1 DEF LinkInv
  <2>3. CASE freeList = Null /\ UNCHANGED <<freeList, held>>
    <3>1. Given' = Given /\ HeldInv'
      BY <2>1, <2>3, GivenKept
    <3>. QED  BY <2>1, <2>3, <3>1, LinksKept
  <2>4. CASE freeList' = link[slot[t]] /\ held' = [held EXCEPT ![t] = @ \union {slot[t]}]
    <3>1. held'[t] = held[t] \union {slot[t]}
      BY <1>1, <2>4
    <3>2. Given' = Given \ {slot[t]}
      BY <1>1, <2>1, <3>1 DEF Given, Returning
    <3>3. HeldInv'
      <4>1. slot[t] < cur /\ \A u \in PoolThreads : slot[t] \notin held[u]
        BY <2>2 DEF Given
      <4>2. \A u \in PoolThreads : \A s \in held'[u] : s < cur
        BY <1>1, <2>1, <3>1, <4>1 DEF HeldInv
      <4>3. \A u, w \in PoolThreads : u # w => held'[u] \cap held'[w] = {}
        BY <1>1, <2>1, <3>1, <4>1 DEF HeldInv
      <4>4. \A u \in PoolThreads : at'[u] # "push"
        BY <2>1
      <4>. QED  BY <2>1, <4>2, <4>3, <4>4 DEF HeldInv
    <3>4. LinkInv'
      <4>1. \A u \in PoolThreads : at'[u] \notin {"pop", "push"}
        BY <2>1
      <4>2. \A s \in Given' : link[s] \in Given' \union {Null}
        BY <1>1, <2>2, <3>2 DEF LinkInv, Unlinked
      <4>3. freeList' # Null => freeList' \in Given'
        BY <1>1, <2>2, <2>4, <3>2 DEF LinkInv, Unlinked
      <4>4. freeList' # Null => \A s \in Given' : link[s] # freeList'
        BY <1>1, <2>2, <2>4, <3>2 DEF LinkInv
      <4>5. \A s, r \in Given' : link[s] = link[r] /\ link[s] # Null => s = r
        BY <1>1, <3>2 DEF LinkInv
      <4>. QED  BY <2>1, <4>1, <4>2, <4>3, <4>4, <4>5 DEF LinkInv, Unlinked
    <3>. QED  BY <3>3, <3>4
  <2>. QED  BY <1>4, <2>3, <2>4 DEF Pop
<1>5. ASSUME NEW t \in PoolThreads, Cut(t) PROVE HeldInv' /\ LinkInv'
  <2>1. /\ at[t] = "cut" /\ UNCHANGED <<link, freeList, slot>> /\ cur' = cur + 1
        /\ held'[t] = held[t] \union ({cur} \ {Null})
        /\ \A u \in PoolThreads : /\ at'[u] \in {"pop", "push"} => at[u] = at'[u]
                                  /\ at[u] = "push" <=> at'[u] = "push"
        /\ \A u \in PoolThreads : u # t => held'[u] = held[u]
    BY <1>1, <1>5 DEF Cut
  <2>2. \A u \in PoolThreads : \A s \in Slots : Returning(u, s)' <=> Returning(u, s)
    BY <2>1 DEF Returning
  <2>3. Given' = Given
    <3>1. \A s \in Given : s \in Given'
      BY <1>1, <2>1, <2>2 DEF Given
    <3>2. \A s \in Given' : s \in Given
      BY <1>1, <2>1, <2>2 DEF Given, Null
    <3>. QED  BY <3>1, <3>2
  <2>4. HeldInv'
    <3>0. \A u \in PoolThreads : \A s \in held[u] : s \in Nat /\ s < cur
      BY <1>1 DEF HeldInv
    <3>1. \A u \in PoolThreads : \A s \in held'[u] : s < cur'
      <4>1. \A s \in held'[t] : s \in held[t] \/ s = cur
        BY <2>1
      <4>2. cur < cur + 1 /\ \A s \in Nat : s < cur => s < cur + 1
        BY <1>1
      <4>. QED  BY <2>1, <3>0, <4>1, <4>2
    <3>2. \A u, w \in PoolThreads : u # w => held'[u] \cap held'[w] = {}
      BY <1>1, <2>1 DEF HeldInv
    <3>3. \A u \in PoolThreads : at'[u] = "push" =>
              /\ slot[u] \in Slots /\ slot[u] < cur'
              /\ \A w \in PoolThreads : slot[u] \notin held'[w]
      <4>. SUFFICES ASSUME NEW u \in PoolThreads, at'[u] = "push"
                    PROVE  /\ slot[u] \in Slots /\ slot[u] < cur'
                           /\ \A w \in PoolThreads : slot[u] \notin held'[w]
        OBVIOUS
      <4>1. /\ slot[u] \in Slots /\ slot[u] < cur
            /\ \A w \in PoolThreads : slot[u] \notin held[w]
        BY <1>1, <2>1 DEF HeldInv
      <4>2. \A s \in Slots : s < cur => s # cur /\ s < cur + 1
        BY <1>1
      <4>. QED  BY <2>1, <4>1, <4>2
    <3>. QED  BY <2>1, <3>1, <3>2, <3>3 DEF HeldInv
  <2>. QED  BY <2>1, <2>3, <2>4, LinksKept
<1>6. ASSUME NEW t \in PoolThreads, Deallocate(t) PROVE HeldInv' /\ LinkInv'
  <2>1. /\ at[t] = "idle" /\ at'[t] = "push" /\ UNCHANGED <<freeList, cur>>
        /\ \A u \in PoolThreads : u # t => at'[u] = at[u]
        /\ \A u \in PoolThreads : u # t => at[u] \notin {"pop", "push"}
    BY <1>1, <1>6, PoolAssumption DEF Deallocate, MutexInv
  <2>2. PICK s \in held[t] : /\ slot' = [slot EXCEPT ![t] = s]
                             /\ held' = [held EXCEPT ![t] = @ \ {s}]
                             /\ link' = [link EXCEPT ![s] = freeList]
    BY <1>6 DEF Deallocate
  <2>3. /\ s \in Slots /\ s < cur /\ s \notin Given /\ slot'[t] = s
        /\ link'[s] = freeList /\ \A r \in Slots : r # s => link'[r] = link[r]
        /\ held'[t] = held[t] \ {s}
        /\ \A u \in PoolThreads : u # t => /\ held'[u] = held[u] /\ slot'[u] = slot[u]
                                           /\ s \notin held[u]
    BY <1>1, <2>2 DEF HeldInv, Given
  <2>4. Given' = Given
    BY <1>1, <2>1, <2>3 DEF Given, Returning
  <2>5. HeldInv'
    <3>1. \A u \in PoolThreads : held'[u] \subseteq held[u] /\ s \notin held'[u]
      BY <2>3
    <3>2. \A u \in PoolThreads : \A r \in held'[u] : r < cur'
      BY <1>1, <2>1, <3>1 DEF HeldInv
    <3>3. \A u, w \in PoolThreads : u # w => held'[u] \cap held'[w] = {}
      BY <1>1, <3>1 DEF HeldInv
    <3>4. \A u \in PoolThreads : at'[u] = "push" => u = t
      BY <2>1
    <3>. QED  BY <2>1, <2>3, <3>1, <3>2, <3>3, <3>4 DEF HeldInv
  <2>6. LinkInv'
    BY <1>1, <2>1, <2>3, <2>4 DEF LinkInv, Unlinked
  <2>. QED  BY <2>5, <2>6
<1>7. ASSUME NEW t \in PoolThreads, Push(t) PROVE HeldInv' /\ LinkInv'
  <2>1. /\ at[t] = "push" /\ at'[t] = "idle" /\ UNCHANGED <<link, cur, slot, held>>
        /\ freeList' = slot[t]
        /\ \A u \in PoolThreads : u # t => at'[u] = at[u] /\ at[u] \notin {"pop", "push"}
    BY <1>1, <1>7, PoolAssumption DEF Push, MutexInv
  <2>2. /\ slot[t] \in Slots /\ slot[t] < cur
        /\ \A u \in PoolThreads : slot[t] \notin held[u]
        /\ slot[t] \notin Given
    BY <1>1, <2>1 DEF HeldInv, Given, Returning
  <2>3. Given' = Given \union {slot[t]}
    <3>1. \A s \in Given' : s \in Given \union {slot[t]}
      BY <1>1, <2>1 DEF Given, Returning
    <3>2. \A s \in Given \union {slot[t]} : s \in Given'
      BY <1>1, <2>1, <2>2 DEF Given, Returning
    <3>. QED  BY <3>1, <3>2
  <2>4. HeldInv'
    BY <1>1, <2>1 DEF HeldInv
  <2>5. LinkInv'
    BY <1>1, <2>1, <2>2, <2>3 DEF LinkInv, Unlinked
  <2>. QED  BY <2>4, <2>5
<1>. QED  BY <1>2, <1>3, <1>4, <1>5, <1>6, <1>7 DEF PoolNext

LEMMA PoolStep == PoolInv /\ [Next]_vars => PoolInv'
<1>. SUFFICES ASSUME PoolInv, [Next]_vars PROVE PoolInv'
  OBVIOUS
<1>1. CASE PoolNext
  BY <1>1, PoolTypeStep, PoolGuardStep, PoolListStep DEF PoolInv
<1>2. CASE UNCHANGED poolVars
  <2>1. /\ UNCHANGED <<freeList, link, cur, last, blocks, freeMutex, blockMutex>>
        /\ UNCHANGED <<at, slot, held>>
    BY <1>2 DEF poolVars
  <2>2. Given' = Given /\ HeldInv'
    BY <2>1, GivenKept
  <2>3. LinkInv'
    BY <2>1, <2>2, LinksKept
  <2>4. PoolTypeInv' /\ MutexInv' /\ CutInv'
    BY <2>1 DEF PoolInv, PoolTypeInv, MutexInv, CutInv
  <2>. QED  BY <2>2, <2>3, <2>4 DEF PoolInv
<1>. QED  BY <1>1, <1>2 DEF Next, vars

\* What is on the free list has been given back.
LEMMA ListedIsGiven ==
    ASSUME PoolInv
    PROVE  FreeSlots \subseteq Given
<1>1. /\ Given \in SUBSET Slots
      /\ freeList \in Given \union {Null}
      /\ \A x \in Given : link[x] \in Given \union {Null}
  BY DEF Given, PoolInv, LinkInv
<1>. QED  BY <1>1 DEF FreeSlots

\* For any number of threads, blocks and slots in a block, no slot is in two hands,
\* and none in a hand and on the free list (allocate and deallocate of MemoryPool).
THEOREM PoolSlotsAreExclusive == Spec => []SlotsAreExclusive
<1>1. Init => PoolInv
  BY PoolStart DEF Init
<1>2. PoolInv => SlotsAreExclusive
  <2>. SUFFICES ASSUME PoolInv PROVE SlotsAreExclusive
    OBVIOUS
  <2>1. \A t \in PoolThreads : held[t] \cap FreeSlots = {}
    BY ListedIsGiven DEF Given
  <2>. QED  BY <2>1 DEF PoolInv, HeldInv, SlotsAreExclusive
<1>. QED  BY <1>1, <1>2, PoolStep, PTL DEF Spec

-----------------------------------------------------------------------------
(* The options of a loop (src/src/Config.cpp, src/src/EventLoop.cpp)         *)
(*                                                                          *)
(* The properties speak of the whole file, the code of one line at a time:    *)
(* section and values_ are what the lines read so far leave.                  *)

FileInv ==
    /\ file \in Seq(FileLines)
    /\ \A n \in 0 .. Len(file) : Headings(n) # {} => Max(Headings(n)) \in Headings(n)
    /\ section = SectionAt(Len(file))

ValuesInv ==
    /\ CapacityKey \in DOMAIN values <=> Assigning # {}
    /\ Assigning # {} => /\ Max(Assigning) \in Assigning
                         /\ values[CapacityKey] = LastAssigned

Taken == [DefaultOptions EXCEPT
             !.capacity = IF LastAssigned = NotANumber THEN DefaultCapacity ELSE LastAssigned]

OptionsInv ==
    /\ loading \in {"lines", "refused"} => options = DefaultOptions
    /\ loading = "loaded" => options = Taken
    /\ loading = "done" => options = Normalize(Taken)

SettingsInv == FileInv /\ ValuesInv /\ OptionsInv

\* The last of some numbers and a greater one.
LEMMA MaxOfMore ==
    ASSUME NEW n \in Nat, NEW S \in SUBSET (1 .. n)
    PROVE  Max(S \union {n + 1}) = n + 1
<1>1. \A x \in S \union {n + 1} : x \in Nat /\ x <= n + 1
  OBVIOUS
<1>2. \A x \in S \union {n + 1} :
          (\A y \in S \union {n + 1} : x >= y) <=> x = n + 1
  BY <1>1
<1>. QED  BY <1>2 DEF Max

LEMMA SettingsStart == SettingsInit => SettingsInv
<1>. SUFFICES ASSUME SettingsInit PROVE SettingsInv
  OBVIOUS
<1>1. /\ file = <<>> /\ section = <<>> /\ values = <<>>
      /\ loading = "lines" /\ options = DefaultOptions
  BY DEF SettingsInit
<1>2. Headings(Len(file)) = {}
  BY <1>1 DEF Headings
<1>3. FileInv
  BY <1>1, <1>2 DEF FileInv, SectionAt
<1>4. Assigning = {} /\ CapacityKey \notin DOMAIN values
  BY <1>1 DEF Assigning
<1>. QED  BY <1>1, <1>3, <1>4 DEF SettingsInv, ValuesInv, OptionsInv

\* What a line that is appended leaves of the ones before.
LEMMA LineAppended ==
    ASSUME NEW l \in FileLines, file \in Seq(FileLines), file' = Append(file, l)
    PROVE  /\ file' \in Seq(FileLines) /\ Len(file') = Len(file) + 1 /\ Len(file) \in Nat
           /\ DOMAIN file = 1 .. Len(file) /\ DOMAIN file' = DOMAIN file \union {Len(file) + 1}
           /\ file'[Len(file) + 1] = l
           /\ \A i \in 1 .. Len(file) : file'[i] = file[i]
  OBVIOUS


\* The headings and the sections behind each line, when a line is appended.
LEMMA SectionsAppended ==
    ASSUME NEW l \in FileLines, FileInv, file' = Append(file, l)
    PROVE  /\ \A n \in 0 .. Len(file) : Headings(n)' = Headings(n) /\ SectionAt(n)' = SectionAt(n)
           /\ \A n \in Nat : n = Len(file) => IF l[1] = "section"
                  THEN SectionAt(n + 1)' = l[2] /\ Headings(n + 1)' = Headings(n) \union {n + 1}
                  ELSE SectionAt(n + 1)' = SectionAt(n) /\ Headings(n + 1)' = Headings(n)
<1>1. /\ file' \in Seq(FileLines) /\ Len(file') = Len(file) + 1 /\ Len(file) \in Nat
      /\ file'[Len(file) + 1] = l
      /\ \A i \in 1 .. Len(file) : file'[i] = file[i]
  BY LineAppended DEF FileInv
<1>2. ASSUME NEW n \in 0 .. Len(file)
      PROVE  Headings(n)' = Headings(n) /\ SectionAt(n)' = SectionAt(n)
  <2>1. \A i \in 1 .. n : file'[i] = file[i]
    BY <1>1
  <2>2. Headings(n)' = Headings(n)
    BY <2>1 DEF Headings
  <2>3. Headings(n) # {} => Max(Headings(n)) \in 1 .. n
    BY <1>2 DEF FileInv, Headings
  <2>4. Headings(n) # {} => file'[Max(Headings(n))] = file[Max(Headings(n))]
    BY <2>1, <2>3
  <2>. QED  BY <2>2, <2>4 DEF SectionAt
<1>3. ASSUME NEW n \in Nat, n = Len(file)
      PROVE  IF l[1] = "section"
             THEN SectionAt(n + 1)' = l[2] /\ Headings(n + 1)' = Headings(n) \union {n + 1}
             ELSE SectionAt(n + 1)' = SectionAt(n) /\ Headings(n + 1)' = Headings(n)
  <2>1. /\ file'[n + 1] = l
        /\ \A i \in 1 .. n : file'[i] = file[i]
        /\ 1 .. (n + 1) = (1 .. n) \union {n + 1}
    BY <1>1, <1>3
  <2>2. Headings(n) \in SUBSET (1 .. n)
    BY DEF Headings
  <2>3. CASE l[1] = "section"
    <3>1. Headings(n + 1)' = Headings(n) \union {n + 1}
      BY <2>1, <2>3 DEF Headings
    <3>2. Max(Headings(n) \union {n + 1}) = n + 1
      BY <2>2, MaxOfMore
    <3>3. SectionAt(n + 1)' = file'[n + 1][2]
      BY <3>1, <3>2 DEF SectionAt
    <3>. QED  BY <2>1, <2>3, <3>1, <3>3
  <2>4. CASE l[1] # "section"
    <3>1. Headings(n + 1)' = Headings(n)
      BY <2>1, <2>4 DEF Headings
    <3>2. n \in 0 .. Len(file) /\ Headings(n)' = Headings(n) /\ SectionAt(n)' = SectionAt(n)
      BY <1>2, <1>3
    <3>3. SectionAt(n + 1)' = SectionAt(n)'
      BY <3>1, <3>2 DEF SectionAt
    <3>. QED  BY <2>4, <3>1, <3>2, <3>3
  <2>. QED  BY <2>3, <2>4
<1>. QED  BY <1>2, <1>3

\* Whether a line assigns the capacity in some section.
Assigns(l, inForce) == l[1] = "set" /\ inForce \o l[2] = CapacityKey

\* One more line: it is the last that assigns the capacity, or the last one stays.
LEMMA AssigningAppended ==
    ASSUME NEW l \in FileLines, FileInv, ValuesInv, file' = Append(file, l)
    PROVE  IF Assigns(l, section)
           THEN /\ Assigning' # {} /\ Max(Assigning') \in Assigning'
                /\ LastAssigned' = l[3]
           ELSE /\ Assigning' = Assigning /\ LastAssigned' = LastAssigned
<1>1. /\ Len(file) \in Nat
      /\ DOMAIN file = 1 .. Len(file) /\ DOMAIN file' = DOMAIN file \union {Len(file) + 1}
      /\ file'[Len(file) + 1] = l
      /\ \A i \in 1 .. Len(file) : file'[i] = file[i]
  BY LineAppended DEF FileInv
<1>2. PICK n \in Nat : n = Len(file)
  BY <1>1
<1>3. \A i \in 1 .. n : SectionAt(i)' = SectionAt(i)
  BY <1>2, SectionsAppended
<1>4. l[1] = "set" => SectionAt(n + 1)' = section
  BY <1>2, SectionsAppended DEF FileInv
<1>5. Assigning \in SUBSET (1 .. n) /\ n + 1 \notin 1 .. n
  BY <1>1, <1>2 DEF Assigning
<1>6. \A i \in 1 .. n : i \in Assigning' <=> i \in Assigning
  BY <1>1, <1>2, <1>3 DEF Assigning
<1>7. n + 1 \in Assigning' <=> Assigns(l, section)
  BY <1>1, <1>2, <1>4 DEF Assigning, Assigns
<1>8. Assigning' \subseteq (1 .. n) \union {n + 1}
  BY <1>1, <1>2 DEF Assigning
<1>9. CASE Assigns(l, section)
  <2>1. Assigning' = Assigning \union {n + 1}
    BY <1>5, <1>6, <1>7, <1>8, <1>9
  <2>2. Max(Assigning') = n + 1
    BY <2>1, <1>5, MaxOfMore
  <2>3. LastAssigned' = file'[n + 1][3]
    BY <2>1, <2>2 DEF LastAssigned
  <2>. QED  BY <1>1, <1>2, <1>9, <2>1, <2>2, <2>3
<1>10. CASE ~Assigns(l, section)
  <2>1. Assigning' = Assigning
    BY <1>5, <1>6, <1>7, <1>8, <1>10
  <2>2. Assigning # {} => Max(Assigning) \in 1 .. n
    BY <1>5 DEF ValuesInv
  <2>3. Assigning # {} => file'[Max(Assigning)] = file[Max(Assigning)]
    BY <1>1, <1>2, <2>2
  <2>. QED  BY <1>10, <2>1, <2>3 DEF LastAssigned
<1>. QED  BY <1>9, <1>10

\* A line leaves values_ and section as the file now says.
LEMMA LineStep ==
    ASSUME SettingsInv, LoadLine
    PROVE  FileInv' /\ ValuesInv'
<1>1. PICK l \in FileLines : ReadLine(l) /\ file' = Append(file, l)
  BY DEF LoadLine
<1>. USE <1>1 DEF SettingsInv
<1>2. /\ file' \in Seq(FileLines) /\ Len(file') = Len(file) + 1 /\ Len(file) \in Nat
  BY LineAppended DEF FileInv
<1>3. PICK n \in Nat : n = Len(file)
  BY <1>2
<1>4. FileInv'
  <2>1. Headings(n) \in SUBSET (1 .. n)
    BY DEF Headings
  <2>2. \A i \in 0 .. n : Headings(i)' = Headings(i)
    BY <1>3, SectionsAppended
  <2>3. ASSUME NEW i \in 0 .. n + 1
        PROVE  (Headings(i) # {} => Max(Headings(i)) \in Headings(i))'
    <3>1. CASE i \in 0 .. n
      <4>1. Headings(i)' = Headings(i)
        BY <2>2, <3>1
      <4>. QED  BY <1>3, <3>1, <4>1 DEF FileInv
    <3>2. CASE i = n + 1
      <4>1. Headings(n + 1)' \in {Headings(n), Headings(n) \union {n + 1}}
        BY <1>3, SectionsAppended
      <4>2. Max(Headings(n) \union {n + 1}) = n + 1
        BY ONLY <2>1, n \in Nat, MaxOfMore
      <4>3. n \in 0 .. n
        OBVIOUS
      <4>. QED  BY <1>3, <3>2, <4>1, <4>2, <4>3 DEF FileInv
    <3>. QED  BY <3>1, <3>2
  <2>4. section' = SectionAt(n + 1)'
    <3>1. CASE l[1] = "section"
      BY <1>3, <3>1, SectionsAppended DEF ReadLine
    <3>2. CASE l[1] # "section"
      <4>1. section' = section
        BY <3>2 DEF ReadLine
      <4>. QED  BY <1>3, <3>2, <4>1, SectionsAppended DEF FileInv
    <3>. QED  BY <3>1, <3>2
  <2>5. Len(file') = n + 1
    BY <1>2, <1>3
  <2>. QED  BY <1>2, <2>3, <2>4, <2>5 DEF FileInv
<1>5. ValuesInv'
  <2>1. CASE Assigns(l, section)
    <3>1. values' = Assigned(section \o l[2], l[3])
      BY <2>1 DEF ReadLine, Assigns
    <3>2. CapacityKey \in DOMAIN values' /\ values'[CapacityKey] = l[3]
      BY <2>1, <3>1 DEF Assigned, Assigns
    <3>. QED  BY <2>1, <3>2, AssigningAppended DEF ValuesInv
  <2>2. CASE ~Assigns(l, section)
    <3>1. /\ Assigning' = Assigning /\ LastAssigned' = LastAssigned
      BY <2>2, AssigningAppended
    <3>2. values' = values \/ values' = Assigned(section \o l[2], l[3])
      BY DEF ReadLine
    <3>3. values' = Assigned(section \o l[2], l[3]) => section \o l[2] # CapacityKey
                \/ values' = values
      BY <2>2 DEF ReadLine, Assigns
    <3>4. /\ CapacityKey \in DOMAIN values' <=> CapacityKey \in DOMAIN values
          /\ CapacityKey \in DOMAIN values => values'[CapacityKey] = values[CapacityKey]
      BY <3>2, <3>3 DEF Assigned
    <3>. QED  BY <3>1, <3>4 DEF ValuesInv
  <2>. QED  BY <2>1, <2>2
<1>. QED  BY <1>4, <1>5

LEMMA SettingsStep == SettingsInv /\ [Next]_vars => SettingsInv'
<1>. SUFFICES ASSUME SettingsInv, [Next]_vars PROVE SettingsInv'
  OBVIOUS
<1>1. CASE LoadLine
  <2>1. FileInv' /\ ValuesInv'
    BY <1>1, LineStep
  <2>2. loading = "lines" /\ loading' \in {"lines", "refused"} /\ options' = options
    BY <1>1 DEF LoadLine, ReadLine
  <2>. QED  BY <2>1, <2>2 DEF SettingsInv, OptionsInv
<1>2. ASSUME UNCHANGED <<file, section, values>>
      PROVE  FileInv' /\ ValuesInv' /\ Taken' = Taken
  <2>1. \A n \in Nat : Headings(n)' = Headings(n)
    BY <1>2 DEF Headings
  <2>2. \A n \in Nat : SectionAt(n)' = SectionAt(n)
    BY <1>2, <2>1 DEF SectionAt
  <2>3. Len(file) \in Nat /\ DOMAIN file \subseteq Nat
    BY DEF SettingsInv, FileInv
  <2>4. Assigning' = Assigning
    BY <1>2, <2>2, <2>3 DEF Assigning
  <2>5. LastAssigned' = LastAssigned
    BY <1>2, <2>4 DEF LastAssigned
  <2>6. FileInv'
    <3>1. Len(file)' = Len(file) /\ SectionAt(Len(file))' = SectionAt(Len(file))
      BY <1>2, <2>2, <2>3 DEF SectionAt, Headings
    <3>2. \A n \in 0 .. Len(file) : Headings(n)' = Headings(n)
      BY <2>1
    <3>. QED  BY <1>2, <3>1, <3>2 DEF SettingsInv, FileInv
  <2>. QED  BY <1>2, <2>4, <2>5, <2>6 DEF SettingsInv, ValuesInv, Taken
<1>3. CASE TakeOptions
  <2>1. UNCHANGED <<file, section, values>>
    BY <1>3 DEF TakeOptions
  <2>2. GetSizeT(CapacityKey, DefaultCapacity)
          = IF LastAssigned = NotANumber THEN DefaultCapacity ELSE LastAssigned
    BY DEF GetSizeT, SettingsInv, ValuesInv, LastAssigned
  <2>3. options = DefaultOptions /\ DefaultOptions.capacity = DefaultCapacity
    BY <1>3 DEF TakeOptions, SettingsInv, OptionsInv, DefaultOptions
  <2>4. options' = Taken /\ loading' = "loaded"
    BY <1>3, <2>2, <2>3 DEF TakeOptions, Taken
  <2>. QED  BY <1>2, <2>1, <2>4 DEF SettingsInv, OptionsInv
<1>4. CASE NormalizeOptions
  <2>1. UNCHANGED <<file, section, values>> /\ options = Taken
    BY <1>4 DEF NormalizeOptions, SettingsInv, OptionsInv
  <2>2. options' = Normalize(Taken) /\ loading' = "done"
    BY <1>4, <2>1 DEF NormalizeOptions
  <2>3. Normalize(Taken)' = Normalize(Taken')
    BY DEF Normalize
  <2>. QED  BY <1>2, <2>1, <2>2, <2>3 DEF SettingsInv, OptionsInv
<1>5. CASE UNCHANGED settingsVars
  <2>1. UNCHANGED <<loading, file, section, values, options>>
    BY <1>5 DEF settingsVars
  <2>2. Normalize(Taken)' = Normalize(Taken')
    BY DEF Normalize
  <2>. QED  BY <1>2, <2>1, <2>2 DEF SettingsInv, OptionsInv
<1>. QED  BY <1>1, <1>3, <1>4, <1>5 DEF Next, SettingsNext, vars

\* What the last line that assigns the capacity says is a number or none.
LEMMA AssignedValue ==
    ASSUME SettingsInv
    PROVE  LastAssigned \in Nat \union {NotANumber}
<1>1. CASE Assigning = {}
  BY <1>1 DEF LastAssigned
<1>2. CASE Assigning # {}
  <2>1. Max(Assigning) \in DOMAIN file /\ file[Max(Assigning)][1] = "set"
    BY <1>2 DEF SettingsInv, ValuesInv, Assigning
  <2>2. file[Max(Assigning)] \in FileLines
    BY <2>1 DEF SettingsInv, FileInv
  <2>. QED  BY <1>2, <2>1, <2>2, LinesAssumption DEF LastAssigned
<1>. QED  BY <1>1, <1>2

\* What normalizeOptions makes of a capacity and the marks of the default one.
LEMMA MarksOfCapacity ==
    ASSUME NEW c \in Nat, NEW o, o = Normalize([DefaultOptions EXCEPT !.capacity = c])
    PROVE  /\ o.capacity = IF c = 0 THEN 1024 ELSE c
           /\ o.high <= o.capacity
           /\ o.capacity > 1 => o.low < o.high
<1>. DEFINE given == [DefaultOptions EXCEPT !.capacity = c]
            H == (DefaultCapacity * 90) \div 100
            L == (DefaultCapacity * 40) \div 100
            room == IF c = 0 THEN 1024 ELSE c
            high == IF H = 0 \/ H > room THEN (room * 90) \div 100 ELSE H
            low  == IF L = 0 \/ L >= high THEN (room * 40) \div 100 ELSE L
<1>1. given.capacity = c /\ given.high = H /\ given.low = L
  BY DEF DefaultOptions
<1>2. o.capacity = room /\ o.high = high /\ o.low = low
  BY <1>1 DEF Normalize
<1>3. H \in Nat /\ L \in Nat /\ L # 0 /\ L < H
  BY DefaultAssumption
<1>4. room \in Nat /\ room # 0
  OBVIOUS
<1>5. /\ (room * 90) \div 100 \in Nat /\ (room * 90) \div 100 <= room
      /\ (room * 40) \div 100 \in Nat
      /\ room > 1 => (room * 40) \div 100 < (room * 90) \div 100
  BY <1>4
<1>6. (room * 40) \div 100 <= (room * 90) \div 100
  BY <1>4
<1>. HIDE DEF H, L, room
<1>7. high <= room
  BY <1>3, <1>4, <1>5
<1>8. room > 1 => low < high
  BY <1>3, <1>4, <1>5, <1>6
<1>. QED  BY <1>2, <1>7, <1>8 DEF room

\* Whatever lines a file has, the loop gets the capacity that the last line for it
\* assigns, and marks that fit that capacity (loadFromString, getSizeT,
\* normalizeOptions).
THEOREM LoopOptionsAreSound == Spec => []OptionsAreSound
<1>1. Init => SettingsInv
  BY SettingsStart DEF Init
<1>2. SettingsInv => OptionsAreSound
  <2>. SUFFICES ASSUME SettingsInv, loading = "done" PROVE OptionsAreSound
    BY DEF OptionsAreSound, CapacityIsLastAssigned, MarksAreOrdered
  <2>1. PICK c : c = IF LastAssigned = NotANumber THEN DefaultCapacity ELSE LastAssigned
    OBVIOUS
  <2>2. c \in Nat /\ (LastAssigned = NotANumber => c # 0)
    BY <2>1, AssignedValue, DefaultAssumption
  <2>3. options = Normalize([DefaultOptions EXCEPT !.capacity = c])
    BY <2>1 DEF SettingsInv, OptionsInv, Taken
  <2>4. /\ options.capacity = IF c = 0 THEN 1024 ELSE c
        /\ options.high <= options.capacity
        /\ options.capacity > 1 => options.low < options.high
    BY <2>2, <2>3, MarksOfCapacity
  <2>5. CapacityIsLastAssigned
    BY <2>1, <2>2, <2>4, LinesAssumption DEF CapacityIsLastAssigned
  <2>. QED  BY <2>4, <2>5 DEF OptionsAreSound, MarksAreOrdered
<1>. QED  BY <1>1, <1>2, SettingsStep, PTL DEF Spec

-----------------------------------------------------------------------------
(* Induction, and sequences of sequences                                     *)

\* A set of numbers has a smallest one.
LEMMA SmallestOf ==
    ASSUME NEW T \in SUBSET Nat, T # {}
    PROVE  \E m \in T : \A k \in T : m <= k
<1>. DEFINE R == {p \in Nat \X Nat : p[1] < p[2]}
<1>1. IsWellFoundedOn(R, Nat)
  BY NatLessThanWellFounded DEF OpToRel
<1>2. \A x, y \in Nat : y < x => <<y, x>> \in R
  OBVIOUS
<1>. HIDE DEF R
<1>3. PICK x \in T : \A y \in T : ~ (<<y, x>> \in R)
  BY <1>1, WFMin
<1>4. \A y \in T : ~ (y < x)
  BY <1>2, <1>3
<1>. QED  BY <1>4

\* Induction on a set of numbers.
LEMMA Induction ==
    ASSUME NEW S, 0 \in S, \A n \in Nat : n \in S => n + 1 \in S
    PROVE  Nat \subseteq S
<1>. SUFFICES ASSUME Nat \ S # {} PROVE FALSE
  OBVIOUS
<1>1. PICK m \in Nat \ S : \A k \in Nat \ S : m <= k
  BY SmallestOf
<1>2. m - 1 \in Nat /\ m - 1 \in S
  BY <1>1
<1>. QED  BY <1>1, <1>2

\* What the first elements of a sequence of sequences make together.
Joins(f, s) ==
    \A i \in 1 .. Len(s) : f[i] = IF i = 1 THEN s[i] ELSE f[i - 1] \o s[i]

JoinsUpTo(m, s, X) ==
    {f \in [1 .. m -> Seq(X)] :
        \A i \in 1 .. m : f[i] = IF i = 1 THEN s[i] ELSE f[i - 1] \o s[i]}

LEMMA JoinsExists ==
    ASSUME NEW X, NEW s \in Seq(Seq(X))
    PROVE  \E f \in [1 .. Len(s) -> Seq(X)] : Joins(f, s)
<1>. DEFINE S == {m \in Nat : m <= Len(s) => JoinsUpTo(m, s, X) # {}}
<1>1. 0 \in S
  <2>1. [i \in 1 .. 0 |-> <<>>] \in JoinsUpTo(0, s, X)
    BY DEF JoinsUpTo
  <2>. QED  BY <2>1
<1>2. ASSUME NEW m \in Nat, m \in S, m + 1 <= Len(s)
      PROVE  JoinsUpTo(m + 1, s, X) # {}
  <2>1. PICK f \in [1 .. m -> Seq(X)] :
            \A i \in 1 .. m : f[i] = IF i = 1 THEN s[i] ELSE f[i - 1] \o s[i]
    BY <1>2 DEF JoinsUpTo
  <2>. DEFINE next == IF m = 0 THEN s[1] ELSE f[m] \o s[m + 1]
              g == [i \in 1 .. m + 1 |-> IF i <= m THEN f[i] ELSE next]
  <2>2. s[m + 1] \in Seq(X) /\ (m > 0 => f[m] \in Seq(X))
    BY <1>2
  <2>3. next \in Seq(X)
    BY <2>2
  <2>. HIDE DEF next
  <2>4. g \in [1 .. m + 1 -> Seq(X)]
    BY <2>3
  <2>5. ASSUME NEW i \in 1 .. m + 1
        PROVE  g[i] = IF i = 1 THEN s[i] ELSE g[i - 1] \o s[i]
    <3>1. CASE i <= m
      <4>1. i \in 1 .. m /\ g[i] = f[i]
        BY <3>1
      <4>2. i # 1 => g[i - 1] = f[i - 1]
        BY <3>1
      <4>. QED  BY <2>1, <4>1, <4>2
    <3>2. CASE i = m + 1
      <4>1. m > 0 => g[m] = f[m]
        OBVIOUS
      <4>2. g[m + 1] = next
        OBVIOUS
      <4>. QED  BY <3>2, <4>1, <4>2 DEF next
    <3>. QED  BY <3>1, <3>2
  <2>. QED  BY <2>4, <2>5 DEF JoinsUpTo
<1>3. \A m \in Nat : m \in S => m + 1 \in S
  <2>1. \A m \in Nat : m \in S /\ m + 1 <= Len(s) => JoinsUpTo(m + 1, s, X) # {}
    BY <1>2
  <2>. SUFFICES ASSUME NEW m \in Nat, m \in S PROVE m + 1 \in S
    OBVIOUS
  <2>2. m + 1 <= Len(s) => JoinsUpTo(m + 1, s, X) # {}
    BY <2>1
  <2>. QED  BY <2>2
<1>. HIDE DEF S
<1>4. Nat \subseteq S
  BY <1>1, <1>3, Induction
<1>5. JoinsUpTo(Len(s), s, X) # {}
  <2>1. Len(s) \in Nat
    OBVIOUS
  <2>. QED  BY <1>4, <2>1 DEF S
<1>. QED  BY <1>5 DEF Joins, JoinsUpTo

LEMMA JoinsUnique ==
    ASSUME NEW s, Len(s) \in Nat, NEW f, NEW g, Joins(f, s), Joins(g, s)
    PROVE  \A i \in 1 .. Len(s) : f[i] = g[i]
<1>. DEFINE S == {i \in Nat : i \in 1 .. Len(s) => f[i] = g[i]}
<1>1. 0 \in S
  OBVIOUS
<1>2. \A i \in Nat : i \in S => i + 1 \in S
  <2>. SUFFICES ASSUME NEW i \in Nat, i \in S, i + 1 \in 1 .. Len(s) PROVE f[i + 1] = g[i + 1]
    OBVIOUS
  <2>1. f[i + 1] = IF i + 1 = 1 THEN s[i + 1] ELSE f[i + 1 - 1] \o s[i + 1]
    BY DEF Joins
  <2>2. g[i + 1] = IF i + 1 = 1 THEN s[i + 1] ELSE g[i + 1 - 1] \o s[i + 1]
    BY DEF Joins
  <2>3. i + 1 # 1 => f[i] = g[i]
    OBVIOUS
  <2>4. i + 1 - 1 = i
    OBVIOUS
  <2>. QED  BY <2>1, <2>2, <2>3, <2>4
<1>. HIDE DEF S
<1>3. Nat \subseteq S
  BY <1>1, <1>2, Induction
<1>. QED  BY <1>3 DEF S

\* FlattenSeq is the last of what the elements make together, in whatever way that
\* has been found.
LEMMA FlattenIsLast ==
    ASSUME NEW X, NEW s \in Seq(Seq(X)), Len(s) # 0, NEW f, Joins(f, s)
    PROVE  FlattenSeq(s) = f[Len(s)] /\ f[Len(s)] \in Seq(X)
<1>1. PICK g \in [1 .. Len(s) -> Seq(X)] : Joins(g, s)
  BY JoinsExists
<1>. DEFINE Flatten(h) == h = [i \in 1 .. Len(s) |-> IF i = 1 THEN s[i] ELSE h[i - 1] \o s[i]]
<1>2. Len(s) \in 1 .. Len(s) /\ Len(s) \in Nat
  OBVIOUS
<1>3. Flatten(g)
  BY <1>1 DEF Joins
<1>4. FlattenSeq(s) = (CHOOSE h : Flatten(h))[Len(s)]
  BY DEF FlattenSeq
<1>5. ASSUME NEW h, Flatten(h) PROVE Joins(h, s)
  BY <1>5 DEF Joins
<1>. HIDE DEF Flatten
<1>6. Flatten(CHOOSE h : Flatten(h))
  BY <1>3
<1>7. Joins(CHOOSE h : Flatten(h), s)
  BY <1>5, <1>6
<1>8. FlattenSeq(s) = f[Len(s)]
  BY <1>2, <1>4, <1>7, JoinsUnique
<1>9. f[Len(s)] = g[Len(s)]
  <2>1. \A i \in 1 .. Len(s) : f[i] = g[i]
    BY <1>1, <1>2, JoinsUnique
  <2>. QED  BY <1>2, <2>1
<1>. QED  BY <1>2, <1>8, <1>9

LEMMA FlattenAppend ==
    ASSUME NEW X, NEW s \in Seq(Seq(X)), NEW x \in Seq(X)
    PROVE  FlattenSeq(s) \in Seq(X) /\ FlattenSeq(Append(s, x)) = FlattenSeq(s) \o x
<1>. DEFINE n == Len(s)
            t == Append(s, x)
<1>1. /\ t \in Seq(Seq(X)) /\ Len(t) = n + 1 /\ n \in Nat /\ t[n + 1] = x
      /\ \A i \in 1 .. n : t[i] = s[i]
  OBVIOUS
<1>. HIDE DEF t
<1>2. PICK f \in [1 .. n -> Seq(X)] : Joins(f, s)
  BY JoinsExists
<1>3. CASE n = 0
  <2>1. s = <<>> /\ FlattenSeq(s) = <<>>
    BY <1>3 DEF FlattenSeq
  <2>2. Joins(<<x>>, t)
    BY <1>1, <1>3 DEF Joins
  <2>3. FlattenSeq(t) = <<x>>[1]
    <3>1. Len(t) = 1
      BY <1>1, <1>3
    <3>. QED  BY <1>1, <2>2, <3>1, FlattenIsLast
  <2>4. <<x>>[1] = x /\ <<>> \o x = x /\ <<>> \in Seq(X)
    OBVIOUS
  <2>. QED  BY <2>1, <2>3, <2>4 DEF t
<1>4. CASE n # 0
  <2>. DEFINE g == [i \in 1 .. n + 1 |-> IF i <= n THEN f[i] ELSE f[n] \o x]
  <2>1. Joins(g, t)
    <3>. SUFFICES ASSUME NEW i \in 1 .. n + 1
                  PROVE  g[i] = IF i = 1 THEN t[i] ELSE g[i - 1] \o t[i]
      BY <1>1 DEF Joins
    <3>1. CASE i <= n
      <4>1. i \in 1 .. n
        BY <3>1
      <4>2. f[i] = IF i = 1 THEN s[i] ELSE f[i - 1] \o s[i]
        BY <1>2, <4>1 DEF Joins
      <4>3. t[i] = s[i]
        BY <1>1, <4>1
      <4>4. g[i] = f[i] /\ (i # 1 => g[i - 1] = f[i - 1])
        BY SMTT(60), <1>1, <3>1
      <4>. QED  BY <4>2, <4>3, <4>4
    <3>2. CASE i = n + 1
      BY <1>1, <1>4, <3>2
    <3>. QED  BY <3>1, <3>2
  <2>2. g[n + 1] = f[n] \o x
    BY <1>1
  <2>. HIDE DEF g
  <2>3. FlattenSeq(t) = g[n + 1]
    BY <1>1, <2>1, FlattenIsLast
  <2>4. FlattenSeq(s) = f[n] /\ f[n] \in Seq(X)
    BY <1>2, <1>4, FlattenIsLast
  <2>. QED  BY <2>2, <2>3, <2>4 DEF t
<1>. QED  BY <1>3, <1>4

LEMMA FlattenFirst ==
    ASSUME NEW X, NEW s \in Seq(Seq(X)), NEW t \in Seq(Seq(X)), Len(t) = Len(s) + 1,
           \A i \in 1 .. Len(s) : t[i + 1] = s[i]
    PROVE  FlattenSeq(t) = t[1] \o FlattenSeq(s)
<1>. DEFINE n == Len(s)
<1>1. n \in Nat /\ t[1] \in Seq(X) /\ Len(t) = n + 1 /\ \A i \in 1 .. n : t[i + 1] = s[i]
  OBVIOUS
<1>2. PICK f \in [1 .. n -> Seq(X)] : Joins(f, s)
  BY JoinsExists
<1>3. CASE n = 0
  <2>1. s = <<>> /\ FlattenSeq(s) = <<>>
    BY <1>3 DEF FlattenSeq
  <2>2. Joins(<<t[1]>>, t)
    BY <1>3 DEF Joins
  <2>3. FlattenSeq(t) = <<t[1]>>[1]
    BY <1>1, <1>3, <2>2, FlattenIsLast
  <2>4. <<t[1]>>[1] = t[1] /\ t[1] \o <<>> = t[1]
    BY <1>1
  <2>. QED  BY <2>1, <2>3, <2>4
<1>4. CASE n # 0
  <2>. DEFINE g == [i \in 1 .. n + 1 |-> IF i = 1 THEN t[1] ELSE t[1] \o f[i - 1]]
  <2>1. g[1] = t[1] /\ \A i \in 1 .. n : g[i + 1] = t[1] \o f[i]
    <3>1. \A i \in 1 .. n : i + 1 \in 1 .. n + 1 /\ i + 1 # 1 /\ (i + 1) - 1 = i
      BY <1>1
    <3>2. 1 \in 1 .. n + 1
      BY <1>1
    <3>. QED  BY <3>1, <3>2, Zenon
  <2>. HIDE DEF g
  <2>2. ASSUME NEW i \in 1 .. n PROVE g[i + 1] = g[i] \o t[i + 1]
    <3>1. /\ f[i] = IF i = 1 THEN s[i] ELSE f[i - 1] \o s[i]
          /\ t[i + 1] = s[i] /\ s[i] \in Seq(X)
      <4>1. f[i] = IF i = 1 THEN s[i] ELSE f[i - 1] \o s[i]
        BY <1>2 DEF Joins
      <4>2. t[i + 1] = s[i]
        BY <1>1
      <4>3. s[i] \in Seq(X)
        OBVIOUS
      <4>. QED  BY <4>1, <4>2, <4>3
    <3>2. CASE i = 1
      BY <2>1, <3>1, <3>2
    <3>3. CASE i # 1
      <4>1. i - 1 \in 1 .. n /\ (i - 1) + 1 = i
        BY <1>1, <3>3
      <4>2. f[i - 1] \in Seq(X) /\ g[i] = t[1] \o f[i - 1]
        BY <1>2, <2>1, <4>1
      <4>3. (t[1] \o f[i - 1]) \o s[i] = t[1] \o (f[i - 1] \o s[i])
        <5>1. t[1] \in Seq(X) /\ f[i - 1] \in Seq(X) /\ s[i] \in Seq(X)
          BY <1>1, <3>1, <4>2
        <5>2. PICK a, b, c \in Seq(X) : a = t[1] /\ b = f[i - 1] /\ c = s[i]
          BY Zenon, <5>1
        <5>3. (a \o b) \o c = a \o (b \o c)
          BY ONLY SMTT(60), a \in Seq(X), b \in Seq(X), c \in Seq(X)
        <5>. QED  BY <5>2, <5>3
      <4>. QED  BY <2>1, <3>1, <3>3, <4>2, <4>3
    <3>. QED  BY <3>2, <3>3
  <2>3. Joins(g, t)
    <3>. SUFFICES ASSUME NEW i \in 1 .. n + 1
                  PROVE  g[i] = IF i = 1 THEN t[i] ELSE g[i - 1] \o t[i]
      BY <1>1 DEF Joins
    <3>1. CASE i = 1
      BY <2>1, <3>1
    <3>2. CASE i # 1
      <4>1. i - 1 \in 1 .. n /\ (i - 1) + 1 = i
        BY <1>1, <3>2
      <4>2. g[(i - 1) + 1] = g[i - 1] \o t[(i - 1) + 1]
        BY <2>2, <4>1
      <4>. QED  BY <3>2, <4>1, <4>2
    <3>. QED  BY <3>1, <3>2
  <2>4. FlattenSeq(t) = g[n + 1]
    BY <1>1, <2>3, FlattenIsLast
  <2>5. FlattenSeq(s) = f[n]
    BY <1>2, <1>4, FlattenIsLast
  <2>6. n \in 1 .. n
    BY <1>1, <1>4
  <2>. QED  BY <2>1, <2>4, <2>5, <2>6
<1>. QED  BY <1>3, <1>4

-----------------------------------------------------------------------------
(* Buffers (src/include/Buffer.hpp)                                          *)

Buffers(X) ==
    {b \in [bytes : Seq(X), reader : Nat, writer : Nat] : InBounds(b)}

\* What a buffer contains, position by position.
LEMMA ContentOf ==
    ASSUME NEW X, NEW b \in Buffers(X)
    PROVE  /\ Content(b) \in Seq(X) /\ Len(Content(b)) = Readable(b) /\ Readable(b) \in Nat
           /\ \A i \in 1 .. Readable(b) : Content(b)[i] = b.bytes[b.reader + i]
<1>1. /\ b.bytes \in Seq(X) /\ b.reader \in Nat /\ b.writer \in Nat
      /\ b.reader <= b.writer /\ b.writer <= Len(b.bytes)
  BY DEF Buffers, InBounds, VectorSize
<1>2. PICK s \in Seq(X), m \in Nat, n \in Nat : s = b.bytes /\ m = b.reader /\ n = b.writer
  BY <1>1
<1>3. m <= n /\ n <= Len(s)
  BY <1>1, <1>2
<1>4. /\ SubSeq(s, m + 1, n) \in Seq(X) /\ Len(SubSeq(s, m + 1, n)) = n - m
      /\ \A i \in 1 .. n - m : SubSeq(s, m + 1, n)[i] = s[m + i]
  BY ONLY s \in Seq(X), m \in Nat, n \in Nat, <1>3
<1>5. n - m \in Nat
  BY <1>3
<1>. QED  BY <1>2, <1>4, <1>5 DEF Content, Readable

\* Two buffers with the same data in the same order contain the same.
LEMMA SameContent ==
    ASSUME NEW X, NEW b \in Buffers(X), NEW c \in Buffers(X), Readable(c) = Readable(b),
           \A i \in 1 .. Readable(b) : c.bytes[c.reader + i] = b.bytes[b.reader + i]
    PROVE  Content(c) = Content(b)
<1>1. /\ Content(b) \in Seq(X) /\ Len(Content(b)) = Readable(b)
      /\ \A i \in 1 .. Readable(b) : Content(b)[i] = b.bytes[b.reader + i]
  BY ContentOf
<1>2. /\ Content(c) \in Seq(X) /\ Len(Content(c)) = Readable(b)
      /\ \A i \in 1 .. Readable(b) : Content(c)[i] = b.bytes[b.reader + i]
  BY ContentOf
<1>. QED  BY <1>1, <1>2

\* Room is made by growing or by moving, and the data stays as it is.
LEMMA RoomIsMade ==
    ASSUME NEW X, Empty \in X, NEW b \in Buffers(X), NEW len \in Nat
    PROVE  /\ EnsureWritable(b, len) \in Buffers(X)
           /\ Content(EnsureWritable(b, len)) = Content(b)
           /\ len <= Writeable(EnsureWritable(b, len))
<1>1. /\ b.bytes \in Seq(X) /\ b.reader \in Nat /\ b.writer \in Nat /\ Reserved \in Nat
      /\ Reserved <= b.reader /\ b.reader <= b.writer /\ b.writer <= Len(b.bytes)
      /\ Len(b.bytes) \in Nat /\ DOMAIN b.bytes = 1 .. Len(b.bytes)
      /\ \A i \in 1 .. Len(b.bytes) : b.bytes[i] \in X
      /\ b = [bytes |-> b.bytes, reader |-> b.reader, writer |-> b.writer]
  BY SizesAssumption DEF Buffers, InBounds, VectorSize
<1>2. CASE Writeable(b) >= len
  BY <1>1, <1>2 DEF EnsureWritable, Writeable, VectorSize
<1>3. CASE Writeable(b) < len /\ Writeable(b) + b.reader < len + Reserved
  <2>. DEFINE target == Larger(2 * VectorSize(b), b.writer + len)
              bytes == [i \in 1 .. target |-> IF i <= VectorSize(b) THEN b.bytes[i] ELSE Empty]
              c == [bytes |-> bytes, reader |-> b.reader, writer |-> b.writer]
  <2>1. EnsureWritable(b, len) = c
    BY <1>1, <1>3 DEF EnsureWritable, MakeSpace
  <2>2. target \in Nat /\ Len(b.bytes) <= target /\ b.writer + len <= target
    BY <1>1, <1>3 DEF Larger, VectorSize, Writeable
  <2>. HIDE DEF target
  <2>3. bytes \in Seq(X) /\ Len(bytes) = target
    BY <1>1, <2>2 DEF VectorSize
  <2>4. \A i \in 1 .. Len(b.bytes) : bytes[i] = b.bytes[i]
    BY <1>1, <2>2 DEF VectorSize
  <2>. HIDE DEF bytes
  <2>5. c \in Buffers(X) /\ len <= Writeable(c)
    BY <1>1, <2>2, <2>3 DEF Buffers, InBounds, VectorSize, Writeable
  <2>6. Content(c) = Content(b)
    <3>1. \A i \in 1 .. Readable(b) : b.reader + i \in 1 .. Len(b.bytes)
      BY <1>1 DEF Readable
    <3>2. \A i \in 1 .. Readable(b) : c.bytes[c.reader + i] = b.bytes[b.reader + i]
      BY <2>4, <3>1
    <3>3. Readable(c) = Readable(b)
      BY DEF Readable
    <3>. QED  BY <2>5, <3>2, <3>3, SameContent
  <2>. QED  BY <2>1, <2>5, <2>6
<1>4. CASE Writeable(b) < len /\ ~ (Writeable(b) + b.reader < len + Reserved)
  <2>. DEFINE bytes == [i \in DOMAIN b.bytes |->
                          IF i \in Reserved + 1 .. Reserved + Readable(b)
                          THEN b.bytes[i + b.reader - Reserved] ELSE b.bytes[i]]
              c == [bytes |-> bytes, reader |-> Reserved, writer |-> Reserved + Readable(b)]
  <2>1. EnsureWritable(b, len) = c
    BY <1>1, <1>4 DEF EnsureWritable, MakeSpace
  <2>2. /\ Readable(b) \in Nat /\ Reserved + Readable(b) + len <= Len(b.bytes)
        /\ \A i \in Reserved + 1 .. Reserved + Readable(b) :
              /\ i \in 1 .. Len(b.bytes)
              /\ i + b.reader - Reserved \in 1 .. Len(b.bytes)
    BY SMTT(60), <1>1, <1>4 DEF Readable, Writeable, VectorSize
  <2>3. bytes \in Seq(X) /\ Len(bytes) = Len(b.bytes)
    <3>1. bytes \in [1 .. Len(b.bytes) -> X]
      BY <1>1, <2>2
    <3>. QED  BY <1>1, <3>1
  <2>4. \A i \in 1 .. Readable(b) : bytes[Reserved + i] = b.bytes[b.reader + i]
    <3>. SUFFICES ASSUME NEW i \in 1 .. Readable(b)
                  PROVE  bytes[Reserved + i] = b.bytes[b.reader + i]
      OBVIOUS
    <3>1. Reserved + i \in Reserved + 1 .. Reserved + Readable(b)
      BY <1>1, <2>2
    <3>2. (Reserved + i) + b.reader - Reserved = b.reader + i
      BY <1>1, <2>2
    <3>. QED  BY <1>1, <2>2, <3>1, <3>2
  <2>. HIDE DEF bytes
  <2>5. c \in Buffers(X) /\ len <= Writeable(c)
    BY <1>1, <2>2, <2>3 DEF Buffers, InBounds, VectorSize, Writeable
  <2>6. Content(c) = Content(b)
    <3>1. Readable(c) = Readable(b)
      BY <1>1, <2>2 DEF Readable
    <3>. QED  BY <2>4, <2>5, <3>1, SameContent
  <2>. QED  BY <2>1, <2>5, <2>6
<1>. QED
  <2>1. Writeable(b) \in Int
    BY <1>1 DEF Writeable, VectorSize
  <2>. QED  BY <1>2, <1>3, <1>4, <2>1

\* append: the data goes behind what is there, whatever room there was.
LEMMA DataIsAppended ==
    ASSUME NEW X, Empty \in X, NEW b \in Buffers(X), NEW data \in Seq(X)
    PROVE  /\ Write(EnsureWritable(b, Len(data)), data) \in Buffers(X)
           /\ Content(Write(EnsureWritable(b, Len(data)), data)) = Content(b) \o data
<1>1. PICK c \in Buffers(X) : /\ c = EnsureWritable(b, Len(data))
                              /\ Content(c) = Content(b) /\ Len(data) <= Writeable(c)
  BY RoomIsMade
<1>2. /\ c.bytes \in Seq(X) /\ c.reader \in Nat /\ c.writer \in Nat
      /\ Reserved <= c.reader /\ c.reader <= c.writer /\ c.writer + Len(data) <= Len(c.bytes)
      /\ Len(c.bytes) \in Nat /\ DOMAIN c.bytes = 1 .. Len(c.bytes)
      /\ \A i \in 1 .. Len(c.bytes) : c.bytes[i] \in X
      /\ c = [bytes |-> c.bytes, reader |-> c.reader, writer |-> c.writer]
  BY <1>1 DEF Buffers, InBounds, VectorSize, Writeable
<1>3. /\ Len(data) \in Nat /\ DOMAIN data = 1 .. Len(data)
      /\ \A i \in 1 .. Len(data) : data[i] \in X
  OBVIOUS
<1>. DEFINE bytes == [i \in DOMAIN c.bytes |->
                        IF i - c.writer \in DOMAIN data THEN data[i - c.writer] ELSE c.bytes[i]]
            d == [bytes |-> bytes, reader |-> c.reader, writer |-> c.writer + Len(data)]
<1>4. Write(c, data) = d
  <2>1. c \in [bytes : Seq(X), reader : Nat, writer : Nat]
    BY DEF Buffers
  <2>2. Write(c, data) = [c EXCEPT !.bytes = bytes, !.writer = @ + Len(data)]
    BY Zenon DEF Write
  <2>. HIDE DEF bytes
  <2>. QED  BY <2>1, <2>2
<1>5. bytes \in Seq(X) /\ Len(bytes) = Len(c.bytes)
  <2>1. bytes \in [1 .. Len(c.bytes) -> X]
    BY <1>2, <1>3
  <2>. QED  BY <1>2, <2>1
<1>6. /\ \A i \in 1 .. Len(data) : bytes[c.writer + i] = data[i]
      /\ \A i \in 1 .. c.writer : bytes[i] = c.bytes[i]
  <2>1. ASSUME NEW i \in 1 .. Len(data) PROVE bytes[c.writer + i] = data[i]
    <3>1. c.writer + i \in 1 .. Len(c.bytes) /\ (c.writer + i) - c.writer = i
      BY <1>2, <1>3
    <3>. QED  BY <1>2, <1>3, <3>1
  <2>2. ASSUME NEW i \in 1 .. c.writer PROVE bytes[i] = c.bytes[i]
    <3>1. i \in 1 .. Len(c.bytes) /\ i - c.writer \notin 1 .. Len(data)
      BY <1>2, <1>3
    <3>. QED  BY <1>2, <1>3, <3>1
  <2>. QED  BY <2>1, <2>2
<1>. HIDE DEF bytes
<1>7. d \in Buffers(X)
  BY <1>2, <1>3, <1>5 DEF Buffers, InBounds, VectorSize
<1>. HIDE DEF d
<1>8. d.reader = c.reader /\ Readable(d) = Readable(c) + Len(data) /\ d.bytes = bytes
  BY <1>2, <1>3 DEF Readable, d
<1>9. Content(d) = Content(c) \o data
  <2>1. /\ Content(d) \in Seq(X) /\ Len(Content(d)) = Readable(d)
        /\ \A i \in 1 .. Readable(d) : Content(d)[i] = d.bytes[d.reader + i]
    BY <1>7, ContentOf
  <2>2. /\ Content(c) \in Seq(X) /\ Len(Content(c)) = Readable(c) /\ Readable(c) \in Nat
        /\ \A i \in 1 .. Readable(c) : Content(c)[i] = c.bytes[c.reader + i]
    BY ContentOf
  <2>3. c.reader + Readable(c) = c.writer
    BY <1>2 DEF Readable
  <2>4. ASSUME NEW i \in 1 .. Readable(c) + Len(data)
        PROVE  Content(d)[i] = (Content(c) \o data)[i]
    <3>1. Content(d)[i] = bytes[c.reader + i]
      BY <1>8, <2>1
    <3>2. CASE i <= Readable(c)
      <4>1. c.reader + i \in 1 .. c.writer
        BY <1>2, <2>2, <2>3, <3>2
      <4>2. Content(c)[i] = c.bytes[c.reader + i]
        BY <2>2, <3>2
      <4>3. (Content(c) \o data)[i] = Content(c)[i]
        BY <1>3, <2>2, <3>2
      <4>. QED  BY <1>6, <3>1, <4>1, <4>2, <4>3
    <3>3. CASE i > Readable(c)
      <4>1. i - Readable(c) \in 1 .. Len(data)
        BY <1>3, <2>2, <3>3
      <4>2. c.writer + (i - Readable(c)) = c.reader + i
        BY <1>2, <1>3, <2>2, <2>3
      <4>3. bytes[c.writer + (i - Readable(c))] = data[i - Readable(c)]
        BY <1>6, <4>1
      <4>4. (Content(c) \o data)[i] = data[i - Readable(c)]
        BY <1>3, <2>2, <3>3
      <4>. QED  BY <3>1, <4>2, <4>3, <4>4
    <3>. QED  BY <1>3, <2>2, <3>2, <3>3
  <2>5. PICK s \in Seq(X), t \in Seq(X) : s = Content(d) /\ t = Content(c)
    BY <2>1, <2>2
  <2>6. /\ Len(s) = Len(t \o data)
        /\ \A i \in 1 .. Len(t \o data) : s[i] = (t \o data)[i]
    BY <1>3, <1>8, <2>1, <2>2, <2>4, <2>5
  <2>7. s = t \o data
    <3>1. t \o data \in Seq(X)
      BY ONLY t \in Seq(X), data \in Seq(X), ConcatProperties
    <3>. QED  BY ONLY s \in Seq(X), <2>6, <3>1, SeqEqual
  <2>. QED  BY <2>5, <2>7
<1>. QED  BY <1>1, <1>4, <1>7, <1>9

\* retrieve: the first bytes go.
LEMMA DataIsRetrieved ==
    ASSUME NEW X, NEW b \in Buffers(X), NEW n \in Nat, n <= Readable(b)
    PROVE  /\ Retrieve(b, n) \in Buffers(X)
           /\ Content(Retrieve(b, n)) = SubSeq(Content(b), n + 1, Readable(b))
<1>1. /\ b.bytes \in Seq(X) /\ b.reader \in Nat /\ b.writer \in Nat
      /\ Reserved <= b.reader /\ b.reader <= b.writer /\ b.writer <= Len(b.bytes)
      /\ b = [bytes |-> b.bytes, reader |-> b.reader, writer |-> b.writer]
  BY DEF Buffers, InBounds, VectorSize
<1>. DEFINE c == [bytes |-> b.bytes, reader |-> b.reader + n, writer |-> b.writer]
<1>2. Retrieve(b, n) = c
  BY <1>1 DEF Retrieve
<1>3. c \in Buffers(X) /\ Readable(c) = Readable(b) - n
  BY <1>1, SizesAssumption DEF Buffers, InBounds, VectorSize, Readable
<1>4. /\ Content(c) \in Seq(X) /\ Len(Content(c)) = Readable(c) /\ Readable(c) \in Nat
      /\ \A i \in 1 .. Readable(c) : Content(c)[i] = b.bytes[(b.reader + n) + i]
  BY <1>3, ContentOf
<1>5. /\ Content(b) \in Seq(X) /\ Len(Content(b)) = Readable(b) /\ Readable(b) \in Nat
      /\ \A i \in 1 .. Readable(b) : Content(b)[i] = b.bytes[b.reader + i]
  BY ContentOf
<1>6. PICK s \in Seq(X) : s = Content(b)
  BY <1>5
<1>7. /\ SubSeq(s, n + 1, Len(s)) \in Seq(X) /\ Len(SubSeq(s, n + 1, Len(s))) = Len(s) - n
      /\ \A i \in 1 .. Len(s) - n : SubSeq(s, n + 1, Len(s))[i] = s[n + i]
  <2>1. n <= Len(s)
    BY <1>5, <1>6
  <2>. QED  BY ONLY s \in Seq(X), n \in Nat, <2>1
<1>8. ASSUME NEW i \in 1 .. Readable(c) PROVE Content(c)[i] = s[n + i]
  <2>1. n + i \in 1 .. Readable(b) /\ b.reader + (n + i) = (b.reader + n) + i
    BY <1>1, <1>3, <1>5
  <2>. QED  BY <1>4, <1>5, <1>6, <2>1
<1>. HIDE DEF c
<1>9. Content(c) = SubSeq(s, n + 1, Len(s))
  BY <1>3, <1>4, <1>5, <1>6, <1>7, <1>8
<1>. QED  BY <1>2, <1>3, <1>5, <1>6, <1>9

-----------------------------------------------------------------------------
(* The channel (src/codec/RpcCodec.cpp)                                      *)

Bytes == {Empty} \union ({"length", "header", "id", "payload"} \X Nat)
Messages == [id : Nat, length : Nat]

\* The frames of the messages of s behind the first n.
Framed(s, n) == [i \in 1 .. Len(s) - n |-> Frame(s[n + i])]

ChannelInv ==
    /\ out \in Buffers(Bytes) /\ in \in Buffers(Bytes)
    /\ sent \in Seq(Messages) /\ \A i \in 1 .. Len(sent) : sent[i].id = i
    /\ Len(got) \in Nat /\ Len(got) <= Len(sent) /\ got = SubSeq(sent, 1, Len(got))
    /\ Content(in) \o Content(out) = FlattenSeq(Framed(sent, Len(got)))
    /\ refused => /\ Len(got) < Len(sent)
                  /\ sent[Len(got) + 1].length > MaxMessageLength

\* The elements of two parts one behind the other.
LEMMA TwoParts ==
    ASSUME NEW X, NEW s \in Seq(X), NEW t \in Seq(X), NEW u, u = s \o t
    PROVE  /\ u \in Seq(X) /\ Len(u) = Len(s) + Len(t)
           /\ \A i \in 1 .. Len(s) : u[i] = s[i]
           /\ \A i \in 1 .. Len(t) : u[Len(s) + i] = t[i]
<1>1. s \o t \in Seq(X) /\ Len(s \o t) = Len(s) + Len(t)
  BY ConcatProperties
<1>2. \A i \in 1 .. Len(s) : (s \o t)[i] = s[i]
  BY ConcatProperties
<1>3. \A i \in 1 .. Len(t) : (s \o t)[Len(s) + i] = t[i]
  <2>. SUFFICES ASSUME NEW i \in 1 .. Len(t) PROVE (s \o t)[Len(s) + i] = t[i]
    OBVIOUS
  <2>1. Len(s) + i \in 1 .. Len(s) + Len(t) /\ (Len(s) + i) - Len(s) = i /\ ~ (Len(s) + i <= Len(s))
    OBVIOUS
  <2>2. (s \o t)[Len(s) + i] = IF Len(s) + i <= Len(s) THEN s[Len(s) + i] ELSE t[(Len(s) + i) - Len(s)]
    BY ConcatProperties, <2>1
  <2>. QED  BY <2>1, <2>2
<1>. QED  BY <1>1, <1>2, <1>3

\* Where a frame has its length and its id.
LEMMA FrameParts ==
    ASSUME NEW m \in Messages
    PROVE  /\ Frame(m) \in Seq(Bytes) /\ Len(Frame(m)) = HeaderLength + m.length
           /\ Frame(m)[1] = <<"length", m.length>>
           /\ Frame(m)[HeaderLength] = <<"id", m.id>>
<1>1. m.id \in Nat /\ m.length \in Nat /\ HeaderLength - 2 \in Nat /\ HeaderLength \in Nat
  BY HeaderAssumption DEF Messages
<1>2. /\ <<"length", m.length>> \in Bytes /\ <<"header", m.id>> \in Bytes
      /\ <<"id", m.id>> \in Bytes /\ <<"payload", m.id>> \in Bytes
  BY <1>1 DEF Bytes
<1>11. PICK X : X = Bytes
  OBVIOUS
<1>3. PICK a \in X, h \in X, b \in X, p \in X :
          /\ a = <<"length", m.length>> /\ h = <<"header", m.id>>
          /\ b = <<"id", m.id>> /\ p = <<"payload", m.id>>
  BY <1>2, <1>11
<1>4. PICK k \in Nat, l \in Nat : k = HeaderLength - 2 /\ l = m.length
  BY <1>1
<1>5. PICK s1 \in Seq(X), s2 \in Seq(X), s3 \in Seq(X), s4 \in Seq(X) :
          /\ s1 = <<a>> /\ s2 = [i \in 1 .. k |-> h]
          /\ s3 = <<b>> /\ s4 = [i \in 1 .. l |-> p]
  <2>1. <<a>> \in Seq(X) /\ <<b>> \in Seq(X)
    OBVIOUS
  <2>2. [i \in 1 .. k |-> h] \in Seq(X) /\ [i \in 1 .. l |-> p] \in Seq(X)
    OBVIOUS
  <2>. QED  BY <2>1, <2>2
<1>6. PICK u, v, f : u = s1 \o s2 /\ v = u \o s3 /\ f = v \o s4
  OBVIOUS
<1>7. Frame(m) = f
  BY <1>3, <1>4, <1>5, <1>6 DEF Frame
<1>8. f \in Seq(X) /\ Len(f) = k + 2 + l /\ f[1] = a /\ f[k + 2] = b
  <2>1. u = s1 \o s2
    BY <1>6
  <2>2. u \in Seq(X) /\ Len(u) = Len(s1) + Len(s2) /\ \A i \in 1 .. Len(s1) : u[i] = s1[i]
    BY ONLY s1 \in Seq(X), s2 \in Seq(X), <2>1, TwoParts
  <2>3. u \in Seq(X)
    BY <2>2
  <2>4. v = u \o s3
    BY <1>6
  <2>5. /\ v \in Seq(X) /\ Len(v) = Len(u) + Len(s3) /\ \A i \in 1 .. Len(u) : v[i] = u[i]
        /\ \A i \in 1 .. Len(s3) : v[Len(u) + i] = s3[i]
    BY ONLY <2>3, s3 \in Seq(X), <2>4, TwoParts
  <2>6. v \in Seq(X)
    BY <2>5
  <2>7. f = v \o s4
    BY <1>6
  <2>8. f \in Seq(X) /\ Len(f) = Len(v) + Len(s4) /\ \A i \in 1 .. Len(v) : f[i] = v[i]
    BY ONLY <2>6, s4 \in Seq(X), <2>7, TwoParts
  <2>9. Len(s1) = 1 /\ Len(s2) = k /\ Len(s3) = 1 /\ Len(s4) = l /\ s1[1] = a /\ s3[1] = b
    BY <1>5
  <2>10. Len(u) = k + 1 /\ Len(v) = k + 2 /\ Len(f) = k + 2 + l
    BY <2>2, <2>5, <2>8, <2>9
  <2>11. /\ 1 \in 1 .. Len(s1) /\ 1 \in 1 .. Len(u) /\ 1 \in 1 .. Len(v) /\ 1 \in 1 .. Len(s3)
         /\ k + 2 \in 1 .. Len(v) /\ Len(u) + 1 = k + 2
    BY <2>9, <2>10
  <2>12. u[1] = a /\ v[Len(u) + 1] = b
    BY <2>2, <2>5, <2>9, <2>11
  <2>13. v[1] = a /\ v[k + 2] = b
    BY <2>5, <2>11, <2>12
  <2>. QED  BY <2>8, <2>10, <2>11, <2>13
<1>9. k + 2 = HeaderLength
  BY <1>1, <1>4
<1>. QED  BY <1>1, <1>3, <1>4, <1>7, <1>8, <1>9, <1>11

\* The frames of the messages, when one more is sent and when one is taken.
LEMMA FramedIs ==
    ASSUME NEW s \in Seq(Messages), NEW n \in Nat, n <= Len(s)
    PROVE  /\ Framed(s, n) \in Seq(Seq(Bytes)) /\ Len(Framed(s, n)) = Len(s) - n
           /\ \A i \in 1 .. Len(s) - n : Framed(s, n)[i] = Frame(s[n + i])
<1>1. Len(s) - n \in Nat
  OBVIOUS
<1>2. \A i \in 1 .. Len(s) - n : Frame(s[n + i]) \in Seq(Bytes)
  <2>1. \A i \in 1 .. Len(s) - n : n + i \in 1 .. Len(s)
    BY <1>1
  <2>. QED  BY <2>1, FrameParts
<1>3. Framed(s, n) \in [1 .. Len(s) - n -> Seq(Bytes)]
  BY <1>2 DEF Framed
<1>4. PICK k \in Nat : k = Len(s) - n
  BY <1>1
<1>5. Framed(s, n) \in [1 .. k -> Seq(Bytes)]
  BY <1>3, <1>4
<1>6. Framed(s, n) \in Seq(Seq(Bytes)) /\ Len(Framed(s, n)) = k
  BY ONLY k \in Nat, <1>5
<1>7. \A i \in 1 .. Len(s) - n : Framed(s, n)[i] = Frame(s[n + i])
  BY DEF Framed
<1>. QED  BY <1>4, <1>6, <1>7

LEMMA FramedAppend ==
    ASSUME NEW s \in Seq(Messages), NEW n \in Nat, n <= Len(s), NEW m \in Messages
    PROVE  Framed(Append(s, m), n) = Append(Framed(s, n), Frame(m))
<1>. DEFINE t == Append(s, m)
<1>1. /\ t \in Seq(Messages) /\ Len(t) = Len(s) + 1 /\ Len(s) \in Nat /\ t[Len(s) + 1] = m
      /\ \A i \in 1 .. Len(s) : t[i] = s[i]
  OBVIOUS
<1>. HIDE DEF t
<1>2. /\ Framed(t, n) \in Seq(Seq(Bytes)) /\ Len(Framed(t, n)) = Len(s) + 1 - n
      /\ \A i \in 1 .. Len(s) + 1 - n : Framed(t, n)[i] = Frame(t[n + i])
  <2>1. n <= Len(t) /\ Len(t) - n = Len(s) + 1 - n
    BY <1>1
  <2>2. /\ Framed(t, n) \in Seq(Seq(Bytes)) /\ Len(Framed(t, n)) = Len(t) - n
        /\ \A i \in 1 .. Len(t) - n : Framed(t, n)[i] = Frame(t[n + i])
    BY <1>1, <2>1, FramedIs
  <2>. QED  BY <2>1, <2>2
<1>3. /\ Framed(s, n) \in Seq(Seq(Bytes)) /\ Len(Framed(s, n)) = Len(s) - n
      /\ \A i \in 1 .. Len(s) - n : Framed(s, n)[i] = Frame(s[n + i])
  BY FramedIs
<1>4. PICK u \in Seq(Seq(Bytes)), v \in Seq(Seq(Bytes)), x \in Seq(Bytes) :
          u = Framed(t, n) /\ v = Framed(s, n) /\ x = Frame(m)
  BY <1>2, <1>3, FrameParts
<1>5. Len(u) = Len(v) + 1 /\ \A i \in 1 .. Len(v) : u[i] = v[i]
  <2>1. ASSUME NEW i \in 1 .. Len(s) - n PROVE Framed(t, n)[i] = Framed(s, n)[i]
    <3>1. n + i \in 1 .. Len(s) /\ i \in 1 .. Len(s) + 1 - n
      BY <1>1
    <3>. QED  BY <1>1, <1>2, <1>3, <3>1
  <2>. QED  BY <1>1, <1>2, <1>3, <1>4, <2>1
<1>6. u[Len(v) + 1] = x
  <2>1. Len(s) + 1 - n \in 1 .. Len(s) + 1 - n /\ n + (Len(s) + 1 - n) = Len(s) + 1
    BY <1>1
  <2>2. Len(v) = Len(s) - n
    BY <1>3, <1>4
  <2>3. Len(v) + 1 = Len(s) + 1 - n
    BY ONLY <1>1, <2>2, n \in Nat
  <2>. QED  BY <1>1, <1>2, <1>4, <2>1, <2>3
<1>7. u = Append(v, x)
  BY ONLY SMTT(60), u \in Seq(Seq(Bytes)), v \in Seq(Seq(Bytes)), x \in Seq(Bytes), <1>5, <1>6
<1>. QED  BY <1>4, <1>7 DEF t

LEMMA FramedFirst ==
    ASSUME NEW s \in Seq(Messages), NEW n \in Nat, n < Len(s)
    PROVE  FlattenSeq(Framed(s, n)) = Frame(s[n + 1]) \o FlattenSeq(Framed(s, n + 1))
<1>1. /\ Framed(s, n) \in Seq(Seq(Bytes)) /\ Len(Framed(s, n)) = Len(s) - n
      /\ \A i \in 1 .. Len(s) - n : Framed(s, n)[i] = Frame(s[n + i])
  BY SMTT(60), FramedIs
<1>2. /\ Framed(s, n + 1) \in Seq(Seq(Bytes)) /\ Len(Framed(s, n + 1)) = Len(s) - (n + 1)
      /\ \A i \in 1 .. Len(s) - (n + 1) : Framed(s, n + 1)[i] = Frame(s[(n + 1) + i])
  <2>1. n + 1 \in Nat /\ n + 1 <= Len(s)
    OBVIOUS
  <2>. QED  BY <2>1, FramedIs
<1>3. \A i \in 1 .. Len(s) - (n + 1) : Framed(s, n)[i + 1] = Framed(s, n + 1)[i]
  <2>. SUFFICES ASSUME NEW i \in 1 .. Len(s) - (n + 1)
                PROVE  Framed(s, n)[i + 1] = Framed(s, n + 1)[i]
    OBVIOUS
  <2>1. i + 1 \in 1 .. Len(s) - n /\ n + (i + 1) = (n + 1) + i
    OBVIOUS
  <2>. QED  BY <1>1, <1>2, <2>1
<1>4. Len(Framed(s, n)) = Len(Framed(s, n + 1)) + 1
  <2>1. Len(s) - n = (Len(s) - (n + 1)) + 1
    OBVIOUS
  <2>. QED  BY <1>1, <1>2, <2>1
<1>5. FlattenSeq(Framed(s, n)) = Framed(s, n)[1] \o FlattenSeq(Framed(s, n + 1))
  BY <1>1, <1>2, <1>3, <1>4, FlattenFirst
<1>6. Framed(s, n)[1] = Frame(s[n + 1])
  <2>1. 1 \in 1 .. Len(s) - n
    OBVIOUS
  <2>. QED  BY <1>1, <2>1
<1>. QED  BY <1>5, <1>6

\* What the frames of the messages make together is a sequence of bytes.
LEMMA FramedBytes ==
    ASSUME NEW s \in Seq(Messages), NEW n \in Nat, n <= Len(s)
    PROVE  FlattenSeq(Framed(s, n)) \in Seq(Bytes)
<1>1. Framed(s, n) \in Seq(Seq(Bytes)) /\ <<>> \in Seq(Bytes)
  BY FramedIs
<1>. QED  BY <1>1, FlattenAppend

\* The steps keep the invariant.
LEMMA ChannelStart == ChannelInit => ChannelInv
<1>. SUFFICES ASSUME ChannelInit PROVE ChannelInv
  OBVIOUS
<1>1. /\ out = NewBuffer /\ in = NewBuffer
      /\ sent = <<>> /\ got = <<>> /\ refused = FALSE
  BY DEF ChannelInit
<1>2. NewBuffer \in Buffers(Bytes) /\ Readable(NewBuffer) = 0
  <2>1. PICK k \in Nat : k = Reserved + InitialSize
    BY SizesAssumption
  <2>2. Empty \in Bytes
    BY DEF Bytes
  <2>3. [i \in 1 .. k |-> Empty] \in Seq(Bytes) /\ Len([i \in 1 .. k |-> Empty]) = k
    BY <2>2
  <2>. QED  BY <2>1, <2>3, SizesAssumption DEF NewBuffer, Buffers, InBounds, VectorSize, Readable
<1>3. Content(NewBuffer) \in Seq(Bytes) /\ Len(Content(NewBuffer)) = 0
  BY <1>2, ContentOf
<1>4. Content(NewBuffer) = <<>>
  BY <1>3
<1>5. Len(Framed(sent, 0)) = 0 /\ Framed(sent, 0) = <<>>
  <2>1. PICK s \in Seq(Messages) : s = <<>>
    <3>1. <<>> \in Seq(Messages)
      OBVIOUS
    <3>. QED  BY <3>1
  <2>2. 0 <= Len(s) /\ Len(s) - 0 = 0
    BY <2>1
  <2>3. Framed(s, 0) \in Seq(Seq(Bytes)) /\ Len(Framed(s, 0)) = 0
    BY <2>2, FramedIs
  <2>. QED  BY <1>1, <2>1, <2>3
<1>6. FlattenSeq(Framed(sent, 0)) = <<>>
  BY <1>5 DEF FlattenSeq
<1>7. Content(in) \o Content(out) = <<>>
  BY <1>1, <1>4
<1>. QED  BY <1>1, <1>2, <1>6, <1>7 DEF ChannelInv

LEMMA EncodeStep ==
    ASSUME ChannelInv, Encode
    PROVE  ChannelInv'
<1>1. PICK length \in Payloads :
        LET m == [id |-> Len(sent) + 1, length |-> length] IN
          /\ out' = Write(EnsureWritable(out, Len(Frame(m))), Frame(m))
          /\ sent' = Append(sent, m)
  BY DEF Encode
<1>2. UNCHANGED <<in, got, refused>>
  BY DEF Encode
<1>. DEFINE m == [id |-> Len(sent) + 1, length |-> length]
<1>3. m \in Messages /\ m.id = Len(sent) + 1
  BY PayloadsAssumption DEF ChannelInv, Messages
<1>4. out' = Write(EnsureWritable(out, Len(Frame(m))), Frame(m)) /\ sent' = Append(sent, m)
  BY <1>1
<1>. HIDE DEF m
<1>5. /\ out \in Buffers(Bytes) /\ in \in Buffers(Bytes) /\ Empty \in Bytes
      /\ Frame(m) \in Seq(Bytes)
  BY <1>3, FrameParts DEF ChannelInv, Bytes
<1>6. out' \in Buffers(Bytes) /\ Content(out)' = Content(out) \o Frame(m)
  <2>1. /\ Write(EnsureWritable(out, Len(Frame(m))), Frame(m)) \in Buffers(Bytes)
        /\ Content(Write(EnsureWritable(out, Len(Frame(m))), Frame(m))) = Content(out) \o Frame(m)
    BY <1>5, DataIsAppended
  <2>. QED  BY <1>4, <2>1 DEF Content
<1>7. /\ sent' \in Seq(Messages) /\ Len(sent') = Len(sent) + 1 /\ Len(sent) \in Nat
      /\ sent'[Len(sent) + 1] = m /\ \A i \in 1 .. Len(sent) : sent'[i] = sent[i]
  <2>1. sent \in Seq(Messages)
    BY DEF ChannelInv
  <2>. QED  BY ONLY <1>3, <1>4, <2>1
<1>8. \A i \in 1 .. Len(sent') : sent'[i].id = i
  BY SMTT(60), <1>3, <1>7 DEF ChannelInv
<1>9. SubSeq(sent', 1, Len(got)) = SubSeq(sent, 1, Len(got))
  <2>1. PICK n \in Nat : n = Len(got) /\ n <= Len(sent)
    BY DEF ChannelInv
  <2>2. sent \in Seq(Messages)
    BY DEF ChannelInv
  <2>3. SubSeq(sent', 1, n) = SubSeq(sent, 1, n)
    BY ONLY <2>1, <2>2, <1>7, n \in Nat
  <2>. QED  BY <2>1, <2>3
<1>10. Content(in) \o (Content(out) \o Frame(m)) = FlattenSeq(Framed(sent', Len(got)))
  <2>1. /\ sent \in Seq(Messages) /\ Len(got) \in Nat /\ Len(got) <= Len(sent)
        /\ Content(in) \o Content(out) = FlattenSeq(Framed(sent, Len(got)))
    BY DEF ChannelInv
  <2>2. Framed(sent', Len(got)) = Append(Framed(sent, Len(got)), Frame(m))
    BY <1>3, <1>4, <2>1, FramedAppend
  <2>3. Framed(sent, Len(got)) \in Seq(Seq(Bytes))
    BY <2>1, FramedIs
  <2>4. FlattenSeq(Framed(sent', Len(got))) = (Content(in) \o Content(out)) \o Frame(m)
    BY <1>5, <2>1, <2>2, <2>3, FlattenAppend
  <2>5. Content(in) \in Seq(Bytes) /\ Content(out) \in Seq(Bytes)
    BY <1>5, ContentOf
  <2>6. PICK a \in Seq(Bytes), b \in Seq(Bytes), c \in Seq(Bytes) :
            a = Content(in) /\ b = Content(out) /\ c = Frame(m)
    BY <1>5, <2>5
  <2>7. (a \o b) \o c = a \o (b \o c)
    BY ONLY a \in Seq(Bytes), b \in Seq(Bytes), c \in Seq(Bytes)
  <2>. QED  BY <2>4, <2>6, <2>7
<1>11. Content(in)' = Content(in) /\ Len(got)' = Len(got) /\ got' = got
  BY <1>2 DEF Content
<1>12. (Framed(sent, Len(got)))' = Framed(sent', Len(got))
  BY <1>2 DEF Framed, Frame
<1>13. refused' => Len(got') < Len(sent') /\ sent'[Len(got') + 1].length > MaxMessageLength
  <2>. SUFFICES ASSUME refused PROVE Len(got) < Len(sent') /\ sent'[Len(got) + 1].length > MaxMessageLength
    BY <1>2
  <2>1. /\ Len(got) \in Nat /\ Len(got) < Len(sent)
        /\ sent[Len(got) + 1].length > MaxMessageLength
    BY DEF ChannelInv
  <2>2. Len(got) + 1 \in 1 .. Len(sent) /\ Len(got) < Len(sent')
    BY <1>7, <2>1
  <2>. QED  BY <1>7, <2>1, <2>2
<1>14. (Content(in) \o Content(out) = FlattenSeq(Framed(sent, Len(got))))'
  BY <1>6, <1>10, <1>11, <1>12
<1>15. /\ in' \in Buffers(Bytes) /\ Len(got') \in Nat /\ Len(got') <= Len(sent')
       /\ got' = SubSeq(sent', 1, Len(got'))
  BY <1>2, <1>7, <1>9 DEF ChannelInv
<1>. QED  BY <1>6, <1>7, <1>8, <1>13, <1>14, <1>15 DEF ChannelInv

LEMMA TransferStep ==
    ASSUME ChannelInv, Transfer
    PROVE  ChannelInv'
<1>1. PICK n \in 1 .. Readable(out) :
          /\ in' = Append_(in, SubSeq(Content(out), 1, n))
          /\ out' = Retrieve(out, n)
  BY DEF Transfer
<1>2. UNCHANGED <<sent, got, refused>>
  BY DEF Transfer
<1>3. /\ out \in Buffers(Bytes) /\ in \in Buffers(Bytes) /\ Empty \in Bytes
      /\ Content(in) \in Seq(Bytes) /\ Content(out) \in Seq(Bytes)
      /\ Len(Content(out)) = Readable(out) /\ Readable(out) \in Nat
  BY ContentOf DEF ChannelInv, Bytes
<1>4. PICK a \in Seq(Bytes), b \in Seq(Bytes) : a = Content(in) /\ b = Content(out)
  BY <1>3
<1>5. n \in Nat /\ 1 <= n /\ n <= Len(b)
  BY <1>3, <1>4
<1>6. SubSeq(b, 1, n) \in Seq(Bytes)
  BY ONLY b \in Seq(Bytes), <1>5
<1>7. in' \in Buffers(Bytes) /\ Content(in)' = a \o SubSeq(b, 1, n)
  <2>1. PICK x \in Seq(Bytes) : x = SubSeq(b, 1, n)
    BY <1>6
  <2>2. /\ Write(EnsureWritable(in, Len(x)), x) \in Buffers(Bytes)
        /\ Content(Write(EnsureWritable(in, Len(x)), x)) = Content(in) \o x
    BY <1>3, DataIsAppended
  <2>. QED  BY <1>1, <1>4, <2>1, <2>2 DEF Append_, Content
<1>8. out' \in Buffers(Bytes) /\ Content(out)' = SubSeq(b, n + 1, Len(b))
  <2>1. /\ Retrieve(out, n) \in Buffers(Bytes)
        /\ Content(Retrieve(out, n)) = SubSeq(Content(out), n + 1, Readable(out))
    BY <1>3, <1>4, <1>5, DataIsRetrieved
  <2>. QED  BY <1>1, <1>3, <1>4, <2>1 DEF Content
<1>9. (a \o SubSeq(b, 1, n)) \o SubSeq(b, n + 1, Len(b)) = a \o b
  <2>1. SubSeq(b, n + 1, Len(b)) \in Seq(Bytes)
    BY ONLY b \in Seq(Bytes), <1>5
  <2>2. b = SubSeq(b, 1, n) \o SubSeq(b, n + 1, Len(b))
    BY ONLY b \in Seq(Bytes), <1>5
  <2>3. PICK x \in Seq(Bytes), y \in Seq(Bytes) :
            x = SubSeq(b, 1, n) /\ y = SubSeq(b, n + 1, Len(b))
    BY <1>6, <2>1
  <2>4. (a \o x) \o y = a \o (x \o y)
    BY ONLY a \in Seq(Bytes), x \in Seq(Bytes), y \in Seq(Bytes)
  <2>. QED  BY <2>2, <2>3, <2>4
<1>10. (Content(in) \o Content(out))' = Content(in) \o Content(out)
  BY <1>4, <1>7, <1>8, <1>9
<1>11. (FlattenSeq(Framed(sent, Len(got))))' = FlattenSeq(Framed(sent, Len(got)))
  BY <1>2 DEF FlattenSeq, Framed, Frame
<1>. QED  BY <1>2, <1>7, <1>8, <1>10, <1>11 DEF ChannelInv

LEMMA DecodeStep ==
    ASSUME ChannelInv, Decode
    PROVE  ChannelInv'
<1>1. /\ in \in Buffers(Bytes) /\ out \in Buffers(Bytes)
      /\ sent \in Seq(Messages) /\ \A i \in 1 .. Len(sent) : sent[i].id = i
      /\ Len(got) \in Nat /\ Len(got) <= Len(sent) /\ got = SubSeq(sent, 1, Len(got))
      /\ Content(in) \o Content(out) = FlattenSeq(Framed(sent, Len(got)))
  BY DEF ChannelInv
<1>2. UNCHANGED <<out, sent>> /\ Readable(in) >= HeaderLength
  BY DEF Decode
<1>3. PICK n \in Nat : n = Len(got)
  BY <1>1
<1>4. PICK a \in Seq(Bytes), b \in Seq(Bytes) : a = Content(in) /\ b = Content(out)
  BY <1>1, ContentOf
<1>5. /\ Len(a) = Readable(in) /\ Len(a) \in Nat /\ HeaderLength \in Nat /\ HeaderLength > 1
      /\ HeaderLength <= Len(a)
  BY <1>1, <1>2, <1>4, ContentOf, HeaderAssumption
<1>6. n < Len(sent)
  <2>. SUFFICES ASSUME n = Len(sent) PROVE FALSE
    BY <1>1, <1>3
  <2>1. n <= Len(sent) /\ Len(sent) - n = 0
    BY <1>3
  <2>2. Framed(sent, n) \in Seq(Seq(Bytes)) /\ Len(Framed(sent, n)) = Len(sent) - n
    BY <1>1, <2>1, FramedIs
  <2>3. Framed(sent, n) \in Seq(Seq(Bytes)) /\ Len(Framed(sent, n)) = 0
    BY <2>1, <2>2
  <2>4. FlattenSeq(Framed(sent, n)) = <<>>
    BY <2>3 DEF FlattenSeq
  <2>5. a \o b = <<>>
    BY <1>1, <1>3, <1>4, <2>4
  <2>6. Len(a) + Len(b) = 0
    BY ONLY a \in Seq(Bytes), b \in Seq(Bytes), <2>5
  <2>7. Len(b) \in Nat
    OBVIOUS
  <2>. QED  BY <1>5, <2>6, <2>7
<1>7. PICK m \in Messages : m = sent[n + 1] /\ m.id = n + 1
  <2>1. n + 1 \in 1 .. Len(sent)
    BY <1>6
  <2>2. sent[n + 1] \in Messages
    BY <1>1, <2>1
  <2>. QED  BY <1>1, <2>1, <2>2
<1>8. PICK x \in Seq(Bytes), r \in Seq(Bytes) :
          x = Frame(m) /\ r = FlattenSeq(Framed(sent, n + 1))
  <2>1. n + 1 \in Nat /\ n + 1 <= Len(sent)
    BY <1>1, <1>6
  <2>2. FlattenSeq(Framed(sent, n + 1)) \in Seq(Bytes)
    BY <1>1, <2>1, FramedBytes
  <2>3. Frame(m) \in Seq(Bytes)
    BY FrameParts
  <2>. QED  BY <2>2, <2>3
<1>9. PICK u : u = a \o b
  OBVIOUS
<1>10. u = x \o r
  BY <1>1, <1>3, <1>4, <1>6, <1>7, <1>8, <1>9, FramedFirst
<1>11. /\ Len(x) = HeaderLength + m.length /\ m.length \in Nat
       /\ x[1] = <<"length", m.length>> /\ x[HeaderLength] = <<"id", m.id>>
  BY <1>7, <1>8, FrameParts DEF Messages
<1>12. a[1] = x[1] /\ a[HeaderLength] = x[HeaderLength]
  <2>1. /\ u \in Seq(Bytes) /\ Len(u) = Len(a) + Len(b)
        /\ \A i \in 1 .. Len(a) : u[i] = a[i]
    BY ONLY a \in Seq(Bytes), b \in Seq(Bytes), <1>9, TwoParts
  <2>2. \A i \in 1 .. Len(x) : u[i] = x[i]
    BY ONLY x \in Seq(Bytes), r \in Seq(Bytes), <1>10, TwoParts
  <2>3. /\ 1 \in 1 .. Len(a) /\ HeaderLength \in 1 .. Len(a)
        /\ 1 \in 1 .. Len(x) /\ HeaderLength \in 1 .. Len(x)
    <3>1. PICK h \in Nat, k \in Nat, l \in Nat, j \in Nat :
              h = HeaderLength /\ k = Len(a) /\ l = Len(x) /\ j = m.length
      <4>1. Len(x) \in Nat
        OBVIOUS
      <4>. QED  BY Zenon, <1>5, <1>11, <4>1
    <3>2. h > 1 /\ h <= k /\ l = h + j
      BY <1>5, <1>11, <3>1
    <3>3. 1 \in 1 .. k /\ h \in 1 .. k /\ 1 \in 1 .. l /\ h \in 1 .. l
      BY ONLY h \in Nat, k \in Nat, l \in Nat, j \in Nat, <3>2
    <3>. QED  BY ONLY ZenonT(60), <3>1, <3>3
  <2>4. a[1] = u[1] /\ a[HeaderLength] = u[HeaderLength]
    BY ONLY <2>1, <2>3
  <2>5. x[1] = u[1] /\ x[HeaderLength] = u[HeaderLength]
    BY ONLY <2>2, <2>3
  <2>. QED  BY <2>4, <2>5
<1>13. Content(in)[1][2] = m.length /\ Content(in)[HeaderLength][2] = m.id
  BY <1>4, <1>11, <1>12
<1>14. CASE m.length > MaxMessageLength /\ refused' = TRUE /\ UNCHANGED <<in, got>>
  <2>1. (Content(in) \o Content(out))' = Content(in) \o Content(out)
    BY <1>2, <1>14 DEF Content
  <2>2. (FlattenSeq(Framed(sent, Len(got))))' = FlattenSeq(Framed(sent, Len(got)))
    BY <1>2, <1>14 DEF FlattenSeq, Framed, Frame
  <2>3. /\ in' \in Buffers(Bytes) /\ out' \in Buffers(Bytes)
        /\ sent' \in Seq(Messages) /\ \A i \in 1 .. Len(sent') : sent'[i].id = i
        /\ Len(got') \in Nat /\ Len(got') <= Len(sent') /\ got' = SubSeq(sent', 1, Len(got'))
    BY <1>1, <1>2, <1>14
  <2>4. Len(got') < Len(sent') /\ sent'[Len(got') + 1].length > MaxMessageLength
    BY <1>2, <1>3, <1>6, <1>7, <1>14
  <2>. QED  BY <1>1, <2>1, <2>2, <2>3, <2>4 DEF ChannelInv
<1>15. CASE /\ m.length <= MaxMessageLength /\ Readable(in) >= HeaderLength + m.length
            /\ got' = Append(got, [id |-> m.id, length |-> m.length])
            /\ in' = Retrieve(in, HeaderLength + m.length)
            /\ UNCHANGED refused
  <2>1. Len(x) <= Len(a) /\ Len(x) \in Nat /\ Len(x) <= Readable(in)
    BY <1>5, <1>11, <1>15
  <2>2. in' \in Buffers(Bytes) /\ Content(in)' = SubSeq(a, Len(x) + 1, Len(a))
    <3>1. /\ Retrieve(in, Len(x)) \in Buffers(Bytes)
          /\ Content(Retrieve(in, Len(x))) = SubSeq(Content(in), Len(x) + 1, Readable(in))
      BY <1>1, <2>1, DataIsRetrieved
    <3>. QED  BY <1>4, <1>5, <1>11, <1>15, <3>1 DEF Content
  <2>3. PICK c : c = SubSeq(a, Len(x) + 1, Len(a))
    OBVIOUS
  <2>4. PICK d : d = c \o b
    OBVIOUS
  <2>5. Len(x) <= Len(a)
    BY <2>1
  <2>6. d = r
    <3>1. /\ u \in Seq(Bytes) /\ Len(u) = Len(a) + Len(b)
          /\ \A i \in 1 .. Len(a) : u[i] = a[i]
          /\ \A i \in 1 .. Len(b) : u[Len(a) + i] = b[i]
      BY ONLY a \in Seq(Bytes), b \in Seq(Bytes), <1>9, TwoParts
    <3>2. /\ u \in Seq(Bytes) /\ Len(u) = Len(x) + Len(r)
          /\ \A i \in 1 .. Len(x) : u[i] = x[i]
          /\ \A i \in 1 .. Len(r) : u[Len(x) + i] = r[i]
      BY ONLY x \in Seq(Bytes), r \in Seq(Bytes), <1>10, TwoParts
    <3>3. /\ Len(a) \in Nat /\ Len(b) \in Nat /\ Len(x) \in Nat /\ Len(r) \in Nat
      OBVIOUS
    <3>4. /\ SubSeq(a, Len(x) + 1, Len(a)) \in Seq(Bytes)
          /\ Len(SubSeq(a, Len(x) + 1, Len(a))) = Len(a) - Len(x)
          /\ \A i \in 1 .. Len(a) - Len(x) : SubSeq(a, Len(x) + 1, Len(a))[i] = a[Len(x) + i]
      BY ONLY a \in Seq(Bytes), x \in Seq(Bytes), <3>3, <2>5
    <3>5. c \in Seq(Bytes)
      BY <2>3, <3>4
    <3>6. Len(c) = Len(a) - Len(x) /\ \A i \in 1 .. Len(a) - Len(x) : c[i] = a[Len(x) + i]
      BY <2>3, <3>4
    <3>7. d = c \o b
      BY <2>4
    <3>8. /\ d \in Seq(Bytes) /\ Len(d) = Len(c) + Len(b)
          /\ \A i \in 1 .. Len(c) : d[i] = c[i]
          /\ \A i \in 1 .. Len(b) : d[Len(c) + i] = b[i]
      BY ONLY <3>5, b \in Seq(Bytes), <3>7, TwoParts
    <3>9. Len(d) = Len(r)
      <4>1. Len(u) = Len(a) + Len(b) /\ Len(u) = Len(x) + Len(r)
        BY <3>1, <3>2
      <4>2. Len(d) = (Len(a) - Len(x)) + Len(b)
        BY <3>6, <3>8
      <4>. QED  BY ONLY <3>3, <4>1, <4>2
    <3>10. ASSUME NEW i \in 1 .. Len(r) PROVE d[i] = r[i]
      <4>1. u[Len(x) + i] = r[i]
        BY <3>2
      <4>2. CASE i <= Len(c)
        <5>1. i \in 1 .. Len(c) /\ i \in 1 .. Len(a) - Len(x) /\ Len(x) + i \in 1 .. Len(a)
          BY ONLY <3>3, <3>6, <4>2, i \in 1 .. Len(r)
        <5>. QED  BY <3>1, <3>6, <3>8, <4>1, <5>1
      <4>3. CASE ~ (i <= Len(c))
        <5>1. /\ i - Len(c) \in 1 .. Len(b) /\ Len(c) + (i - Len(c)) = i
              /\ Len(a) + (i - Len(c)) = Len(x) + i
          BY ONLY <3>3, <3>6, <3>8, <3>9, <4>3, i \in 1 .. Len(r)
        <5>2. d[Len(c) + (i - Len(c))] = b[i - Len(c)]
          BY <3>8, <5>1
        <5>3. u[Len(a) + (i - Len(c))] = b[i - Len(c)]
          BY <3>1, <5>1
        <5>. QED  BY <4>1, <5>1, <5>2, <5>3
      <4>. QED  BY <4>2, <4>3
    <3>11. d \in Seq(Bytes)
      BY <3>8
    <3>12. d = r
      BY ONLY SMTT(60), <3>9, <3>10, <3>11, r \in Seq(Bytes)
    <3>. QED  BY <3>12
  <2>7. (Content(in) \o Content(out))' = d
    BY <1>2, <1>4, <2>2, <2>3, <2>4 DEF Content
  <2>8. [id |-> m.id, length |-> m.length] = m
    BY DEF Messages
  <2>9. got' = SubSeq(sent, 1, n + 1) /\ Len(got') = n + 1
    <3>1. PICK s \in Seq(Messages) : s = sent
      BY <1>1
    <3>2. got = SubSeq(s, 1, n) /\ n + 1 <= Len(s) /\ m = s[n + 1]
      BY <1>1, <1>3, <1>6, <1>7, <3>1
    <3>3. Append(SubSeq(s, 1, n), s[n + 1]) = SubSeq(s, 1, n + 1) /\ Len(SubSeq(s, 1, n + 1)) = n + 1
      BY ONLY s \in Seq(Messages), n \in Nat, <3>2
    <3>. QED  BY <1>15, <2>8, <3>1, <3>2, <3>3
  <2>10. (FlattenSeq(Framed(sent, Len(got))))' = r
    <3>1. (FlattenSeq(Framed(sent, Len(got))))' = FlattenSeq(Framed(sent', Len(got')))
      BY DEF FlattenSeq, Framed, Frame
    <3>. QED  BY <1>2, <1>8, <2>9, <3>1
  <2>11. ~ refused'
    <3>. SUFFICES ASSUME refused PROVE FALSE
      BY <1>15
    <3>1. sent[n + 1].length > MaxMessageLength
      BY <1>3 DEF ChannelInv
    <3>2. m.length > MaxMessageLength
      BY <1>7, <3>1
    <3>. QED  BY <1>11, <1>15, <3>2, PayloadsAssumption
  <2>12. /\ Len(got') \in Nat /\ Len(got') <= Len(sent') /\ got' = SubSeq(sent', 1, Len(got'))
    BY <1>1, <1>2, <1>6, <2>9
  <2>13. /\ out' \in Buffers(Bytes)
         /\ sent' \in Seq(Messages) /\ \A i \in 1 .. Len(sent') : sent'[i].id = i
    BY <1>1, <1>2
  <2>. QED  BY <2>2, <2>6, <2>7, <2>10, <2>11, <2>12, <2>13 DEF ChannelInv
<1>. QED  BY <1>13, <1>14, <1>15 DEF Decode

\* For any sizes of the buffers and any messages, however the bytes are cut into
\* pieces, the messages arrive as they were sent and in order, and what is in the
\* buffers is the frames of the rest (encode and decode of RpcCodec, append,
\* retrieve and makeSpace of Buffer).
THEOREM FramesDoArrive == Spec => []FramesArrive
<1>1. Init => ChannelInv
  BY ChannelStart DEF Init
<1>2. ChannelInv /\ [Next]_vars => ChannelInv'
  <2>. SUFFICES ASSUME ChannelInv, [Next]_vars PROVE ChannelInv'
    OBVIOUS
  <2>1. CASE ChannelNext
    BY <2>1, EncodeStep, TransferStep, DecodeStep DEF ChannelNext
  <2>2. CASE UNCHANGED channelVars
    <3>1. UNCHANGED <<out, in, sent, got, refused>>
      BY <2>2 DEF channelVars
    <3>2. (Content(in) \o Content(out))' = Content(in) \o Content(out)
      BY <3>1 DEF Content
    <3>3. (FlattenSeq(Framed(sent, Len(got))))' = FlattenSeq(Framed(sent, Len(got)))
      BY <3>1 DEF FlattenSeq, Framed, Frame
    <3>. QED  BY <3>1, <3>2, <3>3 DEF ChannelInv
  <2>. QED  BY <2>1, <2>2 DEF Next, vars
<1>3. ChannelInv => FramesArrive
  BY DEF ChannelInv, FramesArrive, Buffers, Framed
<1>. QED  BY <1>1, <1>2, <1>3, PTL DEF Spec

-----------------------------------------------------------------------------
(* The cache (src/recommend/FeatureStore.hpp)                                *)

\* The orders a list may have, its nodes, and the places of a list of order o with
\* the sentinels at both ends.
Orders == {o \in Seq(Keys) : \A i, j \in 1 .. Len(o) : o[i] = o[j] => i = j}

Listed(o) == {o[i] : i \in 1 .. Len(o)}

Place(o, i) == IF i = 0 THEN Head0 ELSE IF i = Len(o) + 1 THEN Tail0 ELSE o[i]

\* The pointers of c make a list of order o; the nodes of stray have left it.
Links(c, o, stray) ==
    /\ c = [next |-> c.next, prev |-> c.prev, value |-> c.value]
    /\ o \in Orders /\ stray \subseteq Keys /\ stray \cap Listed(o) = {}
    /\ DOMAIN c.next = {Head0} \union Listed(o) \union stray
    /\ DOMAIN c.prev = {Tail0} \union Listed(o) \union stray
    /\ \A i \in 0 .. Len(o) : /\ c.next[Place(o, i)] = Place(o, i + 1)
                              /\ c.prev[Place(o, i + 1)] = Place(o, i)

CacheInv ==
    /\ capacity \in Nat
    /\ Links(cache, Order(cache), {})
    /\ Cached(cache) = Listed(Order(cache))
    /\ Len(Order(cache)) <= capacity

LEMMA PlacesDiffer ==
    ASSUME NEW o \in Orders
    PROVE  /\ Len(o) \in Nat
           /\ \A i \in 1 .. Len(o) : o[i] \in Keys /\ o[i] \in Nat
           /\ \A i, j \in 0 .. Len(o) + 1 : Place(o, i) = Place(o, j) => i = j
           /\ \A i \in 0 .. Len(o) : Place(o, i) \in {Head0} \union Listed(o)
           /\ \A i \in 1 .. Len(o) + 1 : Place(o, i) \in {Tail0} \union Listed(o)
<1>1. Len(o) \in Nat /\ o \in Seq(Keys) /\ \A i, j \in 1 .. Len(o) : o[i] = o[j] => i = j
  BY DEF Orders
<1>2. \A i \in 1 .. Len(o) : o[i] \in Keys /\ o[i] \in Nat
  <2>1. \A i \in 1 .. Len(o) : o[i] \in Keys
    BY <1>1
  <2>2. \A x \in Keys : x \in Nat
    BY Zenon, KeysAssumption
  <2>. QED  BY <2>1, <2>2
<1>3. ASSUME NEW i \in 0 .. Len(o) + 1, NEW j \in 0 .. Len(o) + 1, Place(o, i) = Place(o, j)
      PROVE  i = j
  <2>1. /\ i # 0 /\ i # Len(o) + 1 => i \in 1 .. Len(o)
        /\ j # 0 /\ j # Len(o) + 1 => j \in 1 .. Len(o)
    BY <1>1
  <2>2. Head0 \notin Nat /\ Tail0 \notin Nat /\ Head0 # Tail0
    BY DEF Head0, Tail0
  <2>. QED  BY <1>1, <1>2, <1>3, <2>1, <2>2 DEF Place
<1>4. \A i \in 0 .. Len(o) : Place(o, i) \in {Head0} \union Listed(o)
  BY <1>1 DEF Place, Listed
<1>5. \A i \in 1 .. Len(o) + 1 : Place(o, i) \in {Tail0} \union Listed(o)
  BY <1>1 DEF Place, Listed
<1>. QED  BY <1>1, <1>2, <1>3, <1>4, <1>5

\* removeNode: the neighbours are linked to each other.
RemovedAt(o, j) == [i \in 1 .. Len(o) - 1 |-> IF i < j THEN o[i] ELSE o[i + 1]]

LEMMA RemovedOrder ==
    ASSUME NEW o \in Orders, NEW j \in 1 .. Len(o)
    PROVE  /\ RemovedAt(o, j) \in Orders /\ Len(RemovedAt(o, j)) = Len(o) - 1
           /\ Listed(RemovedAt(o, j)) = Listed(o) \ {o[j]}
           /\ \A i \in 0 .. Len(o) : Place(RemovedAt(o, j), i) =
                                        IF i < j THEN Place(o, i) ELSE Place(o, i + 1)
<1>. DEFINE q == RemovedAt(o, j)
<1>1. /\ o \in Seq(Keys) /\ Len(o) \in Nat /\ Len(o) - 1 \in Nat
      /\ \A h, i \in 1 .. Len(o) : o[h] = o[i] => h = i
      /\ \A i \in 1 .. Len(o) : o[i] \in Keys
  BY PlacesDiffer DEF Orders
<1>2. \A i \in 1 .. Len(o) - 1 : q[i] = IF i < j THEN o[i] ELSE o[i + 1]
  BY DEF RemovedAt
<1>3. q \in Seq(Keys) /\ Len(q) = Len(o) - 1
  <2>1. q \in [1 .. Len(o) - 1 -> Keys]
    BY <1>1 DEF RemovedAt
  <2>. QED  BY <1>1, <2>1
<1>. HIDE DEF q
<1>4. ASSUME NEW h \in 1 .. Len(q), NEW i \in 1 .. Len(q), q[h] = q[i] PROVE h = i
  <2>1. /\ h \in 1 .. Len(o) /\ h + 1 \in 1 .. Len(o) /\ i \in 1 .. Len(o) /\ i + 1 \in 1 .. Len(o)
        /\ h \in 1 .. Len(o) - 1 /\ i \in 1 .. Len(o) - 1
    BY <1>1, <1>3
  <2>. QED  BY <1>1, <1>2, <1>4, <2>1
<1>5. Listed(q) = Listed(o) \ {o[j]}
  <2>1. ASSUME NEW i \in 1 .. Len(q) PROVE q[i] \in Listed(o) \ {o[j]}
    <3>1. i \in 1 .. Len(o) - 1 /\ i \in 1 .. Len(o) /\ i + 1 \in 1 .. Len(o) /\ (i >= j => i + 1 # j)
      BY <1>1, <1>3
    <3>. QED  BY <1>1, <1>2, <3>1 DEF Listed
  <2>2. ASSUME NEW i \in 1 .. Len(o), o[i] # o[j] PROVE o[i] \in Listed(q)
    <3>1. CASE i < j
      <4>1. i \in 1 .. Len(q) /\ i \in 1 .. Len(o) - 1
        BY <1>1, <1>3, <3>1
      <4>. QED  BY <1>2, <3>1, <4>1 DEF Listed
    <3>2. CASE ~ (i < j)
      <4>1. i # j
        BY <2>2
      <4>2. i - 1 \in 1 .. Len(q) /\ i - 1 \in 1 .. Len(o) - 1 /\ ~ (i - 1 < j) /\ (i - 1) + 1 = i
        BY <1>1, <1>3, <3>2, <4>1
      <4>3. q[i - 1] = o[i]
        BY <1>2, <4>2
      <4>. QED  BY <4>2, <4>3 DEF Listed
    <3>. QED  BY <3>1, <3>2
  <2>. QED  BY <2>1, <2>2 DEF Listed
<1>6. ASSUME NEW i \in 0 .. Len(o)
      PROVE  Place(q, i) = IF i < j THEN Place(o, i) ELSE Place(o, i + 1)
  <2>1. CASE i = 0
    BY <2>1 DEF Place
  <2>2. CASE i = Len(o)
    <3>1. i = Len(q) + 1 /\ i # 0 /\ ~ (i < j) /\ i + 1 # 0 /\ i + 1 = Len(o) + 1
      BY <1>1, <1>3, <2>2
    <3>. QED  BY <3>1 DEF Place
  <2>3. CASE i # 0 /\ i # Len(o)
    <3>1. /\ i \in 1 .. Len(o) - 1 /\ i # Len(q) + 1 /\ i # Len(o) + 1 /\ i + 1 # 0
          /\ i + 1 # Len(o) + 1
      BY <1>1, <1>3, <2>3
    <3>. QED  BY <1>2, <2>3, <3>1 DEF Place
  <2>. QED  BY <2>1, <2>2, <2>3
<1>. QED  BY <1>3, <1>4, <1>5, <1>6 DEF q, Orders

LEMMA NodeRemoved ==
    ASSUME NEW c, NEW o, NEW stray, Links(c, o, stray), NEW j \in 1 .. Len(o)
    PROVE  /\ Links(RemoveNode(c, o[j]), RemovedAt(o, j), stray \union {o[j]})
           /\ RemoveNode(c, o[j]).value = c.value
<1>. DEFINE q == RemovedAt(o, j)
            d == RemoveNode(c, o[j])
            nxt == [c.next EXCEPT ![Place(o, j - 1)] = Place(o, j + 1)]
            prv == [c.prev EXCEPT ![Place(o, j + 1)] = Place(o, j - 1)]
<1>1. /\ o \in Orders /\ stray \subseteq Keys /\ stray \cap Listed(o) = {}
      /\ DOMAIN c.next = {Head0} \union Listed(o) \union stray
      /\ DOMAIN c.prev = {Tail0} \union Listed(o) \union stray
      /\ c = [next |-> c.next, prev |-> c.prev, value |-> c.value]
  BY DEF Links
<1>2. /\ \A i \in 0 .. Len(o) : c.next[Place(o, i)] = Place(o, i + 1)
      /\ \A i \in 0 .. Len(o) : c.prev[Place(o, i + 1)] = Place(o, i)
  BY DEF Links
<1>3. /\ Len(o) \in Nat /\ o[j] \in Keys /\ o[j] = Place(o, j) /\ o[j] \in Listed(o)
      /\ \A h, i \in 0 .. Len(o) + 1 : Place(o, h) = Place(o, i) => h = i
      /\ \A i \in 0 .. Len(o) : Place(o, i) \in {Head0} \union Listed(o)
      /\ \A i \in 1 .. Len(o) + 1 : Place(o, i) \in {Tail0} \union Listed(o)
  BY <1>1, PlacesDiffer DEF Place, Listed
<1>4. /\ q \in Orders /\ Len(q) = Len(o) - 1 /\ Listed(q) = Listed(o) \ {o[j]}
      /\ \A i \in 0 .. Len(o) : Place(q, i) = IF i < j THEN Place(o, i) ELSE Place(o, i + 1)
  BY <1>1, RemovedOrder
<1>. HIDE DEF q
<1>5. c.next[o[j]] = Place(o, j + 1) /\ c.prev[o[j]] = Place(o, j - 1)
  <2>1. j \in 0 .. Len(o) /\ j - 1 \in 0 .. Len(o) /\ (j - 1) + 1 = j
    BY <1>3
  <2>2. c.next[Place(o, j)] = Place(o, j + 1)
    BY <1>2, <2>1
  <2>3. c.prev[Place(o, (j - 1) + 1)] = Place(o, j - 1)
    BY <1>2, <2>1
  <2>. QED  BY <1>3, <2>1, <2>2, <2>3
<1>6. d = [next |-> nxt, prev |-> prv, value |-> c.value]
  <2>1. d = [c EXCEPT !.next[c.prev[o[j]]] = c.next[o[j]], !.prev[c.next[o[j]]] = c.prev[o[j]]]
    BY DEF RemoveNode
  <2>2. d = [c EXCEPT !.next[Place(o, j - 1)] = Place(o, j + 1),
                      !.prev[Place(o, j + 1)] = Place(o, j - 1)]
    BY ONLY <1>5, <2>1, Zenon
  <2>. QED  BY <1>1, <2>2
<1>7. DOMAIN nxt = DOMAIN c.next /\ DOMAIN prv = DOMAIN c.prev
  OBVIOUS
<1>8. /\ Place(o, j - 1) \in DOMAIN c.next /\ Place(o, j + 1) \in DOMAIN c.prev
  <2>1. j - 1 \in 0 .. Len(o) /\ j + 1 \in 1 .. Len(o) + 1
    BY <1>3
  <2>. QED  BY <1>1, <1>3, <2>1
<1>9. /\ \A x \in DOMAIN c.next : x # Place(o, j - 1) => nxt[x] = c.next[x]
      /\ \A x \in DOMAIN c.prev : x # Place(o, j + 1) => prv[x] = c.prev[x]
      /\ nxt[Place(o, j - 1)] = Place(o, j + 1)
      /\ prv[Place(o, j + 1)] = Place(o, j - 1)
  BY <1>8
<1>. HIDE DEF nxt, prv
<1>10. ASSUME NEW i \in 0 .. Len(q)
       PROVE  nxt[Place(q, i)] = Place(q, i + 1) /\ prv[Place(q, i + 1)] = Place(q, i)
  <2>1. i \in 0 .. Len(o) /\ i + 1 \in 0 .. Len(o) /\ (i + 1) + 1 = i + 2
    BY <1>3, <1>4
  <2>2. CASE i < j - 1
    <3>1. /\ i < j /\ i + 1 < j /\ i \in 0 .. Len(o) + 1 /\ j - 1 \in 0 .. Len(o) + 1 /\ i # j - 1
          /\ i + 1 \in 0 .. Len(o) + 1 /\ i + 1 \in 1 .. Len(o) + 1
          /\ j + 1 \in 0 .. Len(o) + 1 /\ i + 1 # j + 1
      BY <1>3, <2>1, <2>2
    <3>2. Place(q, i) = Place(o, i) /\ Place(q, i + 1) = Place(o, i + 1)
      BY <1>4, <2>1, <3>1
    <3>3. Place(o, i) # Place(o, j - 1) /\ Place(o, i + 1) # Place(o, j + 1)
      BY <1>3, <3>1
    <3>4. Place(o, i) \in DOMAIN c.next /\ Place(o, i + 1) \in DOMAIN c.prev
      BY <1>1, <1>3, <2>1, <3>1
    <3>. QED  BY <1>2, <1>9, <2>1, <3>2, <3>3, <3>4
  <2>3. CASE i = j - 1
    <3>1. i < j /\ ~ (i + 1 < j) /\ i + 2 = j + 1
      BY <2>3
    <3>2. Place(q, i) = Place(o, j - 1) /\ Place(q, i + 1) = Place(o, j + 1)
      BY <1>4, <2>1, <2>3, <3>1
    <3>. QED  BY <1>9, <3>2
  <2>4. CASE i > j - 1
    <3>1. /\ ~ (i < j) /\ ~ (i + 1 < j) /\ i + 1 \in 0 .. Len(o) + 1 /\ j - 1 \in 0 .. Len(o) + 1
          /\ i + 1 # j - 1 /\ i + 2 \in 0 .. Len(o) + 1 /\ i + 2 \in 1 .. Len(o) + 1
          /\ j + 1 \in 0 .. Len(o) + 1 /\ i + 2 # j + 1
      BY <1>3, <1>4, <2>1, <2>4
    <3>2. Place(q, i) = Place(o, i + 1) /\ Place(q, i + 1) = Place(o, i + 2)
      BY <1>4, <2>1, <3>1
    <3>3. Place(o, i + 1) # Place(o, j - 1) /\ Place(o, i + 2) # Place(o, j + 1)
      BY <1>3, <3>1
    <3>4. Place(o, i + 1) \in DOMAIN c.next /\ Place(o, i + 2) \in DOMAIN c.prev
      BY <1>1, <1>3, <2>1, <3>1
    <3>5. c.next[Place(o, i + 1)] = Place(o, i + 2) /\ c.prev[Place(o, i + 2)] = Place(o, i + 1)
      BY <1>2, <2>1
    <3>. QED  BY <1>9, <3>2, <3>3, <3>4, <3>5
  <2>. QED  BY <1>3, <2>2, <2>3, <2>4
<1>11. /\ stray \union {o[j]} \subseteq Keys /\ (stray \union {o[j]}) \cap Listed(q) = {}
       /\ DOMAIN nxt = {Head0} \union Listed(q) \union (stray \union {o[j]})
       /\ DOMAIN prv = {Tail0} \union Listed(q) \union (stray \union {o[j]})
  BY <1>1, <1>3, <1>4, <1>7
<1>12. Links([next |-> nxt, prev |-> prv, value |-> c.value], q, stray \union {o[j]})
  BY <1>4, <1>10, <1>11 DEF Links
<1>. QED  BY <1>6, <1>12 DEF q

\* insertToHead: the node comes in front of all.
InsertedIn(o, k) == [i \in 1 .. Len(o) + 1 |-> IF i = 1 THEN k ELSE o[i - 1]]

LEMMA InsertedOrder ==
    ASSUME NEW o \in Orders, NEW k \in Keys, k \notin Listed(o)
    PROVE  /\ InsertedIn(o, k) \in Orders /\ Len(InsertedIn(o, k)) = Len(o) + 1
           /\ Listed(InsertedIn(o, k)) = Listed(o) \union {k}
           /\ \A i \in 1 .. Len(o) + 2 : Place(InsertedIn(o, k), i) =
                                            IF i = 1 THEN k ELSE Place(o, i - 1)
<1>. DEFINE q == InsertedIn(o, k)
<1>1. /\ o \in Seq(Keys) /\ Len(o) \in Nat /\ Len(o) + 1 \in Nat
      /\ \A h, i \in 1 .. Len(o) : o[h] = o[i] => h = i
      /\ \A i \in 1 .. Len(o) : o[i] \in Keys /\ o[i] # k
  BY PlacesDiffer DEF Orders, Listed
<1>2. \A i \in 1 .. Len(o) + 1 : q[i] = IF i = 1 THEN k ELSE o[i - 1]
  BY DEF InsertedIn
<1>3. q \in Seq(Keys) /\ Len(q) = Len(o) + 1
  <2>1. q \in [1 .. Len(o) + 1 -> Keys]
    BY <1>1 DEF InsertedIn
  <2>. QED  BY <1>1, <2>1
<1>. HIDE DEF q
<1>4. ASSUME NEW h \in 1 .. Len(q), NEW i \in 1 .. Len(q), q[h] = q[i] PROVE h = i
  <2>1. /\ h \in 1 .. Len(o) + 1 /\ i \in 1 .. Len(o) + 1
        /\ h # 1 => h - 1 \in 1 .. Len(o)
        /\ i # 1 => i - 1 \in 1 .. Len(o)
    BY <1>1, <1>3
  <2>. QED  BY SMTT(60), <1>1, <1>2, <1>4, <2>1
<1>5. Listed(q) = Listed(o) \union {k}
  <2>1. ASSUME NEW i \in 1 .. Len(q) PROVE q[i] \in Listed(o) \union {k}
    <3>1. i \in 1 .. Len(o) + 1 /\ (i # 1 => i - 1 \in 1 .. Len(o))
      BY <1>1, <1>3
    <3>. QED  BY <1>2, <3>1 DEF Listed
  <2>2. ASSUME NEW i \in 1 .. Len(o) PROVE o[i] \in Listed(q)
    <3>1. /\ i + 1 \in 1 .. Len(q) /\ i + 1 \in 1 .. Len(o) + 1 /\ i + 1 # 1
          /\ (i + 1) - 1 = i
      BY <1>1, <1>3
    <3>2. q[i + 1] = o[i]
      BY <1>2, <3>1
    <3>. QED  BY <3>1, <3>2 DEF Listed
  <2>3. k \in Listed(q)
    <3>1. 1 \in 1 .. Len(q) /\ 1 \in 1 .. Len(o) + 1
      BY <1>1, <1>3
    <3>. QED  BY <1>2, <3>1 DEF Listed
  <2>. QED  BY <2>1, <2>2, <2>3 DEF Listed
<1>6. ASSUME NEW i \in 1 .. Len(o) + 2
      PROVE  Place(q, i) = IF i = 1 THEN k ELSE Place(o, i - 1)
  <2>1. CASE i = Len(o) + 2
    <3>1. i = Len(q) + 1 /\ i # 0 /\ i # 1 /\ i - 1 # 0 /\ i - 1 = Len(o) + 1
      BY <1>1, <1>3, <2>1
    <3>. QED  BY <3>1 DEF Place
  <2>2. CASE i # Len(o) + 2
    <3>1. /\ i \in 1 .. Len(o) + 1 /\ i # Len(q) + 1 /\ i # 0 /\ i - 1 # Len(o) + 1
          /\ (i # 1 => i - 1 # 0)
      BY <1>1, <1>3, <2>2
    <3>. QED  BY <1>2, <3>1 DEF Place
  <2>. QED  BY <2>1, <2>2
<1>. QED  BY <1>3, <1>4, <1>5, <1>6 DEF q, Orders

LEMMA NodeInserted ==
    ASSUME NEW c, NEW o, NEW stray, Links(c, o, stray), NEW k \in Keys, k \notin Listed(o)
    PROVE  /\ Links(InsertToHead(c, k), InsertedIn(o, k), stray \ {k})
           /\ InsertToHead(c, k).value = c.value
<1>. DEFINE q == InsertedIn(o, k)
            first == Place(o, 1)
            nxt == Binding(Binding(c.next, k, first), Head0, k)
            prv == Binding(Binding(c.prev, k, Head0), first, k)
<1>1. /\ o \in Orders /\ stray \subseteq Keys /\ stray \cap Listed(o) = {}
      /\ DOMAIN c.next = {Head0} \union Listed(o) \union stray
      /\ DOMAIN c.prev = {Tail0} \union Listed(o) \union stray
      /\ c = [next |-> c.next, prev |-> c.prev, value |-> c.value]
  BY DEF Links
<1>2. /\ \A i \in 0 .. Len(o) : c.next[Place(o, i)] = Place(o, i + 1)
      /\ \A i \in 0 .. Len(o) : c.prev[Place(o, i + 1)] = Place(o, i)
  BY DEF Links
<1>3. /\ Len(o) \in Nat
      /\ \A h, i \in 0 .. Len(o) + 1 : Place(o, h) = Place(o, i) => h = i
      /\ \A i \in 0 .. Len(o) : Place(o, i) \in {Head0} \union Listed(o)
      /\ \A i \in 1 .. Len(o) + 1 : Place(o, i) \in {Tail0} \union Listed(o)
      /\ Place(o, 0) = Head0
  BY <1>1, PlacesDiffer DEF Place
<1>4. /\ q \in Orders /\ Len(q) = Len(o) + 1 /\ Listed(q) = Listed(o) \union {k}
      /\ \A i \in 1 .. Len(o) + 2 : Place(q, i) = IF i = 1 THEN k ELSE Place(o, i - 1)
      /\ Place(q, 0) = Head0
  BY <1>1, InsertedOrder DEF Place
<1>5. k # Head0 /\ k # Tail0 /\ Head0 # Tail0
  <2>1. k \in Nat
    BY Zenon, KeysAssumption
  <2>. QED  BY <2>1 DEF Head0, Tail0
<1>6. c.next[Head0] = first
  <2>1. 0 \in 0 .. Len(o)
    BY <1>3
  <2>2. c.next[Place(o, 0)] = Place(o, 0 + 1)
    BY <1>2, <2>1
  <2>. QED  BY <1>3, <2>2
<1>7. first # k /\ first \in {Tail0} \union Listed(o)
  <2>1. 1 \in 1 .. Len(o) + 1
    BY <1>3
  <2>. QED  BY <1>3, <1>5, <2>1
<1>. HIDE DEF q
<1>8. InsertToHead(c, k) = [next |-> nxt, prev |-> prv, value |-> c.value]
  <2>1. InsertToHead(c, k) = [c EXCEPT !.next = nxt, !.prev = prv]
    BY <1>1, <1>6, Zenon DEF InsertToHead
  <2>. HIDE DEF nxt, prv
  <2>. QED  BY <1>1, <2>1
<1>9. /\ DOMAIN nxt = {Head0} \union Listed(q) \union (stray \ {k})
      /\ DOMAIN prv = {Tail0} \union Listed(q) \union (stray \ {k})
  <2>1. /\ DOMAIN nxt = DOMAIN c.next \union {k} \union {Head0}
        /\ DOMAIN prv = DOMAIN c.prev \union {k} \union {first}
    BY DEF Binding
  <2>. HIDE DEF nxt, prv, first
  <2>. QED  BY <1>1, <1>4, <1>7, <2>1
<1>10. /\ nxt[Head0] = k /\ nxt[k] = first
       /\ \A x \in DOMAIN c.next : x # k /\ x # Head0 => nxt[x] = c.next[x]
  BY <1>1, <1>5 DEF Binding
<1>11. /\ prv[first] = k /\ prv[k] = Head0
       /\ \A x \in DOMAIN c.prev : x # k /\ x # first => prv[x] = c.prev[x]
  BY <1>1, <1>5, <1>7 DEF Binding
<1>. HIDE DEF nxt, prv
<1>12. ASSUME NEW i \in 0 .. Len(q)
       PROVE  nxt[Place(q, i)] = Place(q, i + 1) /\ prv[Place(q, i + 1)] = Place(q, i)
  <2>1. CASE i = 0
    <3>1. 0 + 1 \in 1 .. Len(o) + 2
      BY <1>3
    <3>2. Place(q, 0 + 1) = k
      BY <1>4, <3>1
    <3>. QED  BY <1>4, <1>10, <1>11, <2>1, <3>2
  <2>2. CASE i = 1
    <3>1. 1 \in 1 .. Len(o) + 2 /\ 1 + 1 \in 1 .. Len(o) + 2 /\ (1 + 1) - 1 = 1 /\ 1 + 1 # 1
      BY <1>3
    <3>2. Place(q, 1) = k /\ Place(q, 1 + 1) = first
      BY <1>4, <3>1
    <3>. QED  BY <1>10, <1>11, <2>2, <3>2
  <2>3. CASE i > 1
    <3>1. /\ i \in 1 .. Len(o) + 2 /\ i + 1 \in 1 .. Len(o) + 2 /\ i # 1 /\ i + 1 # 1
          /\ (i + 1) - 1 = i /\ (i - 1) + 1 = i /\ i - 1 \in 0 .. Len(o) /\ i - 1 # 0
          /\ i - 1 \in 0 .. Len(o) + 1 /\ 0 \in 0 .. Len(o) + 1
          /\ i \in 1 .. Len(o) + 1 /\ i \in 0 .. Len(o) + 1 /\ 1 \in 0 .. Len(o) + 1
      BY <1>3, <1>4, <2>3
    <3>2. Place(q, i) = Place(o, i - 1) /\ Place(q, i + 1) = Place(o, i)
      BY <1>4, <3>1
    <3>3. /\ c.next[Place(o, i - 1)] = Place(o, i) /\ c.prev[Place(o, i)] = Place(o, i - 1)
      <4>1. /\ c.next[Place(o, i - 1)] = Place(o, (i - 1) + 1)
            /\ c.prev[Place(o, (i - 1) + 1)] = Place(o, i - 1)
        BY <1>2, <3>1
      <4>. QED  BY <3>1, <4>1
    <3>4. Place(o, i - 1) # Head0 /\ Place(o, i) # first
      <4>1. Place(o, i - 1) # Place(o, 0) /\ Place(o, i) # Place(o, 1)
        BY <1>3, <3>1
      <4>. QED  BY <1>3, <4>1
    <3>5. Place(o, i - 1) \in DOMAIN c.next /\ Place(o, i) \in DOMAIN c.prev
      BY <1>1, <1>3, <3>1
    <3>6. Place(o, i - 1) # k /\ Place(o, i) # k
      BY <1>3, <1>5, <3>1
    <3>. QED  BY <1>10, <1>11, <3>2, <3>3, <3>4, <3>5, <3>6
  <2>. QED  BY <1>4, <2>1, <2>2, <2>3
<1>13. stray \ {k} \subseteq Keys /\ (stray \ {k}) \cap Listed(q) = {}
  BY <1>1, <1>4
<1>14. Links([next |-> nxt, prev |-> prv, value |-> c.value], q, stray \ {k})
  BY <1>4, <1>9, <1>12, <1>13 DEF Links
<1>. QED  BY <1>8, <1>14 DEF q

\* A node that has left the list is forgotten.
LEMMA NodeErased ==
    ASSUME NEW c, NEW o, NEW stray, Links(c, o, stray), NEW k \in stray
    PROVE  /\ Links(Erase(c, k), o, stray \ {k})
           /\ DOMAIN Erase(c, k).value = DOMAIN c.value \ {k}
           /\ \A x \in DOMAIN c.value \ {k} : Erase(c, k).value[x] = c.value[x]
<1>. DEFINE nxt == [x \in DOMAIN c.next \ {k} |-> c.next[x]]
            prv == [x \in DOMAIN c.prev \ {k} |-> c.prev[x]]
            val == [x \in DOMAIN c.value \ {k} |-> c.value[x]]
<1>1. Erase(c, k) = [next |-> nxt, prev |-> prv, value |-> val]
  BY Zenon DEF Erase, Restrict, Cached
<1>2. /\ o \in Orders /\ stray \subseteq Keys /\ stray \cap Listed(o) = {}
      /\ DOMAIN c.next = {Head0} \union Listed(o) \union stray
      /\ DOMAIN c.prev = {Tail0} \union Listed(o) \union stray
  BY DEF Links
<1>3. /\ \A i \in 0 .. Len(o) : c.next[Place(o, i)] = Place(o, i + 1)
      /\ \A i \in 0 .. Len(o) : c.prev[Place(o, i + 1)] = Place(o, i)
  BY DEF Links
<1>4. k # Head0 /\ k # Tail0
  <2>1. k \in Nat
    BY <1>2, Zenon, KeysAssumption
  <2>. QED  BY <2>1 DEF Head0, Tail0
<1>5. /\ DOMAIN nxt = {Head0} \union Listed(o) \union (stray \ {k})
      /\ DOMAIN prv = {Tail0} \union Listed(o) \union (stray \ {k})
  BY <1>2, <1>4
<1>6. ASSUME NEW i \in 0 .. Len(o)
      PROVE  nxt[Place(o, i)] = Place(o, i + 1) /\ prv[Place(o, i + 1)] = Place(o, i)
  <2>1. i + 1 \in 1 .. Len(o) + 1
    BY <1>2, PlacesDiffer
  <2>2. Place(o, i) \in {Head0} \union Listed(o) /\ Place(o, i + 1) \in {Tail0} \union Listed(o)
    BY <1>2, <2>1, PlacesDiffer
  <2>. QED  BY <1>2, <1>3, <1>4, <2>2
<1>. HIDE DEF nxt, prv, val
<1>7. Links([next |-> nxt, prev |-> prv, value |-> val], o, stray \ {k})
  BY <1>2, <1>5, <1>6 DEF Links
<1>. QED  BY <1>1, <1>7 DEF val

\* There are as many nodes as the order is long.
LEMMA NodeCount ==
    ASSUME NEW o \in Orders
    PROVE  /\ Cardinality({Head0} \union Listed(o)) = Len(o) + 1
           /\ Cardinality(Listed(o)) = Len(o)
<1>. DEFINE f == [i \in 0 .. Len(o) |-> Place(o, i)]
            D == {Head0} \union Listed(o)
<1>2. /\ Len(o) \in Nat /\ \A i \in 1 .. Len(o) : o[i] \in Nat
      /\ \A h, i \in 0 .. Len(o) + 1 : Place(o, h) = Place(o, i) => h = i
      /\ \A i \in 0 .. Len(o) : Place(o, i) \in D
  BY PlacesDiffer
<1>3. f \in Injection(0 .. Len(o), D)
  <2>1. \A i \in 0 .. Len(o) : i \in 0 .. Len(o) + 1
    BY <1>2
  <2>2. \A h, i \in 0 .. Len(o) : f[h] = f[i] => h = i
    BY <1>2, <2>1
  <2>3. f \in [0 .. Len(o) -> D]
    BY <1>2
  <2>. HIDE DEF f
  <2>. QED  BY <2>2, <2>3 DEF Injection, IsInjective
<1>4. \A x \in D : \E i \in 0 .. Len(o) : f[i] = x
  <2>. SUFFICES ASSUME NEW x \in D PROVE \E i \in 0 .. Len(o) : f[i] = x
    OBVIOUS
  <2>1. CASE x = Head0
    <3>1. 0 \in 0 .. Len(o) /\ f[0] = Head0
      BY <1>2 DEF Place
    <3>. QED  BY <2>1, <3>1
  <2>2. CASE x \in Listed(o)
    <3>1. PICK i \in 1 .. Len(o) : x = o[i]
      BY <2>2 DEF Listed
    <3>2. i \in 0 .. Len(o) /\ i # 0 /\ i # Len(o) + 1
      BY <1>2, <3>1
    <3>3. f[i] = o[i]
      BY <3>2 DEF Place
    <3>. QED  BY <3>1, <3>2, <3>3
  <2>. QED  BY <2>1, <2>2
<1>5. ExistsBijection(0 .. Len(o), D)
  <2>. HIDE DEF f
  <2>1. f \in Surjection(0 .. Len(o), D)
    BY <1>3, <1>4 DEF Surjection, Injection
  <2>. QED  BY <1>3, <2>1 DEF ExistsBijection, Bijection
<1>6. IsFiniteSet(0 .. Len(o)) /\ Cardinality(0 .. Len(o)) = Len(o) + 1
  <2>1. 0 \in Int /\ Len(o) \in Int /\ ~ (0 > Len(o)) /\ Len(o) - 0 + 1 = Len(o) + 1
    BY <1>2
  <2>. QED  BY <2>1, FS_Interval
<1>7. IsFiniteSet(D) /\ Cardinality(D) = Len(o) + 1
  BY <1>5, <1>6, FS_Bijection
<1>8. Cardinality(Listed(o)) = Len(o)
  <2>1. Head0 \notin Listed(o)
    BY <1>2 DEF Listed, Head0
  <2>2. D \ {Head0} = Listed(o) /\ Head0 \in D
    BY <2>1
  <2>3. Cardinality(D \ {Head0}) = Cardinality(D) - 1
    BY <1>7, <2>2, FS_RemoveElement
  <2>. QED  BY <1>2, <1>7, <2>2, <2>3
<1>. QED  BY <1>7, <1>8

\* The walk along the pointers finds the order of the list.
LEMMA WalkIsOrder ==
    ASSUME NEW c, NEW o, Links(c, o, {})
    PROVE  Order(c) = o
<1>. DEFINE p == c.next
            n == Len(o)
            steps == 0 .. Cardinality(DOMAIN p)
            Walks(f) == f = [m \in steps |-> IF m = 0 THEN p[Head0]
                                             ELSE IF f[m - 1] = Tail0 THEN Tail0
                                             ELSE p[f[m - 1]]]
            g == [m \in steps |-> IF m < n THEN o[m + 1] ELSE Tail0]
            path == CHOOSE f : Walks(f)
<1>1. o \in Orders /\ \A i \in 0 .. n : p[Place(o, i)] = Place(o, i + 1)
  BY DEF Links
<1>2. n \in Nat /\ o \in Seq(Keys) /\ \A i \in 1 .. n : o[i] \in Nat
  BY <1>1, PlacesDiffer DEF Orders
<1>3. steps = 0 .. n + 1
  BY <1>1, NodeCount DEF Links
<1>4. Walks(g)
  <2>1. \A m \in 0 .. n + 1 : g[m] = IF m < n THEN o[m + 1] ELSE Tail0
    BY <1>3
  <2>. HIDE DEF g
  <2>2. ASSUME NEW m \in 0 .. n + 1
        PROVE  g[m] = IF m = 0 THEN p[Head0]
                      ELSE IF g[m - 1] = Tail0 THEN Tail0 ELSE p[g[m - 1]]
    <3>1. CASE m = 0
      <4>1. 0 \in 0 .. n /\ 0 \in 0 .. n + 1 /\ (n = 0 => ~ (0 < n)) /\ (n # 0 => 0 < n /\ 0 + 1 # n + 1)
            /\ 0 + 1 = 1 /\ 1 # 0 /\ (n = 0 => 1 = n + 1) /\ (n # 0 => 1 # n + 1)
        BY <1>2
      <4>2. p[Place(o, 0)] = Place(o, 0 + 1)
        BY <1>1, <4>1
      <4>3. p[Head0] = IF n = 0 THEN Tail0 ELSE o[1]
        BY <4>1, <4>2 DEF Place
      <4>4. g[0] = IF 0 < n THEN o[0 + 1] ELSE Tail0
        BY <2>1, <4>1
      <4>. QED  BY <3>1, <4>1, <4>3, <4>4
    <3>2. CASE m > 0 /\ m <= n
      <4>1. /\ m - 1 \in 0 .. n + 1 /\ m - 1 < n /\ (m - 1) + 1 = m /\ m \in 1 .. n /\ m # 0
            /\ m # n + 1 /\ m \in 0 .. n
        BY <1>2, <3>2
      <4>2. g[m - 1] = o[m]
        BY <2>1, <4>1
      <4>3. o[m] # Tail0
        BY <1>2, <4>1 DEF Tail0
      <4>4. p[o[m]] = Place(o, m + 1)
        BY <1>1, <4>1 DEF Place
      <4>5. Place(o, m + 1) = IF m < n THEN o[m + 1] ELSE Tail0
        <5>1. m + 1 # 0 /\ (m < n => m + 1 # n + 1) /\ (~ (m < n) => m + 1 = n + 1)
          BY <1>2, <4>1
        <5>. QED  BY <5>1 DEF Place
      <4>. QED  BY <2>1, <4>1, <4>2, <4>3, <4>4, <4>5
    <3>3. CASE m = n + 1
      <4>1. m - 1 \in 0 .. n + 1 /\ ~ (m - 1 < n) /\ ~ (m < n) /\ m # 0
        BY <1>2, <3>3
      <4>. QED  BY <2>1, <4>1
    <3>. QED  BY <1>2, <3>1, <3>2, <3>3
  <2>3. g = [m \in 0 .. n + 1 |-> g[m]]
    BY <1>3 DEF g
  <2>. QED  BY <1>3, <2>2, <2>3
<1>5. ASSUME NEW f, Walks(f) PROVE \A m \in 0 .. n + 1 : f[m] = g[m]
  <2>1. \A m \in 0 .. n + 1 : f[m] = IF m = 0 THEN p[Head0]
                                     ELSE IF f[m - 1] = Tail0 THEN Tail0 ELSE p[f[m - 1]]
    BY <1>3, <1>5
  <2>2. \A m \in 0 .. n + 1 : g[m] = IF m = 0 THEN p[Head0]
                                     ELSE IF g[m - 1] = Tail0 THEN Tail0 ELSE p[g[m - 1]]
    BY <1>3, <1>4
  <2>. HIDE DEF g, p, Walks
  <2>. DEFINE S == {m \in Nat : m \in 0 .. n + 1 => f[m] = g[m]}
  <2>3. 0 \in S
    <3>1. 0 \in 0 .. n + 1
      BY <1>2
    <3>. QED  BY <2>1, <2>2, <3>1
  <2>4. \A m \in Nat : m \in S => m + 1 \in S
    <3>. SUFFICES ASSUME NEW m \in Nat, m \in S, m + 1 \in 0 .. n + 1 PROVE f[m + 1] = g[m + 1]
      OBVIOUS
    <3>1. m \in 0 .. n + 1 /\ m + 1 # 0 /\ (m + 1) - 1 = m
      BY SMTT(60), <1>2
    <3>. QED  BY <2>1, <2>2, <3>1
  <2>. HIDE DEF S
  <2>5. Nat \subseteq S
    BY <2>3, <2>4, Induction
  <2>6. \A m \in 0 .. n + 1 : m \in Nat
    BY <1>2
  <2>. QED  BY <2>5, <2>6 DEF S
<1>. HIDE DEF Walks
<1>6. Walks(path)
  BY <1>4
<1>. HIDE DEF path
<1>7. \A m \in 0 .. n + 1 : path[m] = IF m < n THEN o[m + 1] ELSE Tail0
  <2>1. \A m \in 0 .. n + 1 : path[m] = g[m]
    BY <1>5, <1>6
  <2>. QED  BY <1>3, <2>1
<1>8. {m \in steps : path[m] # Tail0} = 0 .. n - 1
  <2>1. ASSUME NEW m \in 0 .. n + 1 PROVE path[m] # Tail0 <=> m \in 0 .. n - 1
    <3>1. m < n <=> m \in 0 .. n - 1
      BY <1>2
    <3>2. m < n => m + 1 \in 1 .. n
      BY <1>2
    <3>3. m < n => o[m + 1] # Tail0
      BY <1>2, <3>2 DEF Tail0
    <3>. QED  BY <1>7, <3>1, <3>3
  <2>2. 0 .. n - 1 \subseteq 0 .. n + 1
    BY <1>2
  <2>. QED  BY <1>3, <2>1, <2>2
<1>9. Cardinality({m \in steps : path[m] # Tail0}) = n
  <2>1. 0 \in Int /\ n - 1 \in Int /\ (n = 0 => 0 > n - 1) /\ (n # 0 => ~ (0 > n - 1) /\ (n - 1) - 0 + 1 = n)
    BY <1>2
  <2>2. Cardinality(0 .. n - 1) = IF 0 > n - 1 THEN 0 ELSE (n - 1) - 0 + 1
    BY <2>1, FS_Interval
  <2>. QED  BY <1>8, <2>1, <2>2
<1>10. Order(c) = [i \in 1 .. Cardinality({m \in steps : path[m] # Tail0}) |-> path[i - 1]]
  BY DEF Order, Walk, path, Walks
<1>11. Order(c) = [i \in 1 .. n |-> path[i - 1]]
  BY <1>9, <1>10
<1>12. \A i \in 1 .. n : path[i - 1] = o[i]
  <2>. SUFFICES ASSUME NEW i \in 1 .. n PROVE path[i - 1] = o[i]
    OBVIOUS
  <2>1. i - 1 \in 0 .. n + 1 /\ i - 1 < n /\ (i - 1) + 1 = i
    BY <1>2
  <2>. QED  BY <1>7, <2>1
<1>13. Order(c) = [i \in 1 .. n |-> o[i]]
  BY <1>11, <1>12
<1>. QED  BY <1>2, <1>13

\* Sequences with an element moved or put to the front.
LEMMA FrontOfMoved ==
    ASSUME NEW X, NEW e \in Seq(X), NEW x \in X, NEW j \in 1 .. Len(e)
    PROVE  [i \in 1 .. Len(e) |-> IF i = 1 THEN x ELSE IF i <= j THEN e[i - 1] ELSE e[i]]
              = <<x>> \o (SubSeq(e, 1, j - 1) \o SubSeq(e, j + 1, Len(e)))
<1>1. /\ <<x>> \in Seq(X) /\ Len(<<x>>) = 1 /\ <<x>>[1] = x
      /\ Len(e) \in Nat /\ j \in Nat
  OBVIOUS
<1>2. /\ SubSeq(e, 1, j - 1) \in Seq(X) /\ Len(SubSeq(e, 1, j - 1)) = j - 1
      /\ \A i \in 1 .. j - 1 : SubSeq(e, 1, j - 1)[i] = e[i]
  OBVIOUS
<1>3. /\ SubSeq(e, j + 1, Len(e)) \in Seq(X) /\ Len(SubSeq(e, j + 1, Len(e))) = Len(e) - j
      /\ \A i \in 1 .. Len(e) - j : SubSeq(e, j + 1, Len(e))[i] = e[j + i]
  OBVIOUS
<1>4. PICK a \in Seq(X), b \in Seq(X), s \in Seq(X) :
          a = <<x>> /\ b = SubSeq(e, 1, j - 1) /\ s = SubSeq(e, j + 1, Len(e))
  BY <1>1, <1>2, <1>3, Zenon
<1>5. PICK t : t = b \o s
  OBVIOUS
<1>6. /\ t \in Seq(X) /\ Len(t) = Len(b) + Len(s)
      /\ \A i \in 1 .. Len(b) : t[i] = b[i]
      /\ \A i \in 1 .. Len(s) : t[Len(b) + i] = s[i]
  BY ONLY b \in Seq(X), s \in Seq(X), <1>5, TwoParts
<1>7. t \in Seq(X)
  BY <1>6
<1>8. PICK w : w = a \o t
  OBVIOUS
<1>9. /\ w \in Seq(X) /\ Len(w) = Len(a) + Len(t)
      /\ \A i \in 1 .. Len(a) : w[i] = a[i]
      /\ \A i \in 1 .. Len(t) : w[Len(a) + i] = t[i]
  BY ONLY a \in Seq(X), <1>7, <1>8, TwoParts
<1>10. Len(a) = 1 /\ a[1] = x /\ Len(b) = j - 1 /\ Len(s) = Len(e) - j
  BY <1>1, <1>2, <1>3, <1>4
<1>11. Len(t) = Len(e) - 1 /\ Len(w) = Len(e)
  <2>1. Len(t) = (j - 1) + (Len(e) - j) /\ Len(w) = 1 + Len(t)
    BY <1>6, <1>9, <1>10
  <2>. QED  BY <1>1, <2>1
<1>12. ASSUME NEW i \in 1 .. Len(e)
       PROVE  w[i] = IF i = 1 THEN x ELSE IF i <= j THEN e[i - 1] ELSE e[i]
  <2>1. CASE i = 1
    BY <1>9, <1>10, <2>1
  <2>2. CASE i # 1
    <3>1. /\ i - 1 \in 1 .. Len(t) /\ Len(a) + (i - 1) = i
          /\ i <= j => i - 1 \in 1 .. Len(b) /\ i - 1 \in 1 .. j - 1
          /\ i > j => /\ i - j \in 1 .. Len(s) /\ i - j \in 1 .. Len(e) - j
                      /\ Len(b) + (i - j) = i - 1 /\ j + (i - j) = i
      BY <1>1, <1>10, <1>11, <2>2
    <3>2. w[i] = t[i - 1]
      <4>1. w[Len(a) + (i - 1)] = t[i - 1]
        BY <1>9, <3>1
      <4>. QED  BY <3>1, <4>1
    <3>3. i <= j => t[i - 1] = e[i - 1]
      BY <1>2, <1>4, <1>6, <3>1
    <3>4. i > j => t[i - 1] = e[i]
      <4>. SUFFICES ASSUME i > j PROVE t[i - 1] = e[i]
        OBVIOUS
      <4>1. t[Len(b) + (i - j)] = s[i - j]
        BY <1>6, <3>1
      <4>2. s[i - j] = e[j + (i - j)]
        BY <1>3, <1>4, <3>1
      <4>. QED  BY <3>1, <4>1, <4>2
    <3>. QED  BY <1>1, <2>2, <3>2, <3>3, <3>4
  <2>. QED  BY <2>1, <2>2
<1>13. w = [i \in 1 .. Len(e) |-> w[i]]
  BY <1>9, <1>11
<1>. QED  BY <1>4, <1>5, <1>8, <1>12, <1>13

LEMMA FrontOfMore ==
    ASSUME NEW X, NEW e \in Seq(X), NEW x \in X
    PROVE  [i \in 1 .. Len(e) + 1 |-> IF i = 1 THEN x ELSE e[i - 1]] = <<x>> \o e
<1>1. <<x>> \in Seq(X) /\ Len(<<x>>) = 1 /\ <<x>>[1] = x /\ Len(e) \in Nat
  OBVIOUS
<1>2. PICK a \in Seq(X) : a = <<x>>
  BY <1>1
<1>3. PICK w : w = a \o e
  OBVIOUS
<1>4. /\ w \in Seq(X) /\ Len(w) = Len(a) + Len(e)
      /\ \A i \in 1 .. Len(a) : w[i] = a[i]
      /\ \A i \in 1 .. Len(e) : w[Len(a) + i] = e[i]
  BY ONLY a \in Seq(X), e \in Seq(X), <1>3, TwoParts
<1>5. Len(a) = 1 /\ a[1] = x /\ Len(w) = Len(e) + 1
  BY <1>1, <1>2, <1>4
<1>6. ASSUME NEW i \in 1 .. Len(e) + 1
      PROVE  w[i] = IF i = 1 THEN x ELSE e[i - 1]
  <2>1. i # 1 => i - 1 \in 1 .. Len(e) /\ Len(a) + (i - 1) = i
    BY <1>1, <1>5
  <2>2. i # 1 => w[Len(a) + (i - 1)] = e[i - 1]
    BY <1>4, <2>1
  <2>. QED  BY <1>4, <1>5, <2>1, <2>2
<1>7. w = [i \in 1 .. Len(e) + 1 |-> w[i]]
  BY <1>4, <1>5
<1>. QED  BY <1>2, <1>3, <1>6, <1>7

\* moveToHead: the order has the node in front.
FrontOrder(o, j) == InsertedIn(RemovedAt(o, j), o[j])

LEMMA NodeMoved ==
    ASSUME NEW c, NEW o, Links(c, o, {}), NEW j \in 1 .. Len(o)
    PROVE  /\ Links(MoveToHead(c, o[j]), FrontOrder(o, j), {})
           /\ MoveToHead(c, o[j]).value = c.value
<1>. DEFINE d == RemoveNode(c, o[j])
            q == RemovedAt(o, j)
<1>1. o \in Orders
  BY DEF Links
<1>2. o[j] \in Keys
  BY <1>1, PlacesDiffer
<1>3. Links(d, q, {} \union {o[j]}) /\ d.value = c.value
  BY NodeRemoved
<1>4. o[j] \notin Listed(q)
  BY <1>1, RemovedOrder
<1>5. MoveToHead(c, o[j]) = InsertToHead(d, o[j])
  BY DEF MoveToHead
<1>. HIDE DEF d, q
<1>6. /\ Links(InsertToHead(d, o[j]), InsertedIn(q, o[j]), ({} \union {o[j]}) \ {o[j]})
      /\ InsertToHead(d, o[j]).value = d.value
  BY <1>2, <1>3, <1>4, NodeInserted
<1>7. ({} \union {o[j]}) \ {o[j]} = {}
  OBVIOUS
<1>. QED  BY <1>3, <1>5, <1>6, <1>7 DEF q, FrontOrder

LEMMA FrontOrderIs ==
    ASSUME NEW o \in Orders, NEW j \in 1 .. Len(o)
    PROVE  /\ FrontOrder(o, j) \in Orders /\ Len(FrontOrder(o, j)) = Len(o)
           /\ Listed(FrontOrder(o, j)) = Listed(o)
           /\ \A i \in 1 .. Len(o) : FrontOrder(o, j)[i] =
                 IF i = 1 THEN o[j] ELSE IF i <= j THEN o[i - 1] ELSE o[i]
<1>. DEFINE q == RemovedAt(o, j)
<1>1. /\ q \in Orders /\ Len(q) = Len(o) - 1 /\ Listed(q) = Listed(o) \ {o[j]}
  BY RemovedOrder
<1>2. \A i \in 1 .. Len(o) - 1 : q[i] = IF i < j THEN o[i] ELSE o[i + 1]
  BY DEF RemovedAt
<1>3. o[j] \in Keys /\ o[j] \in Listed(o) /\ Len(o) \in Nat
  BY PlacesDiffer DEF Listed
<1>. HIDE DEF q
<1>4. /\ InsertedIn(q, o[j]) \in Orders /\ Len(InsertedIn(q, o[j])) = Len(q) + 1
      /\ Listed(InsertedIn(q, o[j])) = Listed(q) \union {o[j]}
  BY <1>1, <1>3, InsertedOrder
<1>5. \A i \in 1 .. Len(q) + 1 : InsertedIn(q, o[j])[i] = IF i = 1 THEN o[j] ELSE q[i - 1]
  BY DEF InsertedIn
<1>6. ASSUME NEW i \in 1 .. Len(o)
      PROVE  InsertedIn(q, o[j])[i] = IF i = 1 THEN o[j] ELSE IF i <= j THEN o[i - 1] ELSE o[i]
  <2>1. /\ i \in 1 .. Len(q) + 1
        /\ i # 1 => i - 1 \in 1 .. Len(o) - 1 /\ (i - 1) + 1 = i /\ (i - 1 < j <=> i <= j)
    BY <1>1, <1>3
  <2>. QED  BY <1>2, <1>5, <2>1
<1>7. Len(q) + 1 = Len(o)
  BY <1>1, <1>3
<1>8. Listed(q) \union {o[j]} = Listed(o)
  BY <1>1, <1>3
<1>. QED  BY <1>4, <1>6, <1>7, <1>8 DEF q, FrontOrder

\* The values have no part in the order.
LEMMA ValuesApart ==
    ASSUME NEW c, NEW o, NEW stray, Links(c, o, stray), NEW f
    PROVE  Links([c EXCEPT !.value = f], o, stray) /\ [c EXCEPT !.value = f].value = f
<1>1. c = [next |-> c.next, prev |-> c.prev, value |-> c.value]
  BY DEF Links
<1>2. [c EXCEPT !.value = f] = [next |-> c.next, prev |-> c.prev, value |-> f]
  BY <1>1
<1>3. Links([next |-> c.next, prev |-> c.prev, value |-> f], o, stray)
  BY DEF Links
<1>. QED  BY <1>2, <1>3

\* The entries that an order and the values under its keys stand for.
EntriesOf(o, f) == [i \in 1 .. Len(o) |-> <<o[i], f[o[i]]>>]

LEMMA EntriesOfFront ==
    ASSUME NEW o \in Orders, NEW j \in 1 .. Len(o), NEW f, NEW h,
           \A k \in Listed(o) : k # o[j] => h[k] = f[k]
    PROVE  EntriesOf(FrontOrder(o, j), h)
              = <<<<o[j], h[o[j]]>>>> \o (SubSeq(EntriesOf(o, f), 1, j - 1)
                   \o SubSeq(EntriesOf(o, f), j + 1, Len(EntriesOf(o, f))))
<1>. DEFINE e == EntriesOf(o, f)
            x == <<o[j], h[o[j]]>>
            X == {e[i] : i \in 1 .. Len(o)} \union {x}
<1>1. /\ Len(o) \in Nat /\ \A g, i \in 1 .. Len(o) : o[g] = o[i] => g = i
      /\ \A i \in 1 .. Len(o) : o[i] \in Listed(o)
  BY PlacesDiffer DEF Orders, Listed
<1>2. e = [i \in 1 .. Len(o) |-> <<o[i], f[o[i]]>>]
  BY DEF EntriesOf
<1>3. e \in Seq(X) /\ Len(e) = Len(o) /\ x \in X
  <2>. HIDE DEF x
  <2>1. e \in [1 .. Len(o) -> X]
    BY <1>2
  <2>. HIDE DEF X, e
  <2>2. e \in Seq(X) /\ Len(e) = Len(o)
    BY <1>1, <2>1
  <2>. QED  BY <2>2 DEF X
<1>4. \A i \in 1 .. Len(o) : e[i] = <<o[i], f[o[i]]>>
  BY <1>2
<1>5. Len(FrontOrder(o, j)) = Len(o)
      /\ \A i \in 1 .. Len(o) : FrontOrder(o, j)[i] =
             IF i = 1 THEN o[j] ELSE IF i <= j THEN o[i - 1] ELSE o[i]
  BY FrontOrderIs
<1>. HIDE DEF e, X
<1>6. ASSUME NEW i \in 1 .. Len(o)
      PROVE  <<FrontOrder(o, j)[i], h[FrontOrder(o, j)[i]]>>
                = IF i = 1 THEN x ELSE IF i <= j THEN e[i - 1] ELSE e[i]
  <2>1. CASE i = 1
    BY <1>5, <2>1
  <2>2. CASE i # 1 /\ i <= j
    <3>1. i - 1 \in 1 .. Len(o) /\ i - 1 # j
      BY <1>1, <2>2
    <3>2. FrontOrder(o, j)[i] = o[i - 1] /\ o[i - 1] # o[j]
      BY <1>1, <1>5, <2>2, <3>1
    <3>3. h[o[i - 1]] = f[o[i - 1]]
      BY <1>1, <3>1, <3>2
    <3>. QED  BY <1>4, <2>2, <3>1, <3>2, <3>3
  <2>3. CASE i # 1 /\ ~ (i <= j)
    <3>1. i # j
      BY <2>3
    <3>2. FrontOrder(o, j)[i] = o[i] /\ o[i] # o[j]
      BY <1>1, <1>5, <2>3, <3>1
    <3>3. h[o[i]] = f[o[i]]
      BY <1>1, <3>2
    <3>. QED  BY <1>4, <2>3, <3>2, <3>3
  <2>. QED  BY <2>1, <2>2, <2>3
<1>. HIDE DEF x
<1>7. EntriesOf(FrontOrder(o, j), h)
         = [i \in 1 .. Len(e) |-> IF i = 1 THEN x ELSE IF i <= j THEN e[i - 1] ELSE e[i]]
  BY <1>3, <1>5, <1>6 DEF EntriesOf
<1>8. j \in 1 .. Len(e)
  BY <1>3
<1>9. [i \in 1 .. Len(e) |-> IF i = 1 THEN x ELSE IF i <= j THEN e[i - 1] ELSE e[i]]
         = <<x>> \o (SubSeq(e, 1, j - 1) \o SubSeq(e, j + 1, Len(e)))
  BY <1>3, <1>8, FrontOfMoved
<1>. QED  BY <1>7, <1>9, Zenon DEF e, x

LEMMA EntriesOfMore ==
    ASSUME NEW o \in Orders, NEW k \in Keys, k \notin Listed(o), NEW f, NEW h,
           \A n \in Listed(o) : h[n] = f[n]
    PROVE  EntriesOf(InsertedIn(o, k), h) = <<<<k, h[k]>>>> \o EntriesOf(o, f)
<1>. DEFINE e == EntriesOf(o, f)
            x == <<k, h[k]>>
            X == {e[i] : i \in 1 .. Len(o)} \union {x}
<1>1. Len(o) \in Nat /\ \A i \in 1 .. Len(o) : o[i] \in Listed(o)
  BY PlacesDiffer DEF Listed
<1>2. e = [i \in 1 .. Len(o) |-> <<o[i], f[o[i]]>>]
  BY DEF EntriesOf
<1>3. e \in Seq(X) /\ Len(e) = Len(o) /\ x \in X
  <2>. HIDE DEF x
  <2>1. e \in [1 .. Len(o) -> X]
    BY <1>2
  <2>. HIDE DEF X, e
  <2>2. e \in Seq(X) /\ Len(e) = Len(o)
    BY <1>1, <2>1
  <2>. QED  BY <2>2 DEF X
<1>4. \A i \in 1 .. Len(o) : e[i] = <<o[i], f[o[i]]>>
  BY <1>2
<1>5. Len(InsertedIn(o, k)) = Len(o) + 1
      /\ \A i \in 1 .. Len(o) + 1 : InsertedIn(o, k)[i] = IF i = 1 THEN k ELSE o[i - 1]
  BY InsertedOrder DEF InsertedIn
<1>. HIDE DEF e, X
<1>6. ASSUME NEW i \in 1 .. Len(o) + 1
      PROVE  <<InsertedIn(o, k)[i], h[InsertedIn(o, k)[i]]>> = IF i = 1 THEN x ELSE e[i - 1]
  <2>1. CASE i = 1
    BY <1>5, <2>1
  <2>2. CASE i # 1
    <3>1. i - 1 \in 1 .. Len(o)
      BY <1>1, <2>2
    <3>2. InsertedIn(o, k)[i] = o[i - 1] /\ h[o[i - 1]] = f[o[i - 1]]
      BY <1>1, <1>5, <2>2, <3>1
    <3>. QED  BY <1>4, <2>2, <3>1, <3>2
  <2>. QED  BY <2>1, <2>2
<1>. HIDE DEF x
<1>7. EntriesOf(InsertedIn(o, k), h) = [i \in 1 .. Len(e) + 1 |-> IF i = 1 THEN x ELSE e[i - 1]]
  BY <1>3, <1>5, <1>6 DEF EntriesOf
<1>8. [i \in 1 .. Len(e) + 1 |-> IF i = 1 THEN x ELSE e[i - 1]] = <<x>> \o e
  BY <1>3, FrontOfMore
<1>. QED  BY <1>7, <1>8, Zenon DEF e, x

LEMMA EntriesOfFewer ==
    ASSUME NEW o \in Orders, Len(o) > 0, NEW f, NEW h,
           \A k \in Listed(o) : k # o[Len(o)] => h[k] = f[k]
    PROVE  EntriesOf(RemovedAt(o, Len(o)), h) = SubSeq(EntriesOf(o, f), 1, Len(o) - 1)
<1>. DEFINE n == Len(o)
            q == RemovedAt(o, n)
<1>1. /\ n \in Nat /\ n \in 1 .. n /\ \A g, i \in 1 .. n : o[g] = o[i] => g = i
      /\ \A i \in 1 .. n : o[i] \in Listed(o)
  BY PlacesDiffer DEF Orders, Listed
<1>2. Len(q) = n - 1 /\ \A i \in 1 .. n - 1 : q[i] = o[i]
  BY <1>1, RemovedOrder DEF RemovedAt
<1>. HIDE DEF q, n
<1>3. \A i \in 1 .. n - 1 : h[o[i]] = f[o[i]]
  <2>. SUFFICES ASSUME NEW i \in 1 .. n - 1 PROVE h[o[i]] = f[o[i]]
    OBVIOUS
  <2>1. i \in 1 .. n /\ i # n
    BY <1>1
  <2>. QED  BY <1>1, <2>1 DEF n
<1>4. EntriesOf(q, h) = [i \in 1 .. n - 1 |-> <<o[i], f[o[i]]>>]
  BY <1>2, <1>3 DEF EntriesOf
<1>5. SubSeq(EntriesOf(o, f), 1, n - 1) = [i \in 1 .. n - 1 |-> <<o[i], f[o[i]]>>]
  <2>1. \A i \in 1 .. n - 1 : i \in 1 .. n /\ i + 1 - 1 = i
    BY <1>1
  <2>2. 1 .. 1 + (n - 1) - 1 = 1 .. n - 1
    BY <1>1
  <2>. QED  BY <1>1, <2>1, <2>2 DEF EntriesOf, n
<1>. QED  BY <1>4, <1>5 DEF q, n

\* put of a key that the cache does not hold.
LEMMA NewKeyPut ==
    ASSUME NEW c, NEW o, Links(c, o, {}), Cached(c) = Listed(o),
           NEW k \in Keys, k \notin Listed(o), NEW v, NEW cap \in Nat, Len(o) <= cap
    PROVE  \E q : /\ Links(Put(c, k, v, cap), q, {})
                  /\ Cached(Put(c, k, v, cap)) = Listed(q) /\ Len(q) <= cap
                  /\ EntriesOf(q, Put(c, k, v, cap).value)
                        = Recent!AtMost(cap, <<<<k, v>>>> \o EntriesOf(o, c.value))
<1>. DEFINE f == Binding(c.value, k, v)
            more == InsertToHead([c EXCEPT !.value = f], k)
            q == InsertedIn(o, k)
            n == Len(q)
            e == <<<<k, v>>>> \o EntriesOf(o, c.value)
<1>1. o \in Orders /\ Len(o) \in Nat
  BY PlacesDiffer DEF Links
<1>2. Links(more, q, {}) /\ more.value = f
  <2>1. Links([c EXCEPT !.value = f], o, {}) /\ [c EXCEPT !.value = f].value = f
    BY ValuesApart
  <2>. DEFINE d == [c EXCEPT !.value = f]
  <2>2. Links(d, o, {}) /\ d.value = f
    BY <2>1
  <2>. HIDE DEF d, f
  <2>3. Links(InsertToHead(d, k), InsertedIn(o, k), {} \ {k}) /\ InsertToHead(d, k).value = d.value
    BY <2>2, NodeInserted
  <2>4. {} \ {k} = {}
    OBVIOUS
  <2>5. more = InsertToHead(d, k)
    BY Zenon DEF d
  <2>. HIDE DEF more
  <2>. QED  BY <2>2, <2>3, <2>4, <2>5
<1>3. /\ DOMAIN f = Listed(o) \union {k} /\ f[k] = v
      /\ \A x \in Listed(o) : f[x] = c.value[x]
  BY DEF Binding, Cached
<1>4. /\ q \in Orders /\ n = Len(o) + 1 /\ Listed(q) = Listed(o) \union {k}
      /\ \A i \in 1 .. Len(o) + 2 : Place(q, i) = IF i = 1 THEN k ELSE Place(o, i - 1)
  BY <1>1, InsertedOrder
<1>5. EntriesOf(q, f) = e
  <2>. HIDE DEF f
  <2>. QED  BY <1>1, <1>3, EntriesOfMore
<1>6. Len(EntriesOf(q, f)) = n /\ n \in Nat
  BY <1>1, <1>4 DEF EntriesOf
<1>7. Size(more) = n
  <2>1. Cardinality(Listed(q)) = n
    BY <1>4, NodeCount
  <2>. HIDE DEF more, f, q
  <2>. QED  BY <1>2, <1>3, <1>4, <2>1 DEF Size, Cached
<1>8. Put(c, k, v, cap) = CASE k \in Cached(c) -> MoveToHead([c EXCEPT !.value[k] = v], k)
                            [] k \notin Cached(c) /\ Size(more) <= cap -> more
                            [] OTHER -> Erase(RemoveTail(more), more.prev[Tail0])
  BY Zenon DEF Put
<1>. HIDE DEF more, f, q, e, n
<1>9. CASE n <= cap
  <2>1. Put(c, k, v, cap) = more
    BY <1>7, <1>8, <1>9
  <2>2. Recent!AtMost(cap, e) = e
    <3>1. Len(e) = n /\ e = [i \in 1 .. n |-> e[i]]
      BY <1>5, <1>6 DEF EntriesOf, n
    <3>2. SubSeq(e, 1, n) = e
      <4>1. SubSeq(e, 1, n) = [i \in 1 .. n |-> e[i]]
        <5>1. \A i \in 1 .. n : i + 1 - 1 = i
          BY <1>6
        <5>2. 1 .. 1 + n - 1 = 1 .. n
          BY <1>6
        <5>. QED  BY <1>6, <5>1, <5>2
      <4>. QED  BY <3>1, <4>1
    <3>3. Len(e) > cap => Len(e) = cap
      BY <1>6, <1>9, <3>1
    <3>. QED  BY <1>6, <1>9, <3>1, <3>2 DEF Recent!AtMost
  <2>3. EntriesOf(q, more.value) = Recent!AtMost(cap, e)
    BY <1>2, <1>5, <2>2
  <2>4. Cached(more) = Listed(q)
    BY <1>2, <1>3, <1>4 DEF Cached
  <2>5. Links(more, q, {}) /\ Len(q) <= cap
    BY <1>2, <1>9 DEF n
  <2>. QED  BY <2>1, <2>3, <2>4, <2>5 DEF e
<1>10. CASE ~ (n <= cap)
  <2>. DEFINE oldest == q[n]
              r == RemovedAt(q, n)
              d == RemoveNode(more, oldest)
  <2>1. Len(o) = cap /\ n = cap + 1 /\ n \in 1 .. n /\ n # 0
    BY <1>1, <1>4, <1>10
  <2>2. more.prev[Tail0] = oldest
    <3>1. more.prev[Place(q, n + 1)] = Place(q, n) /\ Place(q, n + 1) = Tail0 /\ Place(q, n) = oldest
      <4>1. n \in 0 .. n /\ n + 1 # 0 /\ n # n + 1
        BY <1>6, <2>1
      <4>2. more.prev[Place(q, n + 1)] = Place(q, n)
        BY <1>2, <4>1 DEF Links, n
      <4>. QED  BY <2>1, <4>1, <4>2 DEF Place, n
    <3>. QED  BY <3>1
  <2>3. Put(c, k, v, cap) = Erase(d, oldest)
    <3>1. k \notin Cached(c) /\ ~ (Size(more) <= cap)
      BY <1>7, <1>10
    <3>2. Put(c, k, v, cap) = Erase(RemoveTail(more), more.prev[Tail0])
      BY <1>8, <3>1
    <3>. QED  BY <2>2, <3>2 DEF RemoveTail
  <2>4. Links(d, r, {} \union {oldest}) /\ d.value = more.value
    BY <1>2, <2>1, NodeRemoved DEF n
  <2>5. /\ r \in Orders /\ Len(r) = n - 1 /\ Listed(r) = Listed(q) \ {oldest}
    BY <1>4, <2>1, RemovedOrder DEF n
  <2>. HIDE DEF d, r, oldest
  <2>6. /\ Links(Erase(d, oldest), r, ({} \union {oldest}) \ {oldest})
        /\ DOMAIN Erase(d, oldest).value = DOMAIN d.value \ {oldest}
        /\ \A x \in DOMAIN d.value \ {oldest} : Erase(d, oldest).value[x] = d.value[x]
    <3>1. oldest \in {} \union {oldest}
      OBVIOUS
    <3>. QED  BY <2>4, <3>1, NodeErased
  <2>7. ({} \union {oldest}) \ {oldest} = {}
    OBVIOUS
  <2>8. DOMAIN d.value = Listed(q)
    BY <1>2, <1>3, <1>4, <2>4
  <2>9. Cached(Erase(d, oldest)) = Listed(r)
    BY <2>5, <2>6, <2>8 DEF Cached
  <2>10. Len(r) <= cap
    BY <2>1, <2>5
  <2>11. EntriesOf(r, Erase(d, oldest).value) = SubSeq(EntriesOf(q, f), 1, n - 1)
    <3>1. \A x \in Listed(q) : x # oldest => Erase(d, oldest).value[x] = f[x]
      BY <1>2, <2>4, <2>6, <2>8
    <3>2. Len(q) > 0
      BY <1>6, <2>1 DEF n
    <3>. DEFINE h == Erase(d, oldest).value
    <3>3. \A x \in Listed(q) : x # q[Len(q)] => h[x] = f[x]
      BY <3>1 DEF oldest, n
    <3>. HIDE DEF h
    <3>4. EntriesOf(RemovedAt(q, Len(q)), h) = SubSeq(EntriesOf(q, f), 1, Len(q) - 1)
      BY <1>4, <3>2, <3>3, EntriesOfFewer
    <3>. QED  BY <3>4 DEF h, r, n
  <2>12. SubSeq(EntriesOf(q, f), 1, n - 1) = Recent!AtMost(cap, e)
    <3>1. Len(e) > cap /\ n - 1 = cap
      BY <1>5, <1>6, <2>1
    <3>. QED  BY <1>5, <3>1 DEF Recent!AtMost
  <2>. QED  BY <2>3, <2>6, <2>7, <2>9, <2>10, <2>11, <2>12 DEF e
<1>. QED  BY <1>9, <1>10

\* get of a key that the cache holds, and put of one: the node comes to the front,
\* with the value under it.
LEMMA FoundKeyMoved ==
    ASSUME NEW c, NEW o, Links(c, o, {}), Cached(c) = Listed(o), NEW j \in 1 .. Len(o), NEW v
    PROVE  LET d == MoveToHead([c EXCEPT !.value[o[j]] = v], o[j])
               e == EntriesOf(o, c.value)
           IN  /\ Links(d, FrontOrder(o, j), {}) /\ Cached(d) = Listed(FrontOrder(o, j))
               /\ Len(FrontOrder(o, j)) = Len(o)
               /\ EntriesOf(FrontOrder(o, j), d.value)
                     = <<<<o[j], v>>>> \o (SubSeq(e, 1, j - 1) \o SubSeq(e, j + 1, Len(e)))
<1>. DEFINE f == [c.value EXCEPT ![o[j]] = v]
            b == [c EXCEPT !.value = f]
            d == MoveToHead(b, o[j])
            q == FrontOrder(o, j)
            e == EntriesOf(o, c.value)
<1>1. o \in Orders /\ Len(o) \in Nat
  BY PlacesDiffer DEF Links
<1>2. o[j] \in Listed(o)
  BY DEF Listed
<1>3. [c EXCEPT !.value[o[j]] = v] = b
  OBVIOUS
<1>4. Links(b, o, {}) /\ b.value = f
  BY ValuesApart
<1>5. /\ DOMAIN f = Listed(o) /\ f[o[j]] = v
      /\ \A x \in Listed(o) : x # o[j] => f[x] = c.value[x]
  BY <1>2 DEF Cached
<1>. HIDE DEF b, f
<1>6. Links(d, q, {}) /\ d.value = f
  BY <1>4, NodeMoved
<1>7. Listed(q) = Listed(o) /\ Len(q) = Len(o)
  BY <1>1, FrontOrderIs
<1>8. EntriesOf(q, f) = <<<<o[j], f[o[j]]>>>> \o (SubSeq(e, 1, j - 1) \o SubSeq(e, j + 1, Len(e)))
  BY ZenonT(60), <1>1, <1>5, EntriesOfFront
<1>. HIDE DEF d, q, e
<1>9. Cached(d) = Listed(q)
  BY <1>5, <1>6, <1>7 DEF Cached
<1>10. EntriesOf(q, d.value) = <<<<o[j], v>>>> \o (SubSeq(e, 1, j - 1) \o SubSeq(e, j + 1, Len(e)))
  BY <1>5, <1>6, <1>8
<1>. QED  BY <1>3, <1>6, <1>7, <1>9, <1>10, Zenon DEF d, q, e

\* A key is listed at one place, and its entry stands there.
LEMMA PlaceOfKey ==
    ASSUME NEW o \in Orders, NEW f, NEW k
    PROVE  /\ DOMAIN EntriesOf(o, f) = 1 .. Len(o)
           /\ k \notin Listed(o) => {i \in 1 .. Len(o) : EntriesOf(o, f)[i][1] = k} = {}
           /\ k \in Listed(o) =>
                \E j \in 1 .. Len(o) :
                    /\ o[j] = k /\ EntriesOf(o, f)[j] = <<k, f[k]>>
                    /\ {i \in 1 .. Len(o) : EntriesOf(o, f)[i][1] = k} = {j}
<1>. DEFINE e == EntriesOf(o, f)
<1>1. DOMAIN e = 1 .. Len(o)
  BY DEF EntriesOf
<1>2. \A i \in 1 .. Len(o) : e[i] = <<o[i], f[o[i]]>> /\ e[i][1] = o[i]
  BY DEF EntriesOf
<1>3. \A g, i \in 1 .. Len(o) : o[g] = o[i] => g = i
  BY DEF Orders
<1>. HIDE DEF e
<1>4. k \notin Listed(o) => {i \in 1 .. Len(o) : e[i][1] = k} = {}
  BY <1>2 DEF Listed
<1>5. ASSUME k \in Listed(o)
      PROVE  \E j \in 1 .. Len(o) : /\ o[j] = k /\ e[j] = <<k, f[k]>>
                                    /\ {i \in 1 .. Len(o) : e[i][1] = k} = {j}
  <2>1. PICK j \in 1 .. Len(o) : o[j] = k
    BY <1>5 DEF Listed
  <2>2. {i \in 1 .. Len(o) : e[i][1] = k} = {j}
    BY <1>2, <1>3, <2>1
  <2>. QED  BY <1>2, <2>1, <2>2
<1>. QED  BY <1>1, <1>4, <1>5 DEF e

\* What the entries of the abstract cache stand for, and its steps on them.
Entries == [i \in DOMAIN Order(cache) |-> <<Order(cache)[i], cache.value[Order(cache)[i]]>>]

LEMMA EntriesAre ==
    ASSUME NEW o, Links(cache, o, {})
    PROVE  Order(cache) = o /\ Entries = EntriesOf(o, cache.value)
<1>1. Order(cache) = o
  BY WalkIsOrder
<1>2. DOMAIN o = 1 .. Len(o)
  BY DEF Links, Orders
<1>. QED  BY <1>1, <1>2 DEF Entries, EntriesOf

LEMMA EntriesWillBe ==
    ASSUME NEW o, Links(cache', o, {}), Cached(cache') = Listed(o),
           Len(o) <= capacity, capacity' = capacity, capacity \in Nat
    PROVE  Entries' = EntriesOf(o, cache'.value) /\ CacheInv'
<1>1. Order(cache') = o
  BY WalkIsOrder
<1>2. DOMAIN o = 1 .. Len(o)
  BY DEF Links, Orders
<1>3. Entries' = [i \in DOMAIN Order(cache') |-> <<Order(cache')[i], cache'.value[Order(cache')[i]]>>]
  BY Zenon DEF Entries
<1>4. Entries' = EntriesOf(o, cache'.value)
  BY <1>1, <1>2, <1>3 DEF EntriesOf
<1>5. CacheInv' = /\ capacity' \in Nat /\ Links(cache', Order(cache'), {})
                  /\ Cached(cache') = Listed(Order(cache'))
                  /\ Len(Order(cache')) <= capacity'
  BY Zenon DEF CacheInv
<1>. QED  BY <1>1, <1>4, <1>5

LEMMA NewLinks ==
    /\ Links(NewCache, <<>>, {}) /\ Cached(NewCache) = Listed(<<>>)
    /\ \A n \in Nat : Len(<<>>) <= n
<1>1. <<>> \in Orders /\ Len(<<>>) = 0 /\ Listed(<<>>) = {}
  BY DEF Orders, Listed
<1>2. Place(<<>>, 0) = Head0 /\ Place(<<>>, 0 + 1) = Tail0
  BY <1>1 DEF Place
<1>3. /\ NewCache.next[Head0] = Tail0 /\ NewCache.prev[Tail0] = Head0
      /\ DOMAIN NewCache.next = {Head0} /\ DOMAIN NewCache.prev = {Tail0}
      /\ NewCache = [next |-> NewCache.next, prev |-> NewCache.prev, value |-> NewCache.value]
      /\ DOMAIN NewCache.value = {}
  BY DEF NewCache
<1>4. 0 .. 0 = {0}
  OBVIOUS
<1>. QED  BY <1>1, <1>2, <1>3, <1>4 DEF Links, Cached

LEMMA CacheStart == Init => CacheInv /\ Entries = <<>>
<1>. SUFFICES ASSUME Init PROVE CacheInv /\ Entries = <<>>
  OBVIOUS
<1>1. cache = NewCache /\ capacity \in Nat
  BY DEF Init
<1>2. Order(cache) = <<>> /\ Entries = EntriesOf(<<>>, cache.value)
  BY <1>1, NewLinks, EntriesAre
<1>. QED  BY <1>1, <1>2, NewLinks DEF CacheInv, EntriesOf

LEMMA GetStep ==
    ASSUME CacheInv, NEW k \in Keys, CallGet(k)
    PROVE  CacheInv' /\ Recent!Find(k)
<1>. DEFINE o == Order(cache)
            e == EntriesOf(o, cache.value)
<1>1. /\ Links(cache, o, {}) /\ Cached(cache) = Listed(o) /\ Len(o) <= capacity
      /\ capacity \in Nat /\ capacity' = capacity /\ o \in Orders
      /\ cache' = Get(cache, k)
      /\ reply' = IF k \in Cached(cache) THEN <<"found", k, cache.value[k]>> ELSE <<"missed", k>>
  BY DEF CacheInv, CallGet, Links
<1>2. Entries = e
  BY <1>1, EntriesAre
<1>. HIDE DEF o, e
<1>3. /\ DOMAIN e = 1 .. Len(o)
      /\ k \notin Listed(o) => {i \in 1 .. Len(o) : e[i][1] = k} = {}
      /\ k \in Listed(o) => \E j \in 1 .. Len(o) :
                               /\ o[j] = k /\ e[j] = <<k, cache.value[k]>>
                               /\ {i \in 1 .. Len(o) : e[i][1] = k} = {j}
  BY <1>1, PlaceOfKey DEF e
<1>4. CASE k \notin Listed(o)
  <2>1. cache' = cache /\ reply' = <<"missed", k>>
    BY <1>1, <1>4 DEF Get
  <2>2. Entries' = EntriesOf(o, cache'.value) /\ CacheInv'
    BY <1>1, <2>1, EntriesWillBe
  <2>3. Entries' = e
    BY <2>1, <2>2 DEF e
  <2>4. {i \in DOMAIN Entries : Entries[i][1] = k} = {}
    BY <1>2, <1>3, <1>4
  <2>. QED  BY <1>2, <2>1, <2>2, <2>3, <2>4, Zenon DEF Recent!Find, Recent!At, Entries
<1>5. CASE k \in Listed(o)
  <2>1. PICK j \in 1 .. Len(o) : /\ o[j] = k /\ e[j] = <<k, cache.value[k]>>
                                 /\ {i \in 1 .. Len(o) : e[i][1] = k} = {j}
    BY <1>3, <1>5
  <2>. DEFINE v == cache.value[k]
              d == MoveToHead(cache, o[j])
              q == FrontOrder(o, j)
  <2>2. cache' = d
    BY <1>1, <1>5, <2>1 DEF Get
  <2>3. /\ Links(d, q, {}) /\ Cached(d) = Listed(q) /\ Len(q) = Len(o)
        /\ EntriesOf(q, d.value)
              = <<<<o[j], v>>>> \o (SubSeq(e, 1, j - 1) \o SubSeq(e, j + 1, Len(e)))
    <3>1. Links(d, q, {}) /\ d.value = cache.value
      BY <1>1, NodeMoved
    <3>2. Listed(q) = Listed(o) /\ Len(q) = Len(o)
      BY <1>1, FrontOrderIs
    <3>3. EntriesOf(q, cache.value)
             = <<<<o[j], cache.value[o[j]]>>>> \o (SubSeq(e, 1, j - 1) \o SubSeq(e, j + 1, Len(e)))
      BY <1>1, EntriesOfFront DEF e
    <3>. HIDE DEF d, q
    <3>. QED  BY <1>1, <2>1, <3>1, <3>2, <3>3 DEF Cached
  <2>4. Entries' = EntriesOf(q, cache'.value) /\ CacheInv'
    BY <1>1, <2>2, <2>3, EntriesWillBe
  <2>5. Entries' = <<e[j]>> \o (SubSeq(e, 1, j - 1) \o SubSeq(e, j + 1, Len(e)))
    BY <2>1, <2>2, <2>3, <2>4, Zenon DEF v
  <2>6. reply' = <<"found", k, e[j][2]>>
    <3>1. e[j][2] = cache.value[k]
      BY <2>1
    <3>. QED  BY <1>1, <1>5, <3>1
  <2>7. j \in {i \in DOMAIN Entries : Entries[i][1] = k}
    BY <1>2, <1>3, <2>1
  <2>. QED  BY <1>2, <2>4, <2>5, <2>6, <2>7, Zenon DEF Recent!Find, Recent!At, Recent!Without, Entries
<1>. QED  BY <1>4, <1>5

LEMMA PutStep ==
    ASSUME CacheInv, NEW k \in Keys, NEW v, CallPut(k, v)
    PROVE  CacheInv' /\ Recent!Store(k, v)
<1>. DEFINE o == Order(cache)
            e == EntriesOf(o, cache.value)
<1>1. /\ Links(cache, o, {}) /\ Cached(cache) = Listed(o) /\ Len(o) <= capacity
      /\ capacity \in Nat /\ capacity' = capacity /\ o \in Orders
      /\ cache' = Put(cache, k, v, capacity) /\ reply' = <<"stored", k, v>>
  BY DEF CacheInv, CallPut, Links
<1>2. Entries = e
  BY <1>1, EntriesAre
<1>. HIDE DEF o, e
<1>3. /\ DOMAIN e = 1 .. Len(o)
      /\ k \notin Listed(o) => {i \in 1 .. Len(o) : e[i][1] = k} = {}
      /\ k \in Listed(o) => \E j \in 1 .. Len(o) :
                               /\ o[j] = k /\ e[j] = <<k, cache.value[k]>>
                               /\ {i \in 1 .. Len(o) : e[i][1] = k} = {j}
  BY <1>1, PlaceOfKey DEF e
<1>4. CASE k \notin Listed(o)
  <2>1. PICK q : /\ Links(Put(cache, k, v, capacity), q, {})
                 /\ Cached(Put(cache, k, v, capacity)) = Listed(q) /\ Len(q) <= capacity
                 /\ EntriesOf(q, Put(cache, k, v, capacity).value)
                       = Recent!AtMost(capacity, <<<<k, v>>>> \o e)
    BY <1>1, <1>4, NewKeyPut DEF e
  <2>2. Entries' = EntriesOf(q, cache'.value) /\ CacheInv'
    BY <1>1, <2>1, EntriesWillBe
  <2>3. Entries' = Recent!AtMost(capacity, <<<<k, v>>>> \o e)
    BY <1>1, <2>1, <2>2, Zenon
  <2>4. {i \in DOMAIN Entries : Entries[i][1] = k} = {}
    BY <1>2, <1>3, <1>4
  <2>. QED  BY <1>1, <1>2, <2>2, <2>3, <2>4, Zenon DEF Recent!Store, Recent!At, Entries
<1>5. CASE k \in Listed(o)
  <2>1. PICK j \in 1 .. Len(o) : /\ o[j] = k
                                 /\ {i \in 1 .. Len(o) : e[i][1] = k} = {j}
    BY <1>3, <1>5
  <2>. DEFINE d == MoveToHead([cache EXCEPT !.value[o[j]] = v], o[j])
              q == FrontOrder(o, j)
  <2>2. cache' = d
    <3>1. k \in Cached(cache)
      BY <1>1, <1>5
    <3>2. Put(cache, k, v, capacity) = MoveToHead([cache EXCEPT !.value[k] = v], k)
      BY <3>1 DEF Put
    <3>. QED  BY <1>1, <2>1, <3>2
  <2>3. /\ Links(d, q, {}) /\ Cached(d) = Listed(q) /\ Len(q) = Len(o)
        /\ EntriesOf(q, d.value)
              = <<<<o[j], v>>>> \o (SubSeq(e, 1, j - 1) \o SubSeq(e, j + 1, Len(e)))
    BY ZenonT(60), <1>1, FoundKeyMoved DEF e
  <2>. HIDE DEF d, q
  <2>4. Entries' = EntriesOf(q, cache'.value) /\ CacheInv'
    BY <1>1, <2>2, <2>3, EntriesWillBe
  <2>5. Entries' = <<<<k, v>>>> \o (SubSeq(e, 1, j - 1) \o SubSeq(e, j + 1, Len(e)))
    BY <2>1, <2>2, <2>3, <2>4, Zenon
  <2>6. j \in {i \in DOMAIN Entries : Entries[i][1] = k}
    BY <1>2, <1>3, <2>1
  <2>. QED  BY <1>1, <1>2, <2>4, <2>5, <2>6, Zenon DEF Recent!Store, Recent!At, Recent!Without, Entries
<1>. QED  BY <1>4, <1>5

LEMMA ClearStep ==
    ASSUME CacheInv, CallClear
    PROVE  CacheInv' /\ Recent!Forget
<1>1. capacity \in Nat /\ capacity' = capacity /\ cache' = NewCache /\ reply' = <<"cleared">>
  BY DEF CacheInv, CallClear, Clear
<1>2. Links(cache', <<>>, {}) /\ Cached(cache') = Listed(<<>>) /\ Len(<<>>) <= capacity
  BY <1>1, NewLinks
<1>3. Entries' = EntriesOf(<<>>, cache'.value) /\ CacheInv'
  BY <1>1, <1>2, EntriesWillBe
<1>4. EntriesOf(<<>>, cache'.value) = <<>>
  BY DEF EntriesOf
<1>. QED  BY <1>1, <1>3, <1>4, Zenon DEF Recent!Forget, Entries

\* For any keys, values and capacity, 0 as well, the pointers of the list and the map
\* implement the cache that keeps the entries in the order of their use (get, put
\* and clear of LRUCache).
THEOREM RecencyCacheIsImplemented == Spec => ImplementsRecencyCache
<1>1. Init => CacheInv /\ capacity \in Nat /\ Entries = <<>> /\ reply = <<>>
  BY CacheStart DEF Init, CacheInv
<1>2. CacheInv /\ [Next]_vars =>
          CacheInv' /\ [Recent!RecencyNext]_<<capacity, Entries, reply>>
  <2>. SUFFICES ASSUME CacheInv, [Next]_vars
                PROVE  CacheInv' /\ [Recent!RecencyNext]_<<capacity, Entries, reply>>
    OBVIOUS
  <2>1. ASSUME NEW k \in Keys, CallGet(k)
        PROVE  CacheInv' /\ Recent!RecencyNext
    BY <2>1, GetStep, Zenon DEF Recent!RecencyNext, CallGet
  <2>2. ASSUME NEW k \in Keys, NEW v \in Values, CallPut(k, v)
        PROVE  CacheInv' /\ Recent!RecencyNext
    BY <2>2, PutStep, Zenon DEF Recent!RecencyNext, CallPut
  <2>3. ASSUME CallClear
        PROVE  CacheInv' /\ Recent!RecencyNext
    BY <2>3, ClearStep, Zenon DEF Recent!RecencyNext, CallClear
  <2>4. CASE UNCHANGED cacheVars
    <3>1. UNCHANGED <<cache, capacity, reply>>
      BY <2>4 DEF cacheVars
    <3>2. UNCHANGED Order(cache)
      BY <3>1, Zenon DEF Order
    <3>3. Entries' = Entries
      BY <3>1, <3>2, Zenon DEF Entries
    <3>. QED  BY <3>1, <3>2, <3>3 DEF CacheInv, Links, Cached
  <2>. QED  BY <2>1, <2>2, <2>3, <2>4 DEF Next, vars, CacheNext
<1>. QED  BY <1>1, <1>2, PTL DEF Spec, ImplementsRecencyCache, Recent!RecencySpec, Entries
==============================================================================

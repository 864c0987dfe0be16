----------------------------- MODULE MemoryPool -----------------------------
(***************************************************************************)
(* One MemoryPool of src/memory/MemoryPool.cpp used by several threads: a    *)
(* free list under one mutex, the block the slots are cut from under another, *)
(* and allocateNewBlock, which clears the free list holding only the latter.  *)
(* Slots are numbered in the order of their blocks; a block has BlockSlots.   *)
(* malloc succeeds. Each thread keeps what it gets until it gives it back.    *)
(***************************************************************************)
EXTENDS Integers, FiniteSets

CONSTANTS
    PoolThreads,
    BlockSlots,
    MaxBlocks,    \* bound on the blocks allocated
    Nobody

ASSUME PoolAssumption ==
    BlockSlots \in Nat \ {0} /\ MaxBlocks \in Nat /\ Nobody \notin PoolThreads

Null == 0
Slots == 1 .. BlockSlots * MaxBlocks

VARIABLES
    freeList,   \* freeList_
    link,       \* Slot::next of every slot
    cur, last,  \* curSlot_, lastSlot_
    blocks,     \* blocks allocated
    freeMutex, blockMutex,   \* who holds them
    at,         \* of each thread: where it is
    slot,       \* its local variable
    held        \* slots it has been given

poolVars == <<freeList, link, cur, last, blocks, freeMutex, blockMutex, at, slot, held>>
lists    == <<freeList, link>>
cutting  == <<cur, last, blocks>>
mutexes  == <<freeMutex, blockMutex>>

PoolInit ==
    /\ freeList = Null /\ link = [s \in Slots |-> Null]
    /\ cur = Null /\ last = Null /\ blocks = 0
    /\ freeMutex = Nobody /\ blockMutex = Nobody
    /\ at = [t \in PoolThreads |-> "idle"]
    /\ slot = [t \in PoolThreads |-> Null]
    /\ held = [t \in PoolThreads |-> {}]

Move(t, from, to) == at[t] = from /\ at' = [at EXCEPT ![t] = to]

\* The first look at freeList_ is not under the mutex.
Allocate(t) ==
    /\ Move(t, "idle", IF freeList # Null THEN "lock_list" ELSE "lock_block")
    /\ UNCHANGED <<lists, cutting, mutexes, slot, held>>

\* A slip: the list is not looked at again under the mutex, but popped.
LockListUnlocked(t) ==
    /\ Move(t, "lock_list", IF freeList # Null THEN "pop" ELSE "lock_block")
    /\ slot' = [slot EXCEPT ![t] = freeList]
    /\ freeMutex' = IF freeList # Null /\ freeMutex = Nobody THEN t ELSE freeMutex
    /\ UNCHANGED <<lists, cutting, blockMutex, held>>

LockList(t) ==
    /\ freeMutex = Nobody
    /\ Move(t, "lock_list", IF freeList # Null THEN "pop" ELSE "lock_block")
    /\ slot' = [slot EXCEPT ![t] = freeList]
    /\ freeMutex' = IF freeList # Null THEN t ELSE freeMutex
    /\ UNCHANGED <<lists, cutting, blockMutex, held>>

\* freeList_ = freeList_->next: of the slot loaded before, or of what freeList_ is
\* by now, which can be null.
Pop(t) ==
    /\ at[t] = "pop"
    /\ \/ /\ freeList' = link[slot[t]]
          /\ at' = [at EXCEPT ![t] = "idle"]
          /\ held' = [held EXCEPT ![t] = @ \union {slot[t]}]
       \/ /\ freeList = Null
          /\ at' = [at EXCEPT ![t] = "crashed"]
          /\ UNCHANGED <<freeList, held>>
    /\ freeMutex' = Nobody
    /\ UNCHANGED <<link, cutting, blockMutex, slot>>

LockBlock(t) ==
    /\ blockMutex = Nobody
    /\ Move(t, "lock_block", IF cur > last THEN "new_block" ELSE "cut")
    /\ blockMutex' = t
    /\ UNCHANGED <<lists, cutting, freeMutex, slot, held>>

AllocateNewBlock(t) ==
    /\ blocks < MaxBlocks
    /\ Move(t, "new_block", "clear")
    /\ blocks' = blocks + 1
    /\ cur' = blocks * BlockSlots + 1
    /\ last' = (blocks + 1) * BlockSlots
    /\ UNCHANGED <<lists, mutexes, slot, held>>

\* Without mutexForFreeList_.
ClearFreeList(t) ==
    /\ Move(t, "clear", "cut")
    /\ freeList' = Null
    /\ UNCHANGED <<link, cutting, mutexes, slot, held>>

\* Before the first block curSlot_ is null and not greater than lastSlot_: the
\* first allocation returns null.
Cut(t) ==
    /\ Move(t, "cut", "idle")
    /\ held' = [held EXCEPT ![t] = @ \union ({cur} \ {Null})]
    /\ cur' = cur + 1
    /\ blockMutex' = Nobody
    /\ UNCHANGED <<lists, last, blocks, freeMutex, slot>>

Deallocate(t) ==
    /\ freeMutex = Nobody
    /\ Move(t, "idle", "push")
    /\ \E s \in held[t] :
          /\ slot' = [slot EXCEPT ![t] = s]
          /\ held' = [held EXCEPT ![t] = @ \ {s}]
          /\ link' = [link EXCEPT ![s] = freeList]
    /\ freeMutex' = t
    /\ UNCHANGED <<freeList, cutting, blockMutex>>

Push(t) ==
    /\ Move(t, "push", "idle")
    /\ freeList' = slot[t]
    /\ freeMutex' = Nobody
    /\ UNCHANGED <<link, cutting, blockMutex, slot, held>>

PoolNext ==
    \E t \in PoolThreads :
        \/ Allocate(t) \/ LockList(t) \/ Pop(t) \/ LockBlock(t)
        \/ AllocateNewBlock(t) \/ ClearFreeList(t) \/ Cut(t)
        \/ Deallocate(t) \/ Push(t)
=============================================================================

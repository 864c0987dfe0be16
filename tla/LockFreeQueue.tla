--------------------------- MODULE LockFreeQueue ---------------------------
(***************************************************************************)
(* The multi-producer multi-consumer ring of include/LockFreeQueue.hpp, one *)
(* action per access to shared memory. Every slot carries a sequence        *)
(* number: slot pos & bufferMask_ is writable for position pos when its     *)
(* sequence is pos, readable when it is pos + 1, and it is handed to the    *)
(* next lap as pos + size. A position is owned by whoever moved the shared  *)
(* counter past it with a compare-and-swap.                                 *)
(*                                                                          *)
(* Memory is sequentially consistent. MaxCalls bounds the enqueue calls of  *)
(* a producer, MaxPosition the positions at which a call still begins;      *)
(* dequeue and size are called as often as a thread likes. A local variable *)
(* is 0 outside the calls that use it, and the caller of dequeue has moved  *)
(* its task on when the call has returned.                                  *)
(***************************************************************************)
EXTENDS Integers, Sequences, FiniteSets

CONSTANTS Producers, Consumers,
          Size,       \* buffer_.size(): the capacity rounded to a power of 2
          MaxCalls,   \* bound on the enqueue calls of one producer
          MaxPosition,  \* bound on the positions at which enqueue is called
          Empty       \* the content of a slot nobody has filled, or moved out

ASSUME ThreadsAssumption == Producers \cap Consumers = {}
ASSUME SizeAssumption == Size \in Nat \ {0}
ASSUME MaxCallsAssumption == MaxCalls \in Nat /\ MaxPosition \in Nat

VARIABLES enqueuePos,  \* enqueuePos_
          dequeuePos,  \* dequeuePos_
          sequence,    \* buffer_[i].sequence
          data,        \* buffer_[i].data
          pc,          \* the next memory access of a thread
          pos,         \* its local variable pos (inside size(), the head it has
                       \* loaded; after size(), the value returned)
          calls,       \* enqueue calls a producer has made
          out,         \* the reference argument of a consumer's dequeue
          ret          \* the value a thread's last call returned

vars == <<enqueuePos, dequeuePos, sequence, data, pc, pos, calls, out, ret>>

Threads == Producers \cup Consumers
Slots   == 0 .. Size - 1
Items   == Producers \X (1 .. MaxCalls)
Slot(n) == n % Size                \* pos & bufferMask_
Item(p) == <<p, calls[p]>>         \* the task of the call p is in

ASSUME EmptyAssumption == Empty \notin Items

ProducerPc == {"idle", "e_seq", "e_cas", "e_reload", "e_write", "e_publish",
               "s_tail"}
ConsumerPc == {"idle", "d_seq", "d_cas", "d_reload", "d_read", "d_release"}

TypeOK ==
    /\ enqueuePos \in Nat
    /\ dequeuePos \in Nat
    /\ sequence \in [Slots -> Nat]
    /\ data \in [Slots -> Items \cup {Empty}]
    /\ pc \in [Threads -> ProducerPc \cup ConsumerPc]
    /\ \A p \in Producers : pc[p] \in ProducerPc
    /\ \A c \in Consumers : pc[c] \in ConsumerPc
    /\ pos \in [Threads -> Int]
    /\ calls \in [Producers -> 0 .. MaxCalls]
    /\ out \in [Consumers -> Items \cup {Empty}]
    /\ ret \in [Threads -> {"none", "ok", "no"}]

Init ==
    /\ enqueuePos = 0
    /\ dequeuePos = 0
    /\ sequence = [s \in Slots |-> s]
    /\ data = [s \in Slots |-> Empty]
    /\ pc = [t \in Threads |-> "idle"]
    /\ pos = [t \in Threads |-> 0]
    /\ calls = [p \in Producers |-> 0]
    /\ out = [c \in Consumers |-> Empty]
    /\ ret = [t \in Threads |-> "none"]

Goto(t, from, to) ==
    /\ pc[t] = from
    /\ pc' = [pc EXCEPT ![t] = to]

-----------------------------------------------------------------------------
(* enqueue                                                                  *)

EnqueueCall(p) ==
    /\ Goto(p, "idle", "e_seq")
    /\ calls[p] < MaxCalls /\ enqueuePos < MaxPosition
    /\ calls' = [calls EXCEPT ![p] = @ + 1]
    /\ pos' = [pos EXCEPT ![p] = enqueuePos]
    /\ ret' = [ret EXCEPT ![p] = "none"]
    /\ UNCHANGED <<enqueuePos, dequeuePos, sequence, data, out>>

\* A slip: a lost race is reported as a full queue.
EnqueueReadSequenceGivesUp(p) ==
    LET seq == sequence[Slot(pos[p])] IN
    /\ \/ /\ seq = pos[p]
          /\ Goto(p, "e_seq", "e_cas")
          /\ UNCHANGED <<pos, ret>>
       \/ /\ seq # pos[p]
          /\ Goto(p, "e_seq", "idle")
          /\ ret' = [ret EXCEPT ![p] = "no"]
          /\ pos' = [pos EXCEPT ![p] = 0]
    /\ UNCHANGED <<enqueuePos, dequeuePos, sequence, data, calls, out>>

\* dif = seq - pos: equal, try to claim; smaller, the queue is full; larger,
\* another producer was faster.
EnqueueReadSequence(p) ==
    LET seq == sequence[Slot(pos[p])] IN
    /\ \/ /\ seq = pos[p]
          /\ Goto(p, "e_seq", "e_cas")
          /\ UNCHANGED <<pos, ret>>
       \/ /\ seq < pos[p]
          /\ Goto(p, "e_seq", "idle")
          /\ ret' = [ret EXCEPT ![p] = "no"]
          /\ pos' = [pos EXCEPT ![p] = 0]
       \/ /\ seq > pos[p]
          /\ Goto(p, "e_seq", "e_reload")
          /\ UNCHANGED <<pos, ret>>
    /\ UNCHANGED <<enqueuePos, dequeuePos, sequence, data, calls, out>>

\* A slip: the counter is stored without being compared.
EnqueueClaimUnchecked(p) ==
    /\ Goto(p, "e_cas", "e_write")
    /\ enqueuePos' = pos[p] + 1
    /\ UNCHANGED <<dequeuePos, sequence, data, pos, calls, out, ret>>

\* A slip: the sequence is published with the claim, before the task is there.
EnqueueClaimPublishes(p) ==
    /\ Goto(p, "e_cas", "e_write")
    /\ enqueuePos = pos[p]
    /\ enqueuePos' = pos[p] + 1
    /\ sequence' = [sequence EXCEPT ![Slot(pos[p])] = pos[p] + 1]
    /\ UNCHANGED <<dequeuePos, data, pos, calls, out, ret>>

EnqueueClaim(p) ==
    /\ Goto(p, "e_cas", "e_write")
    /\ enqueuePos = pos[p]
    /\ enqueuePos' = pos[p] + 1
    /\ UNCHANGED <<dequeuePos, sequence, data, pos, calls, out, ret>>

\* compare_exchange_weak stores the counter in pos when it fails, and may
\* fail although the counter still is pos.
EnqueueLoseClaim(p) ==
    /\ Goto(p, "e_cas", "e_seq")
    /\ pos' = [pos EXCEPT ![p] = enqueuePos]
    /\ UNCHANGED <<enqueuePos, dequeuePos, sequence, data, calls, out, ret>>

\* A slip: the retry keeps the stale position.
EnqueueReloadNothing(p) ==
    /\ Goto(p, "e_reload", "e_seq")
    /\ UNCHANGED <<enqueuePos, dequeuePos, sequence, data, pos, calls, out, ret>>

EnqueueReload(p) ==
    /\ Goto(p, "e_reload", "e_seq")
    /\ pos' = [pos EXCEPT ![p] = enqueuePos]
    /\ UNCHANGED <<enqueuePos, dequeuePos, sequence, data, calls, out, ret>>

EnqueueWrite(p) ==
    /\ Goto(p, "e_write", "e_publish")
    /\ data' = [data EXCEPT ![Slot(pos[p])] = Item(p)]
    /\ UNCHANGED <<enqueuePos, dequeuePos, sequence, pos, calls, out, ret>>

EnqueuePublish(p) ==
    /\ Goto(p, "e_publish", "idle")
    /\ sequence' = [sequence EXCEPT ![Slot(pos[p])] = pos[p] + 1]
    /\ pos' = [pos EXCEPT ![p] = 0]
    /\ ret' = [ret EXCEPT ![p] = "ok"]
    /\ UNCHANGED <<enqueuePos, dequeuePos, data, calls, out>>

-----------------------------------------------------------------------------
(* dequeue                                                                  *)

DequeueCall(c) ==
    /\ Goto(c, "idle", "d_seq")
    /\ pos' = [pos EXCEPT ![c] = dequeuePos]
    /\ ret' = [ret EXCEPT ![c] = "none"]
    /\ UNCHANGED <<enqueuePos, dequeuePos, sequence, data, calls, out>>

DequeueReadSequence(c) ==
    LET seq == sequence[Slot(pos[c])] IN
    /\ \/ /\ seq = pos[c] + 1
          /\ Goto(c, "d_seq", "d_cas")
          /\ UNCHANGED <<pos, ret>>
       \/ /\ seq < pos[c] + 1
          /\ Goto(c, "d_seq", "idle")
          /\ ret' = [ret EXCEPT ![c] = "no"]
          /\ pos' = [pos EXCEPT ![c] = 0]
       \/ /\ seq > pos[c] + 1
          /\ Goto(c, "d_seq", "d_reload")
          /\ UNCHANGED <<pos, ret>>
    /\ UNCHANGED <<enqueuePos, dequeuePos, sequence, data, calls, out>>

DequeueClaim(c) ==
    /\ Goto(c, "d_cas", "d_read")
    /\ dequeuePos = pos[c]
    /\ dequeuePos' = pos[c] + 1
    /\ UNCHANGED <<enqueuePos, sequence, data, pos, calls, out, ret>>

DequeueLoseClaim(c) ==
    /\ Goto(c, "d_cas", "d_seq")
    /\ pos' = [pos EXCEPT ![c] = dequeuePos]
    /\ UNCHANGED <<enqueuePos, dequeuePos, sequence, data, calls, out, ret>>

DequeueReload(c) ==
    /\ Goto(c, "d_reload", "d_seq")
    /\ pos' = [pos EXCEPT ![c] = dequeuePos]
    /\ UNCHANGED <<enqueuePos, dequeuePos, sequence, data, calls, out, ret>>

\* data = std::move(slot->data): the slot keeps a moved-from function.
DequeueRead(c) ==
    /\ Goto(c, "d_read", "d_release")
    /\ out' = [out EXCEPT ![c] = data[Slot(pos[c])]]
    /\ data' = [data EXCEPT ![Slot(pos[c])] = Empty]
    /\ UNCHANGED <<enqueuePos, dequeuePos, sequence, pos, calls, ret>>

\* A slip: the next lap is computed with the wrong sign.
DequeueReleaseBackwards(c) ==
    /\ Goto(c, "d_release", "idle")
    /\ sequence' = [sequence EXCEPT ![Slot(pos[c])] = pos[c] - Size]
    /\ pos' = [pos EXCEPT ![c] = 0]
    /\ out' = [out EXCEPT ![c] = Empty]
    /\ ret' = [ret EXCEPT ![c] = "ok"]
    /\ UNCHANGED <<enqueuePos, dequeuePos, data, calls>>

DequeueRelease(c) ==
    /\ Goto(c, "d_release", "idle")
    /\ sequence' = [sequence EXCEPT ![Slot(pos[c])] = pos[c] + Size]
    /\ pos' = [pos EXCEPT ![c] = 0]
    /\ out' = [out EXCEPT ![c] = Empty]
    /\ ret' = [ret EXCEPT ![c] = "ok"]
    /\ UNCHANGED <<enqueuePos, dequeuePos, data, calls>>

-----------------------------------------------------------------------------
(* size() and empty(): the head is loaded first, then the tail. queueInLoop *)
(* calls size() before it enqueues; empty() is the same two loads.          *)

\* A slip: the tail is loaded first.
LoadSizeTailFirst(p) ==
    /\ \/ /\ Goto(p, "idle", "s_tail")
          /\ pos' = [pos EXCEPT ![p] = enqueuePos]
       \/ /\ Goto(p, "s_tail", "idle")
          /\ pos' = [pos EXCEPT ![p] = @ - dequeuePos]
    /\ UNCHANGED <<enqueuePos, dequeuePos, sequence, data, calls, out, ret>>

LoadSize(p) ==
    /\ \/ /\ Goto(p, "idle", "s_tail")
          /\ pos' = [pos EXCEPT ![p] = dequeuePos]
       \/ /\ Goto(p, "s_tail", "idle")
          /\ pos' = [pos EXCEPT ![p] = enqueuePos - @]
    /\ UNCHANGED <<enqueuePos, dequeuePos, sequence, data, calls, out, ret>>

-----------------------------------------------------------------------------
Enqueue(p) ==
    \/ EnqueueCall(p) \/ EnqueueReadSequence(p) \/ EnqueueClaim(p)
    \/ EnqueueLoseClaim(p) \/ EnqueueReload(p) \/ EnqueueWrite(p)
    \/ EnqueuePublish(p)

Dequeue(c) ==
    \/ DequeueCall(c) \/ DequeueReadSequence(c) \/ DequeueClaim(c)
    \/ DequeueLoseClaim(c) \/ DequeueReload(c) \/ DequeueRead(c)
    \/ DequeueRelease(c)

Next ==
    \/ \E p \in Producers : Enqueue(p) \/ LoadSize(p)
    \/ \E c \in Consumers : Dequeue(c)

Spec == Init /\ [][Next]_vars

\* A thread inside a call is scheduled again, and a weak compare-and-swap
\* does not fail for ever on its own.
InCall(t) == pc[t] # "idle"

Fairness ==
    /\ \A p \in Producers : /\ WF_vars(InCall(p) /\ (Enqueue(p) \/ LoadSize(p)))
                            /\ SF_vars(EnqueueClaim(p))
    /\ \A c \in Consumers : /\ WF_vars(InCall(c) /\ Dequeue(c))
                            /\ SF_vars(DequeueClaim(c))

FairSpec == Spec /\ Fairness

-----------------------------------------------------------------------------
(* What the queue promises                                                  *)

Owns(t) == pc[t] \in {"e_write", "e_publish", "d_read", "d_release"}

\* No data race: between its claim and its release a thread is alone in its
\* slot, although producers and consumers move independent counters.
SlotExclusive ==
    \A t, u \in Threads :
        t # u /\ Owns(t) /\ Owns(u) => Slot(pos[t]) # Slot(pos[u])

\* A sequence number equal to the position, read by the producer that will
\* win the claim, means the slot is free: no task that is still unread, and no
\* consumer still moving one out.
ClaimableSlotIsFree ==
    \A p \in Producers :
        pc[p] = "e_cas" /\ pos[p] = enqueuePos => data[Slot(pos[p])] = Empty

\* A dequeue never hands out an empty task: the loop would call a moved-from
\* std::function.
TakenTaskIsReal ==
    \A c \in Consumers :
        /\ pc[c] = "d_read" => data[Slot(pos[c])] # Empty
        /\ pc[c] = "d_release" => out[c] # Empty

\* size() subtracts a head read earlier from a tail read later: the unsigned
\* result never wraps below zero, whatever happens between the two loads.
SizeNeverWraps ==
    \A p \in Producers : pc[p] = "idle" => pos[p] >= 0

\* Every call of enqueue, dequeue and size returns, whatever the others do.
EveryCallReturns == \A t \in Threads : InCall(t) ~> ~InCall(t)

-----------------------------------------------------------------------------
(* The ring implements the FIFO of TaskQueue: the order of the claims is    *)
(* the order of the queue.                                                  *)

Placed(n) ==
    LET writers == {p \in Producers : pc[p] = "e_write" /\ pos[p] = n}
    IN  IF writers # {} THEN Item(CHOOSE p \in writers : TRUE)
                        ELSE data[Slot(n)]

PlacedQueue == [i \in 1 .. enqueuePos - dequeuePos |-> Placed(dequeuePos + i - 1)]

BeingAdded == [p \in Producers |->
                 IF pc[p] \in {"e_write", "e_publish"} THEN Item(p) ELSE Empty]

BeingTaken == [c \in Consumers |->
                 CASE pc[c] = "d_read"    -> data[Slot(pos[c])]
                   [] pc[c] = "d_release" -> out[c]
                   [] OTHER               -> Empty]

FIFO == INSTANCE TaskQueue WITH
          Capacity <- Size, None <- Empty, queue <- PlacedQueue,
          adding <- BeingAdded, holding <- BeingTaken, answer <- ret

\* First in, first out, nothing lost, nothing twice, and a call is refused
\* only in the situations TaskQueue allows.
ImplementsTaskQueue == FIFO!TaskQueueSpec
=============================================================================

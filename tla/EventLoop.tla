----------------------------- MODULE EventLoop -----------------------------
(***************************************************************************)
(* One EventLoop (src/EventLoop.cpp): the thread that runs loop(), the     *)
(* threads that hand it tasks with queueInLoop and stop it with quit, the  *)
(* eventfd that wakes it, and the io_uring it waits on. The pending queue  *)
(* is TaskQueue, which LockFreeQueue implements; the loop thread is its    *)
(* only consumer and, through its handlers and tasks, one of its           *)
(* producers.                                                              *)
(*                                                                         *)
(* What a task or an I/O handler does is abstracted to what concerns the   *)
(* loop: nothing, a queueInLoop of its own, a request prepared on the      *)
(* ring, or quit. MaxTasks and MaxOwnTasks bound the calls of queueInLoop  *)
(* per thread.                                                             *)
(***************************************************************************)
EXTENDS Integers, Sequences, FiniteSets

CONSTANTS
    Others,        \* threads other than the loop thread
    Loop,          \* the loop thread
    MaxTasks,      \* bound on the queueInLoop calls of another thread
    MaxOwnTasks,   \* bound on the queueInLoop calls of the loop thread
    Capacity,      \* pendingQueueCapacity, rounded by LockFreeQueue
    HighWater,     \* pendingQueueHighWaterMark
    LowWater,      \* pendingQueueLowWaterMark
    DrainLimit,    \* the limit of doPendingFunctors, 65536 in the code
    Io,            \* IoContexts of the acceptor and the connections
    Wake,          \* wakeupContext_
    SqSize,        \* ringEntries: capacity of the submission queue
    EarlyIo,       \* those that may be requested before loop(): the acceptor's
    EarlyCalls,    \* which of "quit" and "task" may be called before loop()
    None           \* no task

ASSUME LoopAssumption == Loop \notin Others
ASSUME WakeAssumption == Wake \notin Io
ASSUME BoundsAssumption ==
    /\ MaxTasks \in Nat /\ MaxOwnTasks \in 0 .. MaxTasks
    /\ Capacity \in Nat \ {0} /\ DrainLimit \in Nat \ {0}
    /\ HighWater \in Nat /\ LowWater \in Nat
    /\ SqSize \in Nat \ {0}
    /\ EarlyIo \subseteq Io /\ EarlyCalls \subseteq {"quit", "task"}

VARIABLES
    queue, adding, holding, answer,   \* pendingFunctors_, as in TaskQueue
    taken,      \* dequeues so far: the head that size() loads
    pc,         \* where a thread is inside queueInLoop or quit
    calls,      \* queueInLoop calls a thread has made
    cur,        \* its local curQueueSize (the head, between the two loads; 0 when
                \* it is not read any more)
    inHigh,     \* inHighWaterMark_
    told,       \* the argument of the last backpressureCallback_
    signalled,  \* the eventfd counter is not zero
    ctx,        \* the request of an IoContext: where it is in the ring
    cq,         \* completion queue
    loopPc,     \* where the loop thread is inside loop()
    functors,   \* the local vector of doPendingFunctors
    calling,    \* callingPendingFunctors_
    quit,       \* quit_
    ran         \* tasks that have run

queueVars  == <<queue, adding, holding, answer>>
callerVars == <<pc, calls, cur, inHigh, told>>
ringVars   == <<ctx, cq>>
loopVars   == <<loopPc, functors, calling, ran, taken>>
vars == <<queueVars, callerVars, ringVars, loopVars, signalled, quit>>

Threads  == Others \cup {Loop}
Contexts == Io \cup {Wake}
Tasks    == Threads \X (1 .. MaxTasks)
Task(t)  == <<t, calls[t]>>

ASSUME NoneAssumption == None \notin Tasks

Pending == INSTANCE TaskQueue WITH
             Producers <- Threads, Consumers <- {Loop}, Items <- Tasks

CallPc == {"idle", "q_size", "q_enqueue", "q_publish", "q_mark", "q_high",
           "q_tell_high", "q_low", "q_tell_low", "q_wake", "quit_wake"}
LoopPc == {"init", "check", "submit", "wait", "cqe", "drain", "run", "done"}

TypeOK ==
    /\ Pending!TaskQueueTypeOK
    /\ taken \in Nat
    /\ pc \in [Threads -> CallPc]
    /\ calls \in [Threads -> 0 .. MaxTasks]
    /\ cur \in [Threads -> Int]
    /\ inHigh \in BOOLEAN /\ told \in BOOLEAN
    /\ signalled \in BOOLEAN
    /\ ctx \in [Contexts -> {"unset", "prepared", "submitted", "completed", "lost"}]
    /\ cq \in Seq(Contexts)
    /\ loopPc \in LoopPc
    /\ functors \in Seq(Tasks)
    /\ calling \in BOOLEAN /\ quit \in BOOLEAN
    /\ ran \in Seq(Tasks)

\* The constructor has prepared the first read of the eventfd.
Init ==
    /\ Pending!TaskQueueInit
    /\ taken = 0
    /\ pc = [t \in Threads |-> "idle"]
    /\ calls = [t \in Threads |-> 0]
    /\ cur = [t \in Threads |-> 0]
    /\ inHigh = FALSE /\ told = FALSE
    /\ signalled = FALSE
    /\ ctx = [c \in Contexts |-> IF c = Wake THEN "prepared" ELSE "unset"]
    /\ cq = <<>>
    /\ loopPc = "init"
    /\ functors = <<>>
    /\ calling = FALSE /\ quit = FALSE
    /\ ran = <<>>

Goto(t, from, to) ==
    /\ pc[t] = from
    /\ pc' = [pc EXCEPT ![t] = to]

LoopGoto(from, to) ==
    /\ loopPc = from
    /\ loopPc' = to

\* The loop thread runs its own code only when it is not inside a call.
InCall(t) == pc[t] # "idle"

-----------------------------------------------------------------------------
(* queueInLoop                                                              *)

\* The call enters with the first load of size().
EnterQueueInLoop(t) ==
    /\ Goto(t, "idle", "q_size")
    /\ calls[t] < IF t = Loop THEN MaxOwnTasks ELSE MaxTasks
    /\ calls' = [calls EXCEPT ![t] = @ + 1]
    /\ cur' = [cur EXCEPT ![t] = taken]
    /\ Pending!Call(t)
    /\ UNCHANGED <<inHigh, told>>

\* Another thread calls at any time after the object is published; the loop
\* thread calls from a handler or a task (below), or before it enters loop().
QueueInLoop(t) ==
    /\ EnterQueueInLoop(t)
    /\ t = Loop => loopPc = "init" /\ "task" \in EarlyCalls
    /\ UNCHANGED <<ringVars, loopVars, signalled, quit>>

QueueSize(t) ==
    /\ Goto(t, "q_size", "q_enqueue")
    /\ cur' = [cur EXCEPT ![t] = (taken + Len(queue)) - @]
    /\ UNCHANGED <<queueVars, calls, inHigh, told, ringVars, loopVars, signalled, quit>>

QueueClaim(t) ==
    /\ Goto(t, "q_enqueue", "q_publish")
    /\ Pending!Claim(t, Task(t))
    /\ UNCHANGED <<calls, cur, inHigh, told, ringVars, loopVars, signalled, quit>>

\* The queue is full: the task is dropped and the call returns.
QueueFull(t) ==
    /\ Goto(t, "q_enqueue", "idle")
    /\ Pending!Refuse(t)
    /\ cur' = [cur EXCEPT ![t] = 0]
    /\ UNCHANGED <<calls, inHigh, told, ringVars, loopVars, signalled, quit>>

QueuePublish(t) ==
    /\ Goto(t, "q_publish", "q_mark")
    /\ Pending!Publish(t)
    /\ UNCHANGED <<calls, cur, inHigh, told, ringVars, loopVars, signalled, quit>>

\* The water marks are compared with the length read before the enqueue.
QueueMark(t) ==
    /\ \/ /\ cur[t] >= HighWater /\ ~inHigh
          /\ Goto(t, "q_mark", "q_high")
       \/ /\ cur[t] < HighWater /\ inHigh /\ cur[t] <= LowWater
          /\ Goto(t, "q_mark", "q_low")
       \/ /\ IF cur[t] >= HighWater THEN inHigh ELSE ~inHigh \/ cur[t] > LowWater
          /\ Goto(t, "q_mark", "q_wake")
    /\ cur' = [cur EXCEPT ![t] = 0]
    /\ UNCHANGED <<queueVars, calls, inHigh, told, ringVars, loopVars,
                   signalled, quit>>

\* inHighWaterMark_ is stored, then the callback is called.
QueueStore(t) ==
    /\ \/ Goto(t, "q_high", "q_tell_high") /\ inHigh' = TRUE
       \/ Goto(t, "q_low", "q_tell_low") /\ inHigh' = FALSE
    /\ UNCHANGED <<queueVars, calls, cur, told, ringVars, loopVars, signalled, quit>>

QueueTell(t) ==
    /\ \/ Goto(t, "q_tell_high", "q_wake") /\ told' = TRUE
       \/ Goto(t, "q_tell_low", "q_wake") /\ told' = FALSE
    /\ UNCHANGED <<queueVars, calls, cur, inHigh, ringVars, loopVars, signalled, quit>>

QueueWakeOthersOnly(t) ==    \* a slip: tasks queued by tasks are not announced
    /\ Goto(t, "q_wake", "idle")
    /\ signalled' = (signalled \/ t # Loop)
    /\ UNCHANGED <<queueVars, calls, cur, inHigh, told, ringVars, loopVars, quit>>

QueueWake(t) ==
    /\ Goto(t, "q_wake", "idle")
    /\ signalled' = (signalled \/ t # Loop \/ calling)
    /\ UNCHANGED <<queueVars, calls, cur, inHigh, told, ringVars, loopVars, quit>>

-----------------------------------------------------------------------------
(* quit                                                                     *)

QuitByOther(t) ==
    /\ t # Loop
    /\ loopPc # "init" \/ "quit" \in EarlyCalls
    /\ Goto(t, "idle", "quit_wake")
    /\ quit' = TRUE
    /\ UNCHANGED <<queueVars, calls, cur, inHigh, told, ringVars, loopVars, signalled>>

QuitWakeSilent(t) ==    \* a slip: the flag is set, the loop is not woken
    /\ Goto(t, "quit_wake", "idle")
    /\ UNCHANGED <<queueVars, calls, cur, inHigh, told, ringVars, loopVars,
                   signalled, quit>>

QuitWake(t) ==
    /\ Goto(t, "quit_wake", "idle")
    /\ signalled' = TRUE
    /\ UNCHANGED <<queueVars, calls, cur, inHigh, told, ringVars, loopVars, quit>>

-----------------------------------------------------------------------------
(* The submission queue                                                     *)

Prepared == {c \in Contexts : ctx[c] = "prepared"}

\* io_uring_get_sqe and io_uring_prep_*: without a free entry the request is
\* not made, an error is logged and nobody tries again.
Prepare(c) ==
    ctx' = [ctx EXCEPT ![c] =
              IF Cardinality(Prepared) < SqSize THEN "prepared" ELSE "lost"]

\* Acceptor::listen before loop() runs.
PrepareEarly(c) ==
    /\ loopPc = "init" /\ ~InCall(Loop)
    /\ ctx[c] = "unset"
    /\ Prepare(c)
    /\ UNCHANGED <<queueVars, callerVars, cq, loopVars, signalled, quit>>

-----------------------------------------------------------------------------
(* The kernel                                                               *)

\* The pending read of the eventfd completes and resets the counter.
WakeRead ==
    /\ ctx[Wake] = "submitted" /\ signalled
    /\ signalled' = FALSE
    /\ ctx' = [ctx EXCEPT ![Wake] = "completed"]
    /\ cq' = Append(cq, Wake)
    /\ UNCHANGED <<queueVars, callerVars, loopVars, quit>>

IoComplete(c) ==
    /\ ctx[c] = "submitted"
    /\ ctx' = [ctx EXCEPT ![c] = "completed"]
    /\ cq' = Append(cq, c)
    /\ UNCHANGED <<queueVars, callerVars, loopVars, signalled, quit>>

-----------------------------------------------------------------------------
(* loop()                                                                   *)

LoopStart ==
    /\ ~InCall(Loop)
    /\ LoopGoto("init", "check")
    /\ quit' = FALSE
    /\ UNCHANGED <<queueVars, callerVars, ringVars, functors, calling, ran,
                   taken, signalled>>

Check ==
    /\ IF quit THEN LoopGoto("check", "done") ELSE LoopGoto("check", "submit")
    /\ UNCHANGED <<queueVars, callerVars, ringVars, functors, calling, ran,
                   taken, signalled, quit>>

Submit ==
    /\ LoopGoto("submit", "wait")
    /\ ctx' = [c \in Contexts |-> IF ctx[c] = "prepared" THEN "submitted" ELSE ctx[c]]
    /\ UNCHANGED <<queueVars, callerVars, cq, functors, calling, ran, taken,
                   signalled, quit>>

\* io_uring_wait_cqe returns with a completion.
Wait ==
    /\ cq # <<>> /\ LoopGoto("wait", "cqe")
    /\ UNCHANGED <<queueVars, callerVars, ringVars, functors, calling, ran, taken,
                   signalled, quit>>

\* io_uring_wait_cqe has no completion to return: it is interrupted by a signal, or
\* fails, which ends the loop.
WaitFails ==
    /\ cq = <<>>
    /\ LoopGoto("wait", "check") \/ LoopGoto("wait", "done")
    /\ UNCHANGED <<queueVars, callerVars, ringVars, functors, calling, ran, taken,
                   signalled, quit>>

HandleWakeupOnce ==    \* a slip: the eventfd is not read again
    /\ loopPc = "cqe" /\ ~InCall(Loop)
    /\ cq # <<>> /\ Head(cq) = Wake
    /\ cq' = Tail(cq)
    /\ ctx' = [ctx EXCEPT ![Wake] = "unset"]
    /\ UNCHANGED <<queueVars, callerVars, loopVars, signalled, quit>>

\* handleWakeup prepares the next read of the eventfd.
HandleWakeup ==
    /\ loopPc = "cqe" /\ ~InCall(Loop)
    /\ cq # <<>> /\ Head(cq) = Wake
    /\ cq' = Tail(cq)
    /\ Prepare(Wake)
    /\ UNCHANGED <<queueVars, callerVars, loopVars, signalled, quit>>

\* handleCompletionEvent for the request of the acceptor or of a connection:
\* the coroutine or handler asks for the next operation, or is done with its
\* context, and may hand a task to its own loop or quit it.
HandleIo(c) ==
    /\ loopPc = "cqe" /\ ~InCall(Loop)
    /\ cq # <<>> /\ Head(cq) = c
    /\ cq' = Tail(cq)
    /\ Prepare(c) \/ ctx' = [ctx EXCEPT ![c] = "unset"]
    /\ \/ UNCHANGED <<queueVars, callerVars, quit>>
       \/ EnterQueueInLoop(Loop) /\ UNCHANGED quit
       \/ quit' = TRUE /\ UNCHANGED <<queueVars, callerVars>>
    /\ UNCHANGED <<loopVars, signalled>>

PendingBeginNoFlag ==    \* a slip: callingPendingFunctors_ is not set
    /\ ~InCall(Loop) /\ cq = <<>>
    /\ LoopGoto("cqe", "drain")
    /\ UNCHANGED <<queueVars, callerVars, ringVars, functors, calling, ran,
                   taken, signalled, quit>>

\* The completion queue is advanced and doPendingFunctors begins.
PendingBegin ==
    /\ ~InCall(Loop) /\ cq = <<>>
    /\ LoopGoto("cqe", "drain")
    /\ calling' = TRUE
    /\ UNCHANGED <<queueVars, callerVars, ringVars, functors, ran, taken,
                   signalled, quit>>

DrainTake ==
    /\ loopPc = "drain"
    /\ Len(functors) < DrainLimit
    /\ Pending!Take(Loop)
    /\ taken' = taken + 1
    /\ UNCHANGED <<callerVars, ringVars, loopPc, functors, calling, ran,
                   signalled, quit>>

DrainKeepMovedFrom ==    \* a slip: f is kept after it has been moved from
    /\ loopPc = "drain"
    /\ Pending!Release(Loop)
    /\ functors' = Append(functors, None)
    /\ UNCHANGED <<callerVars, ringVars, loopPc, calling, ran, taken,
                   signalled, quit>>

DrainKeepInFront ==    \* a slip: the local vector is filled from the back
    /\ loopPc = "drain"
    /\ Pending!Release(Loop)
    /\ functors' = <<holding[Loop]>> \o functors
    /\ UNCHANGED <<callerVars, ringVars, loopPc, calling, ran, taken,
                   signalled, quit>>

DrainKeep ==
    /\ loopPc = "drain"
    /\ Pending!Release(Loop)
    /\ functors' = Append(functors, holding[Loop])
    /\ UNCHANGED <<callerVars, ringVars, loopPc, calling, ran, taken,
                   signalled, quit>>

\* A dequeue finds nothing, or the limit is reached.
DrainEnd ==
    /\ holding[Loop] = None
    /\ LoopGoto("drain", "run")
    /\ IF Len(functors) < DrainLimit THEN Pending!FindEmpty(Loop)
                                     ELSE UNCHANGED queueVars
    /\ UNCHANGED <<callerVars, ringVars, functors, calling, ran, taken,
                   signalled, quit>>

\* One task runs: connectEstablished starts a read, forceClose queues a task,
\* quit stops the loop, others do nothing here.
RunTask ==
    /\ loopPc = "run" /\ ~InCall(Loop)
    /\ functors # <<>>
    /\ ran' = Append(ran, Head(functors))
    /\ functors' = Tail(functors)
    /\ \/ UNCHANGED <<queueVars, callerVars, ctx, quit>>
       \/ EnterQueueInLoop(Loop) /\ UNCHANGED <<ctx, quit>>
       \/ \E c \in Io : /\ ctx[c] = "unset" /\ Prepare(c)
                        /\ UNCHANGED <<queueVars, callerVars, quit>>
       \/ quit' = TRUE /\ UNCHANGED <<queueVars, callerVars, ctx>>
    /\ UNCHANGED <<cq, loopPc, calling, taken, signalled>>

PendingEnd ==
    /\ ~InCall(Loop) /\ functors = <<>>
    /\ LoopGoto("run", "check")
    /\ calling' = FALSE
    /\ UNCHANGED <<queueVars, callerVars, ringVars, functors, ran, taken,
                   signalled, quit>>

-----------------------------------------------------------------------------
InsideCall(t) ==
    \/ QueueSize(t) \/ QueueClaim(t) \/ QueueFull(t) \/ QueuePublish(t)
    \/ QueueMark(t) \/ QueueStore(t) \/ QueueTell(t) \/ QueueWake(t)
    \/ QuitWake(t)

LoopStep ==
    \/ LoopStart \/ Check \/ Submit \/ Wait
    \/ HandleWakeup \/ \E c \in Io : HandleIo(c)
    \/ PendingBegin \/ DrainTake \/ DrainKeep \/ DrainEnd \/ RunTask \/ PendingEnd

Kernel == WakeRead \/ \E c \in Io : IoComplete(c)

Next ==
    \/ \E t \in Threads : QueueInLoop(t) \/ QuitByOther(t) \/ InsideCall(t)
    \/ \E c \in EarlyIo : PrepareEarly(c)
    \/ LoopStep
    \/ WaitFails
    \/ Kernel

Spec == Init /\ [][Next]_vars

\* Every thread inside a call and the loop thread keep running, and the kernel
\* completes a read of a signalled eventfd. Other I/O may never complete, and no
\* signal has to come.
Fairness ==
    /\ \A t \in Threads : WF_vars(InsideCall(t))
    /\ WF_vars(LoopStep)
    /\ WF_vars(WakeRead)

FairSpec == Spec /\ Fairness

-----------------------------------------------------------------------------
(* What the loop promises                                                   *)

\* A caller that has its task in the queue and has not yet written the eventfd.
Waking(t) == pc[t] \in {"q_publish", "q_mark", "q_high", "q_tell_high", "q_low",
                        "q_tell_low", "q_wake"}

\* No lost wakeup: while the loop is between doPendingFunctors and the next
\* batch of completions, a task left in the queue is announced by a signalled
\* eventfd, by a completion not yet handled, or by a caller about to signal.
\* The eventfd may have been read on behalf of another, earlier task.
NoLostWakeup ==
    loopPc \in {"check", "submit", "wait"} /\ queue # <<>> =>
        signalled \/ cq # <<>> \/ \E t \in Threads : Waking(t)

\* The eventfd always has a read prepared, in flight or completed. Re-arming it
\* can fail, for good, only in a submission queue with fewer entries than there
\* are contexts.
WakeupArmed ==
    \/ ctx[Wake] \in {"prepared", "submitted", "completed"}
    \/ ctx[Wake] = "lost" /\ SqSize < Cardinality(Contexts)

\* The read of the eventfd is never refused by a full submission queue. Then, and
\* only then, the loop can be woken.
WakeupNeverLost == [](ctx[Wake] # "lost")

\* quit() from any thread makes loop() return, if the loop can be woken.
QuitStopsLoop == WakeupNeverLost => (quit ~> loopPc = "done")

\* What EventLoop.hpp:41 says of the backpressure callback, that it is called on
\* the way from normal to high and from high to normal: it is called with true only
\* when the high state was not announced already, and what it last announced is
\* what the loop believes in, except between the store and the call. inHighWaterMark_
\* is read, told of and stored without a lock (queueInLoop).
CallbackTellsTransitions ==
    /\ \A t \in Threads : pc[t] = "q_high" => ~told
    /\ told = inHigh \/ \E t \in Threads : pc[t] \in {"q_tell_high", "q_tell_low"}

-----------------------------------------------------------------------------
(* Every task that was accepted is in exactly one place, and the places      *)
(* follow one another in the order of acceptance.                           *)
InHand == IF holding[Loop] = None THEN <<>> ELSE <<holding[Loop]>>

Runner == INSTANCE Executor WITH
            accepted <- ran \o functors \o InHand \o queue,
            stopped <- loopPc = "done"

\* Accepted tasks run in the order of acceptance and each once, whatever requests
\* a full submission queue loses (queueInLoop, doPendingFunctors).
ImplementsExecutorSafety == Runner!ExecutorSafety

\* Every accepted task runs, unless the loop returns, if the loop can be woken
\* (queueInLoop, wakeup, handleWakeup).
AcceptedTasksRun == WakeupNeverLost => Runner!ExecutorFairness
=============================================================================

-------------------------- MODULE EventLoopProofs --------------------------
(***************************************************************************)
(* Proofs about EventLoop for any number of threads, contexts and tasks:   *)
(* type correctness; that no wakeup is lost as long as one drain may take   *)
(* as many tasks as the queue can hold; that the eventfd stays armed; and   *)
(* that the loop implements Executor up to the fairness of the latter.     *)
(***************************************************************************)
EXTENDS EventLoop, FiniteSetTheorems, SequenceTheorems, TLAPS

(* Type correctness                                                         *)

\* A thread inside queueInLoop carries one of its tasks.
CarriesTask ==
    \A t \in Threads : pc[t] \notin {"idle", "quit_wake"} => calls[t] >= 1

TypeInv == TypeOK /\ CarriesTask

LEMMA TypeInit == Init => TypeInv
<1>. SUFFICES ASSUME Init PROVE TypeInv
  OBVIOUS
<1>1. Pending!TaskQueueTypeOK
  BY DEF Init, Pending!TaskQueueInit, Pending!TaskQueueTypeOK, Pending!Threads
<1>2. ctx \in [Contexts -> {"unset", "prepared", "submitted", "completed", "lost"}]
  BY DEF Init
<1>3. cq \in Seq(Contexts) /\ functors \in Seq(Tasks) /\ ran \in Seq(Tasks)
  BY DEF Init
<1>4. CarriesTask
  BY DEF Init, CarriesTask
<1>5. /\ taken \in Nat
      /\ pc \in [Threads -> CallPc]
      /\ cur \in [Threads -> Int]
      /\ loopPc \in LoopPc
  BY DEF Init, CallPc, LoopPc
<1>6. /\ calls \in [Threads -> 0 .. MaxTasks]
  BY BoundsAssumption DEF Init
<1>7. inHigh \in BOOLEAN /\ told \in BOOLEAN /\ signalled \in BOOLEAN
      /\ calling \in BOOLEAN /\ quit \in BOOLEAN
  BY DEF Init
<1>. QED
  BY <1>1, <1>2, <1>3, <1>4, <1>5, <1>6, <1>7 DEF TypeInv, TypeOK

LEMMA TaskType ==
    ASSUME TypeInv, NEW t \in Threads, pc[t] \notin {"idle", "quit_wake"}
    PROVE  Task(t) \in Tasks
<1>1. calls[t] \in 0 .. MaxTasks
  BY DEF TypeInv, TypeOK
<1>2. calls[t] >= 1
  BY DEF TypeInv, CarriesTask
<1>3. calls[t] \in 1 .. MaxTasks
  BY <1>1, <1>2, BoundsAssumption
<1>. QED  BY <1>3 DEF Task, Tasks

LEMMA EnterType ==
    ASSUME TypeInv, NEW t \in Threads, EnterQueueInLoop(t)
    PROVE  /\ Pending!TaskQueueTypeOK'
           /\ pc' \in [Threads -> CallPc]
           /\ calls' \in [Threads -> 0 .. MaxTasks]
           /\ cur' \in [Threads -> Int]
           /\ CarriesTask'
           /\ UNCHANGED <<inHigh, told>>
<1>. USE BoundsAssumption
     DEF TypeInv, TypeOK, CarriesTask, EnterQueueInLoop, Goto, CallPc
<1>1. Pending!TaskQueueTypeOK'
  BY DEF Pending!Call, Pending!TaskQueueTypeOK, Pending!Threads, Threads
<1>2. calls[t] + 1 \in 0 .. MaxTasks
  BY DEF Threads
<1>. QED  BY <1>1, <1>2

LEMMA CallType ==
    ASSUME TypeInv, NEW t \in Threads,
           QueueInLoop(t) \/ QuitByOther(t) \/ InsideCall(t)
    PROVE  TypeInv'
<1>. USE DEF TypeInv, TypeOK, CarriesTask, Goto, CallPc, queueVars, ringVars, loopVars
<1>1. CASE QueueInLoop(t)
  BY <1>1, EnterType DEF QueueInLoop
<1>2. CASE QuitByOther(t)
  BY <1>2 DEF QuitByOther, Pending!TaskQueueTypeOK
<1>3. CASE QueueSize(t)
  <2>1. (taken + Len(queue)) - cur[t] \in Int
    BY DEF Pending!TaskQueueTypeOK
  <2>. QED  BY <1>3, <2>1 DEF QueueSize, Pending!TaskQueueTypeOK
<1>4. CASE QueueClaim(t)
  <2>1. Task(t) \in Tasks
    BY <1>4, TaskType DEF QueueClaim
  <2>2. Pending!TaskQueueTypeOK'
    BY <1>4, <2>1 DEF QueueClaim, Pending!Claim, Pending!TaskQueueTypeOK
  <2>. QED  BY <1>4, <2>2 DEF QueueClaim
<1>5. CASE QueueFull(t)
  <2>1. Pending!TaskQueueTypeOK'
    BY <1>5 DEF QueueFull, Pending!Refuse, Pending!TaskQueueTypeOK, Pending!Threads, Threads
  <2>. QED  BY <1>5, <2>1 DEF QueueFull
<1>6. CASE QueuePublish(t)
  <2>1. Pending!TaskQueueTypeOK'
    BY <1>6 DEF QueuePublish, Pending!Publish, Pending!TaskQueueTypeOK, Pending!Threads, Threads
  <2>. QED  BY <1>6, <2>1 DEF QueuePublish
<1>7. CASE QueueMark(t)
  <2>1. cur' \in [Threads -> Int]
    BY <1>7 DEF QueueMark
  <2>2. /\ pc[t] = "q_mark" /\ pc' \in [Threads -> CallPc]
        /\ \A u \in Threads : u # t => pc'[u] = pc[u]
    BY <1>7 DEF QueueMark
  <2>3. Pending!TaskQueueTypeOK' /\ UNCHANGED calls
    BY <1>7 DEF QueueMark, Pending!TaskQueueTypeOK
  <2>4. UNCHANGED <<inHigh, told, ringVars, loopVars, signalled, quit>>
    BY <1>7 DEF QueueMark
  <2>5. CarriesTask'
    BY <2>2, <2>3
  <2>. QED  BY <2>1, <2>2, <2>3, <2>4, <2>5
<1>8. CASE QueueStore(t)
  BY <1>8 DEF QueueStore, Pending!TaskQueueTypeOK
<1>9. CASE QueueTell(t)
  BY <1>9 DEF QueueTell, Pending!TaskQueueTypeOK
<1>10. CASE QueueWake(t)
  BY <1>10 DEF QueueWake, Pending!TaskQueueTypeOK
<1>11. CASE QuitWake(t)
  BY <1>11 DEF QuitWake, Pending!TaskQueueTypeOK
<1>. QED
  BY <1>1, <1>2, <1>3, <1>4, <1>5, <1>6, <1>7, <1>8, <1>9, <1>10, <1>11
     DEF InsideCall

ContextState == {"unset", "prepared", "submitted", "completed", "lost"}

LEMMA PrepareType ==
    ASSUME TypeInv, NEW c \in Contexts, Prepare(c)
    PROVE  ctx' \in [Contexts -> ContextState]
  BY DEF TypeInv, TypeOK, Prepare, ContextState

LEMMA LoopType ==
    ASSUME TypeInv,
           \/ LoopStep \/ WaitFails \/ Kernel \/ \E c \in Io : PrepareEarly(c)
    PROVE  TypeInv'
<1>. USE BoundsAssumption
     DEF TypeInv, TypeOK, CarriesTask, LoopGoto, LoopPc, ContextState,
         queueVars, callerVars, ringVars, loopVars
<1>1. ASSUME NEW c \in Io, PrepareEarly(c) PROVE TypeInv'
  BY <1>1, PrepareType DEF PrepareEarly, Contexts, Pending!TaskQueueTypeOK
<1>2. CASE WakeRead
  <2>1. cq' \in Seq(Contexts) /\ ctx' \in [Contexts -> ContextState]
    BY <1>2 DEF WakeRead, Contexts
  <2>. QED  BY <1>2, <2>1 DEF WakeRead, Pending!TaskQueueTypeOK
<1>3. ASSUME NEW c \in Io, IoComplete(c) PROVE TypeInv'
  <2>1. cq' \in Seq(Contexts) /\ ctx' \in [Contexts -> ContextState]
    BY <1>3 DEF IoComplete, Contexts
  <2>. QED  BY <1>3, <2>1 DEF IoComplete, Pending!TaskQueueTypeOK
<1>4. CASE LoopStart
  BY <1>4 DEF LoopStart, Pending!TaskQueueTypeOK
<1>5. CASE Check
  BY <1>5 DEF Check, Pending!TaskQueueTypeOK
<1>6. CASE Submit
  <2>1. ctx' \in [Contexts -> ContextState]
    BY <1>6 DEF Submit
  <2>. QED  BY <1>6, <2>1 DEF Submit, Pending!TaskQueueTypeOK
<1>7. CASE Wait \/ WaitFails
  BY <1>7 DEF Wait, WaitFails, Pending!TaskQueueTypeOK
<1>8. CASE HandleWakeup
  <2>1. ctx' \in [Contexts -> ContextState]
    BY <1>8, PrepareType DEF HandleWakeup, Contexts
  <2>2. cq' \in Seq(Contexts)
    BY <1>8 DEF HandleWakeup
  <2>. QED  BY <1>8, <2>1, <2>2 DEF HandleWakeup, Pending!TaskQueueTypeOK
<1>9. ASSUME NEW c \in Io, HandleIo(c) PROVE TypeInv'
  <2>1. ctx' \in [Contexts -> ContextState]
    BY <1>9, PrepareType DEF HandleIo, Contexts
  <2>2. cq' \in Seq(Contexts)
    BY <1>9 DEF HandleIo
  <2>3. CASE UNCHANGED <<queueVars, callerVars, quit>>
    BY <1>9, <2>1, <2>2, <2>3 DEF HandleIo, Pending!TaskQueueTypeOK
  <2>4. CASE EnterQueueInLoop(Loop) /\ UNCHANGED quit
    BY <1>9, <2>1, <2>2, <2>4, EnterType DEF HandleIo, Threads
  <2>5. CASE quit' = TRUE /\ UNCHANGED <<queueVars, callerVars>>
    BY <1>9, <2>1, <2>2, <2>5 DEF HandleIo, Pending!TaskQueueTypeOK
  <2>. QED  BY <1>9, <2>3, <2>4, <2>5 DEF HandleIo
<1>10. CASE PendingBegin
  BY <1>10 DEF PendingBegin, Pending!TaskQueueTypeOK
<1>11. CASE DrainTake
  <2>1. Pending!TaskQueueTypeOK'
    BY <1>11 DEF DrainTake, Pending!Take, Pending!TaskQueueTypeOK
  <2>. QED  BY <1>11, <2>1 DEF DrainTake
<1>12. CASE DrainKeep
  <2>1. Pending!TaskQueueTypeOK'
    BY <1>12 DEF DrainKeep, Pending!Release, Pending!TaskQueueTypeOK, Pending!Threads
  <2>2. holding[Loop] \in Tasks
    BY <1>12 DEF DrainKeep, Pending!Release, Pending!TaskQueueTypeOK
  <2>. QED  BY <1>12, <2>1, <2>2 DEF DrainKeep
<1>13. CASE DrainEnd
  <2>1. Pending!TaskQueueTypeOK'
    BY <1>13 DEF DrainEnd, Pending!FindEmpty, Pending!TaskQueueTypeOK, Pending!Threads
  <2>. QED  BY <1>13, <2>1 DEF DrainEnd
<1>14. CASE RunTask
  <2>1. ran' \in Seq(Tasks) /\ functors' \in Seq(Tasks)
    BY <1>14 DEF RunTask
  <2>2. CASE UNCHANGED <<queueVars, callerVars, ctx, quit>>
    BY <1>14, <2>1, <2>2 DEF RunTask, Pending!TaskQueueTypeOK
  <2>3. CASE EnterQueueInLoop(Loop) /\ UNCHANGED <<ctx, quit>>
    BY <1>14, <2>1, <2>3, EnterType DEF RunTask, Threads
  <2>4. CASE \E c \in Io : /\ ctx[c] = "unset" /\ Prepare(c)
                           /\ UNCHANGED <<queueVars, callerVars, quit>>
    BY <1>14, <2>1, <2>4, PrepareType DEF RunTask, Contexts, Pending!TaskQueueTypeOK
  <2>5. CASE quit' = TRUE /\ UNCHANGED <<queueVars, callerVars, ctx>>
    BY <1>14, <2>1, <2>5 DEF RunTask, Pending!TaskQueueTypeOK
  <2>. QED  BY <1>14, <2>2, <2>3, <2>4, <2>5 DEF RunTask
<1>15. CASE PendingEnd
  BY <1>15 DEF PendingEnd, Pending!TaskQueueTypeOK
<1>. QED
  BY <1>1, <1>2, <1>3, <1>4, <1>5, <1>6, <1>7, <1>8, <1>9, <1>10, <1>11,
     <1>12, <1>13, <1>14, <1>15 DEF LoopStep, Kernel

LEMMA TypeStep == TypeInv /\ [Next]_vars => TypeInv'
<1>1. ASSUME TypeInv, UNCHANGED vars PROVE TypeInv'
  BY <1>1 DEF TypeInv, TypeOK, CarriesTask, vars, queueVars, callerVars, ringVars,
              loopVars, Pending!TaskQueueTypeOK
<1>. QED  BY <1>1, CallType, LoopType, BoundsAssumption DEF Next

\* Type correctness of the loop, its callers and its ring, for any number of
\* threads, contexts and tasks.
THEOREM TypeCorrect == Spec => []TypeOK
<1>1. Spec => []TypeInv
  BY TypeInit, TypeStep, PTL DEF Spec
<1>2. TypeInv => TypeOK
  BY DEF TypeInv
<1>. QED  BY <1>1, <1>2, PTL

-----------------------------------------------------------------------------
(* No lost wakeup                                                           *)

Announced == signalled \/ cq # <<>> \/ \E t \in Threads : Waking(t)

InHandCount == IF holding[Loop] = None THEN 0 ELSE 1

\* Who may be where: a placed and unpublished task belongs to a caller between
\* the two; the loop thread is inside a call only while it runs handlers or
\* tasks; the local variables of doPendingFunctors are empty outside it.
PlaceInv ==
    /\ \A t \in Threads : adding[t] # None => pc[t] = "q_publish"
    /\ InCall(Loop) => loopPc \in {"cqe", "run"} /\ pc[Loop] # "quit_wake"
    /\ calling <=> loopPc \in {"drain", "run"}
    /\ holding[Loop] # None => loopPc = "drain"
    /\ functors # <<>> => loopPc \in {"drain", "run"}
    /\ Len(queue) <= Capacity

\* What is still queued beyond what this drain can take has been announced
\* since the drain began; once the drain is over, that is all that is queued.
AnnounceInv ==
    /\ loopPc = "drain" =>
          Announced \/ Len(queue) + Len(functors) + InHandCount <= Capacity
    /\ loopPc \in {"init", "run", "check", "submit", "wait"} =>
          Announced \/ queue = <<>>

WakeInv == PlaceInv /\ AnnounceInv

LEMMA WakeInit == Init => WakeInv
  BY BoundsAssumption
     DEF Init, WakeInv, PlaceInv, AnnounceInv, InCall, Threads,
         Pending!TaskQueueInit

LEMMA StillAnnounced ==
    ASSUME Announced, cq' = cq \/ cq' # <<>>, signalled => signalled' \/ cq' # <<>>,
           \A t \in Threads : Waking(t) => Waking(t)' \/ signalled'
    PROVE  Announced'
  BY DEF Announced

\* The steps of a caller: the queue can only grow by a task whose caller is about
\* to signal, and nobody leaves queueInLoop without signalling while the loop is
\* past the completions of this iteration.
LEMMA WakeCall ==
    ASSUME TypeInv, WakeInv, "task" \notin EarlyCalls, NEW t \in Threads,
           QueueInLoop(t) \/ QuitByOther(t) \/ InsideCall(t)
    PROVE  WakeInv'
<1>1. UNCHANGED <<cq, loopPc, functors, calling, holding>>
  BY DEF QueueInLoop, EnterQueueInLoop, QuitByOther, InsideCall, QueueSize, QueueClaim,
         QueueFull, QueuePublish, QueueMark, QueueStore, QueueTell, QueueWake,
         QuitWake, Pending!Call, Pending!Claim, Pending!Refuse, Pending!Publish,
         queueVars, ringVars, loopVars
<1>2. /\ pc[t] \in CallPc /\ DOMAIN pc = Threads
      /\ adding \in [Threads -> Tasks \cup {None}] /\ queue \in Seq(Tasks)
  BY DEF TypeInv, TypeOK, Pending!TaskQueueTypeOK
<1>3. ASSUME ~QueueClaim(t), ~QueueWake(t), ~QuitWake(t) PROVE WakeInv'
  <2>1. /\ UNCHANGED <<queue, signalled>>
        /\ \A u \in Threads : u # t => pc'[u] = pc[u] /\ adding'[u] = adding[u]
    BY <1>2, <1>3
       DEF QueueInLoop, EnterQueueInLoop, QuitByOther, InsideCall, QueueSize,
           QueueFull, QueuePublish, QueueMark, QueueStore, QueueTell, Goto,
           Pending!Call, Pending!Refuse, Pending!Publish, queueVars
  <2>2. Waking(t) => Waking(t)'
    BY <1>2, <1>3
       DEF QueueInLoop, EnterQueueInLoop, QuitByOther, InsideCall, QueueSize,
           QueueFull, QueuePublish, QueueMark, QueueStore, QueueTell, Goto, Waking
  <2>3. Announced => Announced'
    BY <1>1, <2>1, <2>2, StillAnnounced DEF Waking
  <2>4. adding'[t] # None => pc'[t] = "q_publish"
    BY <1>2, <1>3
       DEF QueueInLoop, EnterQueueInLoop, QuitByOther, InsideCall, QueueSize,
           QueueFull, QueuePublish, QueueMark, QueueStore, QueueTell, Goto,
           Pending!Call, Pending!Refuse, Pending!Publish, queueVars, WakeInv, PlaceInv
  <2>5. t = Loop /\ pc'[t] # "idle" => loopPc \in {"cqe", "run"} /\ pc'[t] # "quit_wake"
    BY <1>2, <1>3
       DEF QueueInLoop, EnterQueueInLoop, QuitByOther, InsideCall, QueueSize,
           QueueFull, QueuePublish, QueueMark, QueueStore, QueueTell, Goto,
           WakeInv, PlaceInv, InCall
  <2>. QED
    BY <1>1, <2>1, <2>3, <2>4, <2>5
       DEF WakeInv, PlaceInv, AnnounceInv, InHandCount, InCall, Threads
<1>4. CASE QueueClaim(t)
  <2>1. /\ pc[t] = "q_enqueue" /\ pc' = [pc EXCEPT ![t] = "q_publish"]
        /\ Len(queue) < Capacity /\ queue' = Append(queue, Task(t))
        /\ adding' = [adding EXCEPT ![t] = Task(t)]
    BY <1>4 DEF QueueClaim, Goto, Pending!Claim
  <2>2. Announced'
    BY <1>2, <2>1 DEF Announced, Waking
  <2>3. Len(queue') <= Capacity
    BY <1>2, <2>1, BoundsAssumption
  <2>. QED
    BY <1>1, <1>2, <2>1, <2>2, <2>3
       DEF WakeInv, PlaceInv, AnnounceInv, InCall, Threads
<1>5. CASE QueueWake(t)
  <2>1. /\ pc[t] = "q_wake" /\ pc' = [pc EXCEPT ![t] = "idle"]
        /\ signalled' = (signalled \/ t # Loop \/ calling)
        /\ UNCHANGED <<queue, adding>>
    BY <1>5 DEF QueueWake, Goto, queueVars
  <2>2. CASE t # Loop \/ calling
    <3>1. Announced'
      BY <2>1, <2>2 DEF Announced
    <3>. QED
      BY <1>1, <1>2, <2>1, <3>1 DEF WakeInv, PlaceInv, AnnounceInv, InCall, Threads
  <2>3. CASE t = Loop /\ ~calling
    <3>1. loopPc = "cqe"
      BY <2>1, <2>3 DEF WakeInv, PlaceInv, InCall
    <3>. QED
      BY <1>1, <1>2, <2>1, <3>1 DEF WakeInv, PlaceInv, AnnounceInv, InCall, Threads
  <2>. QED  BY <2>2, <2>3
<1>6. CASE QuitWake(t)
  <2>1. /\ pc[t] = "quit_wake" /\ pc' = [pc EXCEPT ![t] = "idle"]
        /\ signalled' = TRUE
        /\ UNCHANGED <<queue, adding>>
    BY <1>6 DEF QuitWake, Goto, queueVars
  <2>2. Announced'
    BY <2>1 DEF Announced
  <2>. QED
    BY <1>1, <1>2, <2>1, <2>2 DEF WakeInv, PlaceInv, AnnounceInv, InCall, Threads
<1>. QED  BY <1>3, <1>4, <1>5, <1>6

\* The steps of the loop thread and of the kernel. A read of the eventfd turns
\* its signal into a completion; completions are consumed only before a drain;
\* a drain leaves behind what arrived after it began, or a task at the head of
\* the queue that its caller has still to publish.
LEMMA WakeLoop ==
    ASSUME TypeInv, WakeInv, DrainLimit >= Capacity,
           \/ LoopStep \/ WaitFails \/ Kernel \/ \E c \in Io : PrepareEarly(c)
    PROVE  WakeInv'
<1>0. /\ queue \in Seq(Tasks) /\ functors \in Seq(Tasks) /\ cq \in Seq(Contexts)
      /\ adding \in [Threads -> Tasks \cup {None}]
      /\ holding \in [{Loop} -> Tasks \cup {None}]
      /\ pc \in [Threads -> CallPc]
      /\ Loop \in Threads
  BY DEF TypeInv, TypeOK, Pending!TaskQueueTypeOK, Threads
<1>. USE <1>0, BoundsAssumption
     DEF WakeInv, PlaceInv, AnnounceInv, LoopGoto, InCall, InHandCount,
         queueVars, callerVars, ringVars, loopVars
\* Requests move through the ring, an eventfd signal becomes a completion.
<1>1. ASSUME NEW c \in Io, PrepareEarly(c) PROVE WakeInv'
  BY <1>1 DEF PrepareEarly, Announced, Waking
<1>2. CASE WakeRead
  <2>1. cq' # <<>>
    BY <1>2 DEF WakeRead
  <2>2. Announced'
    BY <2>1 DEF Announced
  <2>. QED  BY <1>2, <2>2 DEF WakeRead
<1>3. ASSUME NEW c \in Io, IoComplete(c) PROVE WakeInv'
  <2>1. cq' # <<>>
    BY <1>3 DEF IoComplete
  <2>2. Announced'
    BY <2>1 DEF Announced
  <2>. QED  BY <1>3, <2>2 DEF IoComplete
<1>4. CASE LoopStart
  BY <1>4 DEF LoopStart, Announced, Waking
<1>5. CASE Check
  BY <1>5 DEF Check, Announced, Waking
<1>6. CASE Submit
  BY <1>6 DEF Submit, Announced, Waking
<1>7. CASE Wait \/ WaitFails
  BY <1>7 DEF Wait, WaitFails, Announced, Waking
\* Handlers run: what the loop thread queues here, this iteration drains.
<1>8. CASE HandleWakeup
  BY <1>8 DEF HandleWakeup
<1>9. ASSUME NEW c \in Io, HandleIo(c) PROVE WakeInv'
  BY <1>9 DEF HandleIo, EnterQueueInLoop, Goto, Pending!Call
\* The drain.
<1>10. CASE PendingBegin
  <2>1. Len(functors) = 0
    BY <1>10 DEF PendingBegin
  <2>2. holding[Loop] = None
    BY <1>10 DEF PendingBegin
  <2>. QED  BY <1>10, <2>1, <2>2 DEF PendingBegin
<1>11. CASE DrainTake
  <2>1. /\ queue # <<>> /\ queue' = Tail(queue)
        /\ holding[Loop] = None /\ holding' = [holding EXCEPT ![Loop] = Head(queue)]
        /\ UNCHANGED <<adding, pc, signalled, cq, loopPc, functors, calling>>
    BY <1>11 DEF DrainTake, Pending!Take
  <2>2. Len(queue') = Len(queue) - 1 /\ InHandCount' = InHandCount + 1
    BY <2>1, NoneAssumption
  <2>3. Announced' <=> Announced
    BY <2>1 DEF Announced, Waking
  <2>. QED  BY <1>11, <2>1, <2>2, <2>3 DEF DrainTake
<1>12. CASE DrainKeep
  <2>1. /\ holding[Loop] # None /\ holding' = [holding EXCEPT ![Loop] = None]
        /\ functors' = Append(functors, holding[Loop])
        /\ loopPc = "drain"
        /\ UNCHANGED <<queue, adding, pc, signalled, cq, loopPc, calling>>
    BY <1>12 DEF DrainKeep, Pending!Release
  <2>2. Len(functors') = Len(functors) + 1 /\ InHandCount' = InHandCount - 1
    BY <2>1
  <2>3. Announced' <=> Announced
    BY <2>1 DEF Announced, Waking
  <2>. QED  BY <2>1, <2>2, <2>3
<1>13. CASE DrainEnd
  <2>1. /\ loopPc = "drain" /\ loopPc' = "run" /\ holding[Loop] = None
        /\ UNCHANGED <<queue, adding, holding, pc, signalled, cq, functors, calling>>
    BY <1>13 DEF DrainEnd, Pending!FindEmpty
  <2>2. Announced' <=> Announced
    BY <2>1 DEF Announced, Waking
  <2>3. Announced \/ queue = <<>>
    <3>1. CASE Len(functors) < DrainLimit
      <4>1. queue # <<>> => \E t \in Threads : adding[t] = Head(queue)
        BY <1>13, <3>1 DEF DrainEnd, Pending!FindEmpty, Pending!Unpublished
      <4>2. queue # <<>> => \E t \in Threads : pc[t] = "q_publish"
        BY <4>1, NoneAssumption
      <4>. QED  BY <4>2 DEF Announced, Waking
    <3>2. CASE ~(Len(functors) < DrainLimit)
      <4>1. Announced \/ Len(queue) <= 0
        BY <2>1, <3>2
      <4>. QED  BY <4>1
    <3>. QED  BY <3>1, <3>2
  <2>. QED  BY <2>1, <2>2, <2>3
\* Tasks run: what they queue is announced, because calling is set.
<1>14. CASE RunTask
  <2>1. /\ loopPc = "run" /\ loopPc' = "run"
        /\ UNCHANGED <<queue, adding, holding, signalled, cq, calling>>
        /\ pc[Loop] = "idle" /\ pc'[Loop] # "quit_wake"
        /\ \A t \in Threads : t # Loop => pc'[t] = pc[t]
    BY <1>14 DEF RunTask, EnterQueueInLoop, Goto, Pending!Call
  <2>2. Announced => Announced'
    BY <2>1 DEF Announced, Waking
  <2>3. \A t \in Threads : adding'[t] # None => pc'[t] = "q_publish"
    BY <2>1
  <2>. QED  BY <2>1, <2>2, <2>3
<1>15. CASE PendingEnd
  BY <1>15 DEF PendingEnd, Announced, Waking
<1>. QED
  BY <1>1, <1>2, <1>3, <1>4, <1>5, <1>6, <1>7, <1>8, <1>9, <1>10, <1>11,
     <1>12, <1>13, <1>14, <1>15 DEF LoopStep, Kernel

LEMMA WakeStep ==
    ASSUME TypeInv, WakeInv, DrainLimit >= Capacity, "task" \notin EarlyCalls,
           [Next]_vars
    PROVE  WakeInv'
<1>1. CASE UNCHANGED vars
  BY <1>1 DEF vars, queueVars, callerVars, ringVars, loopVars, WakeInv, PlaceInv,
              AnnounceInv, InCall, InHandCount, Announced, Waking
<1>. QED  BY <1>1, WakeCall, WakeLoop, BoundsAssumption DEF Next

\* No wakeup is lost, for any number of threads, contexts and tasks: provided a
\* drain may take as many tasks as the queue holds, and the loop thread queues
\* nothing for itself before it enters loop().
THEOREM WakeupsAreNotLost ==
    ASSUME DrainLimit >= Capacity, "task" \notin EarlyCalls
    PROVE  Spec => []NoLostWakeup
<1>1. Init => TypeInv /\ WakeInv
  BY TypeInit, WakeInit
<1>2. TypeInv /\ WakeInv /\ [Next]_vars => (TypeInv /\ WakeInv)'
  BY TypeStep, WakeStep
<1>3. WakeInv => NoLostWakeup
  BY DEF WakeInv, AnnounceInv, Announced, NoLostWakeup
<1>. QED  BY <1>1, <1>2, <1>3, PTL DEF Spec

-----------------------------------------------------------------------------
(* The eventfd is always being read                                         *)
(*                                                                          *)
(* A context waits in the completion queue at most once and only while it is *)
(* completed: re-arming the eventfd, which follows the completion of its     *)
(* read, is the only request for it, and where there is an entry for every   *)
(* context it finds one beside the others.                                  *)

Armed == {"prepared", "submitted", "completed"}
             \union {s \in {"lost"} : SqSize < Cardinality(Contexts)}

RingInv ==
    /\ \A i \in 1 .. Len(cq) : ctx[cq[i]] = "completed"
    /\ \A i, j \in 1 .. Len(cq) : cq[i] = cq[j] => i = j
    /\ ctx[Wake] \in Armed

\* A request for one context leaves the others, and is lost only when as many as
\* the submission queue has entries are prepared.
LEMMA PrepareOne ==
    ASSUME TypeInv, NEW c \in Contexts, Prepare(c)
    PROVE  /\ \A d \in Contexts : d # c => ctx'[d] = ctx[d]
           /\ ctx'[c] \in {"prepared", "lost"}
           /\ Cardinality(Prepared) < SqSize => ctx'[c] = "prepared"
BY DEF TypeInv, TypeOK, Prepare

LEMMA RoomForWake ==
    ASSUME IsFiniteSet(Io), Cardinality(Contexts) <= SqSize, ctx[Wake] # "prepared"
    PROVE  Cardinality(Prepared) < SqSize
<1>1. Prepared \subseteq Io
  BY DEF Prepared, Contexts
<1>2. Cardinality(Contexts) = Cardinality(Io) + 1
  BY WakeAssumption, FS_AddElement DEF Contexts
<1>3. Cardinality(Prepared) <= Cardinality(Io) /\ IsFiniteSet(Prepared)
  BY <1>1, FS_Subset
<1>4. Cardinality(Prepared) \in Nat /\ Cardinality(Io) \in Nat
  BY <1>3, FS_CardinalityType
<1>. QED  BY <1>2, <1>3, <1>4, BoundsAssumption

\* What the kernel appends to the completion queue was not there.
LEMMA RingAppend ==
    ASSUME TypeInv, RingInv, NEW c \in Contexts, ctx[c] = "submitted",
           ctx' = [ctx EXCEPT ![c] = "completed"], cq' = Append(cq, c)
    PROVE  RingInv'
<1>1. cq \in Seq(Contexts) /\ ctx \in [Contexts -> ContextState]
  BY DEF TypeInv, TypeOK, ContextState
<1>2. /\ Len(cq') = Len(cq) + 1 /\ Len(cq) \in Nat
      /\ \A i \in 1 .. Len(cq) : cq'[i] = cq[i] /\ cq[i] \in Contexts /\ cq[i] # c
      /\ cq'[Len(cq) + 1] = c
  BY <1>1 DEF RingInv
<1>3. \A i \in 1 .. Len(cq') : i \in 1 .. Len(cq) \/ i = Len(cq) + 1
  BY <1>2
<1>4. \A d \in Contexts : ctx'[d] = IF d = c THEN "completed" ELSE ctx[d]
  BY <1>1
<1>5. \A i \in 1 .. Len(cq') : ctx'[cq'[i]] = "completed"
  BY <1>2, <1>3, <1>4 DEF RingInv
<1>6. \A i, j \in 1 .. Len(cq') : cq'[i] = cq'[j] => i = j
  BY <1>2, <1>3 DEF RingInv
<1>7. ctx'[Wake] \in Armed
  BY <1>4 DEF RingInv, Armed, Contexts
<1>. QED  BY <1>5, <1>6, <1>7 DEF RingInv

\* The handler of the first completion changes the context of that one only.
LEMMA RingTail ==
    ASSUME TypeInv, RingInv, cq # <<>>, cq' = Tail(cq),
           \A d \in Contexts : d # Head(cq) => ctx'[d] = ctx[d],
           Head(cq) = Wake => ctx'[Wake] \in Armed
    PROVE  RingInv'
<1>1. cq \in Seq(Contexts)
  BY DEF TypeInv, TypeOK
<1>2. /\ Len(cq') = Len(cq) - 1 /\ Len(cq) \in Nat \ {0}
      /\ \A i \in 1 .. Len(cq') : cq'[i] = cq[i + 1] /\ i + 1 \in 1 .. Len(cq)
      /\ Head(cq) = cq[1]
  BY <1>1
<1>3. \A i \in 1 .. Len(cq') : cq'[i] \in Contexts /\ cq'[i] # Head(cq)
  <2>. SUFFICES ASSUME NEW i \in 1 .. Len(cq')
                PROVE  cq'[i] \in Contexts /\ cq'[i] # Head(cq)
    OBVIOUS
  <2>1. i + 1 \in 1 .. Len(cq) /\ 1 \in 1 .. Len(cq) /\ i + 1 # 1
    BY <1>2
  <2>2. cq[i + 1] # cq[1]
    BY <2>1 DEF RingInv
  <2>3. cq[i + 1] \in Contexts
    BY <1>1, <2>1
  <2>. QED  BY <1>2, <2>2, <2>3
<1>4. \A i \in 1 .. Len(cq') : ctx'[cq'[i]] = "completed"
  <2>. SUFFICES ASSUME NEW i \in 1 .. Len(cq') PROVE ctx'[cq'[i]] = "completed"
    OBVIOUS
  <2>1. ctx'[cq'[i]] = ctx[cq[i + 1]]
    BY <1>2, <1>3
  <2>. QED  BY <1>2, <2>1 DEF RingInv
<1>5. ASSUME NEW i \in 1 .. Len(cq'), NEW j \in 1 .. Len(cq'), cq'[i] = cq'[j]
      PROVE  i = j
  <2>1. cq[i + 1] = cq[j + 1] /\ i + 1 \in 1 .. Len(cq) /\ j + 1 \in 1 .. Len(cq)
    BY <1>2, <1>5
  <2>2. i + 1 = j + 1
    BY <2>1 DEF RingInv
  <2>. QED  BY <2>2
<1>6. ctx'[Wake] \in Armed
  <2>1. Wake \in Contexts
    BY DEF Contexts
  <2>. QED  BY <2>1 DEF RingInv
<1>. QED  BY <1>4, <1>5, <1>6 DEF RingInv

\* A request for a context that was not in use.
LEMMA RingPrepare ==
    ASSUME TypeInv, RingInv, NEW c \in Contexts, ctx[c] = "unset", Prepare(c), cq' = cq
    PROVE  RingInv'
<1>1. \A d \in Contexts : d # c => ctx'[d] = ctx[d]
  BY PrepareOne
<1>2. cq \in Seq(Contexts) /\ Wake \in Contexts /\ Wake # c
  BY DEF TypeInv, TypeOK, Contexts, RingInv, Armed
<1>3. \A i \in 1 .. Len(cq) : cq[i] \in Contexts /\ cq[i] # c
  BY <1>2 DEF RingInv
<1>. QED  BY <1>1, <1>2, <1>3 DEF RingInv

LEMMA RingStep ==
    ASSUME IsFiniteSet(Io), TypeInv, RingInv, [Next]_vars
    PROVE  RingInv'
<1>0. Wake \in Contexts /\ \A c \in Io : c \in Contexts /\ c # Wake
  BY WakeAssumption DEF Contexts
<1>1. CASE UNCHANGED <<ctx, cq>>
  BY <1>1 DEF RingInv
<1>2. ASSUME NEW c \in Io, PrepareEarly(c) PROVE RingInv'
  BY <1>0, <1>2, RingPrepare DEF PrepareEarly
<1>3. CASE WakeRead
  BY <1>0, <1>3, RingAppend DEF WakeRead
<1>4. ASSUME NEW c \in Io, IoComplete(c) PROVE RingInv'
  BY <1>0, <1>4, RingAppend DEF IoComplete
<1>5. CASE Submit
  <2>1. /\ cq' = cq
        /\ \A d \in Contexts : ctx[d] = "completed" => ctx'[d] = "completed"
        /\ ctx'[Wake] \in Armed
    BY <1>0, <1>5 DEF Submit, RingInv, Armed
  <2>2. \A i \in 1 .. Len(cq) : cq[i] \in Contexts
    BY DEF TypeInv, TypeOK
  <2>. QED  BY <2>1, <2>2 DEF RingInv
<1>6. CASE HandleWakeup
  <2>1. cq # <<>> /\ Head(cq) = Wake /\ cq' = Tail(cq) /\ Prepare(Wake)
    BY <1>6 DEF HandleWakeup
  <2>2. ctx[Wake] = "completed"
    <3>1. Len(cq) \in Nat \ {0} /\ Head(cq) = cq[1]
      BY <2>1 DEF TypeInv, TypeOK
    <3>. QED  BY <2>1, <3>1 DEF RingInv
  <2>3. \A d \in Contexts : d # Wake => ctx'[d] = ctx[d]
    BY <1>0, <2>1, PrepareOne
  <2>4. CASE Cardinality(Contexts) <= SqSize
    <3>1. Cardinality(Prepared) < SqSize
      BY <2>2, <2>4, RoomForWake
    <3>2. ctx'[Wake] = "prepared"
      BY <1>0, <2>1, <3>1, PrepareOne
    <3>. QED  BY <2>1, <2>3, <3>2, RingTail DEF Armed
  <2>5. CASE SqSize < Cardinality(Contexts)
    <3>1. ctx'[Wake] \in {"prepared", "lost"}
      BY <1>0, <2>1, PrepareOne
    <3>2. ctx'[Wake] \in Armed
      BY <2>5, <3>1 DEF Armed
    <3>. QED  BY <2>1, <2>3, <3>2, RingTail
  <2>6. Cardinality(Contexts) \in Nat
    <3>1. IsFiniteSet(Contexts)
      BY FS_AddElement DEF Contexts
    <3>. QED  BY <3>1, FS_CardinalityType
  <2>. QED  BY <2>4, <2>5, <2>6, BoundsAssumption
<1>7. ASSUME NEW c \in Io, HandleIo(c) PROVE RingInv'
  <2>1. cq # <<>> /\ Head(cq) = c /\ cq' = Tail(cq)
    BY <1>7 DEF HandleIo
  <2>2. \A d \in Contexts : d # c => ctx'[d] = ctx[d]
    <3>1. CASE Prepare(c)
      BY <1>0, <3>1, PrepareOne
    <3>2. CASE ctx' = [ctx EXCEPT ![c] = "unset"]
      BY <3>2 DEF TypeInv, TypeOK
    <3>. QED  BY <1>7, <3>1, <3>2 DEF HandleIo
  <2>. QED  BY <1>0, <2>1, <2>2, RingTail
<1>8. ASSUME NEW c \in Io, ctx[c] = "unset", Prepare(c), RunTask PROVE RingInv'
  BY <1>0, <1>8, RingPrepare DEF RunTask
<1>9. CASE RunTask
  BY <1>1, <1>8, <1>9 DEF RunTask
<1>10. ASSUME NEW t \in Threads, QueueInLoop(t) \/ QuitByOther(t) \/ InsideCall(t)
       PROVE  RingInv'
  BY <1>1, <1>10
     DEF QueueInLoop, QuitByOther, InsideCall, QueueSize, QueueClaim, QueueFull,
         QueuePublish, QueueMark, QueueStore, QueueTell, QueueWake, QuitWake, ringVars
<1>11. CASE LoopStart \/ Check \/ Wait \/ WaitFails \/ PendingBegin \/ DrainTake \/ DrainKeep
            \/ DrainEnd \/ PendingEnd \/ UNCHANGED vars
  BY <1>1, <1>11
     DEF LoopStart, Check, Wait, WaitFails, PendingBegin, DrainTake, DrainKeep, DrainEnd,
         PendingEnd, vars, ringVars
<1>. QED
  BY <1>2, <1>3, <1>4, <1>5, <1>6, <1>7, <1>9, <1>10, <1>11, BoundsAssumption
     DEF Next, LoopStep, Kernel

\* The read of the eventfd is always prepared, in flight or completed, for any number
\* of contexts and callers: it can be lost only where the submission queue has no entry
\* for each context.
THEOREM EventfdStaysArmed ==
    ASSUME IsFiniteSet(Io)
    PROVE  Spec => []WakeupArmed
<1>1. Init => RingInv
  BY DEF Init, RingInv, Armed, Contexts
<1>2. TypeInv /\ RingInv /\ [Next]_vars => RingInv'
  BY RingStep
<1>3. RingInv => WakeupArmed
  BY DEF RingInv, Armed, WakeupArmed
<1>. QED  BY <1>1, <1>2, <1>3, TypeInit, TypeStep, PTL DEF Spec

-----------------------------------------------------------------------------
(* The loop implements Executor                                             *)
(*                                                                          *)
(* An accepted task moves from the queue through the hand of the drain and    *)
(* the local vector to the tasks that have run; only the first and the last   *)
(* of these moves are visible.                                                *)

Accepted == ran \o functors \o InHand \o queue

\* The ways in which the concatenation is taken apart, for any sequences.
LEMMA ConcatTake ==
    ASSUME NEW r \in Seq(Tasks), NEW f \in Seq(Tasks), NEW q \in Seq(Tasks), q # <<>>
    PROVE  r \o f \o <<Head(q)>> \o Tail(q) = r \o f \o <<>> \o q
OBVIOUS

LEMMA ConcatKeep ==
    ASSUME NEW r \in Seq(Tasks), NEW f \in Seq(Tasks), NEW q \in Seq(Tasks), NEW x \in Tasks
    PROVE  r \o Append(f, x) \o <<>> \o q = r \o f \o <<x>> \o q
<1>1. r \o Append(f, x) = r \o f \o <<x>>
  OBVIOUS
<1>2. r \o Append(f, x) \o <<>> = r \o Append(f, x)
  OBVIOUS
<1>. QED  BY <1>1, <1>2

LEMMA ConcatRun ==
    ASSUME NEW r \in Seq(Tasks), NEW f \in Seq(Tasks), NEW h \in Seq(Tasks), NEW q \in Seq(Tasks),
           f # <<>>
    PROVE  /\ Append(r, Head(f)) \o Tail(f) \o h \o q = r \o f \o h \o q
           /\ Len(r) < Len(r \o f \o h \o q)
           /\ (r \o f \o h \o q)[Len(r) + 1] = Head(f)
<1>1. Append(r, Head(f)) \o Tail(f) = r \o f
  OBVIOUS
<1>2. /\ r \o f \in Seq(Tasks) /\ Len(r) + 1 \in 1 .. Len(r \o f)
      /\ (r \o f)[Len(r) + 1] = Head(f)
  OBVIOUS
<1>3. /\ r \o f \o h \in Seq(Tasks) /\ Len(r) + 1 \in 1 .. Len(r \o f \o h)
      /\ (r \o f \o h)[Len(r) + 1] = Head(f)
  BY <1>2
<1>4. /\ Len(r) + 1 \in 1 .. Len(r \o f \o h \o q)
      /\ (r \o f \o h \o q)[Len(r) + 1] = Head(f)
  BY <1>3
<1>5. Len(r) < Len(r \o f \o h \o q)
  <2>1. Len(r) \in Nat /\ Len(r \o f \o h \o q) \in Nat
    BY <1>3
  <2>2. \A m, n \in Nat : m + 1 \in 1 .. n => m < n
    OBVIOUS
  <2>. QED  BY <1>4, <2>1, <2>2, Zenon
<1>. QED  BY <1>1, <1>4, <1>5, Zenon

RunnerNext == Runner!ExecutorNext
RunnerKeeps == UNCHANGED <<Accepted, ran, loopPc = "done">>

\* The parts of the concatenation, for the lemma above.
LEMMA Parts ==
    ASSUME TypeInv
    PROVE  /\ ran \in Seq(Tasks) /\ functors \in Seq(Tasks)
           /\ InHand \in Seq(Tasks) /\ queue \in Seq(Tasks)
BY DEF TypeInv, TypeOK, InHand, Pending!TaskQueueTypeOK

\* The steps of a caller: a task is accepted when its place in the queue is claimed.
LEMMA RunnerCall ==
    ASSUME TypeInv, NEW t \in Threads, QueueInLoop(t) \/ QuitByOther(t) \/ InsideCall(t)
    PROVE  RunnerNext \/ RunnerKeeps
<1>0. /\ ran \in Seq(Tasks) /\ functors \in Seq(Tasks)
      /\ InHand \in Seq(Tasks) /\ queue \in Seq(Tasks)
  BY Parts
<1>1. CASE QueueClaim(t)
  <2>1. /\ queue' = Append(queue, Task(t)) /\ pc[t] = "q_enqueue"
        /\ UNCHANGED <<ran, functors, holding, loopPc>>
    BY <1>1 DEF QueueClaim, Goto, Pending!Claim, loopVars
  <2>2. Task(t) \in Tasks
    BY <2>1, TaskType
  <2>3. InHand' = InHand
    BY <2>1 DEF InHand
  <2>4. Accepted' = ran \o functors \o InHand \o Append(queue, Task(t))
    BY <2>1, <2>3 DEF Accepted
  <2>5. Accepted' = Append(Accepted, Task(t))
    <3>0. \A x \in Tasks : ran \o functors \o InHand \o Append(queue, x)
                               = Append(ran \o functors \o InHand \o queue, x)
      BY ONLY <1>0, SMT
    <3>1. ran \o functors \o InHand \o Append(queue, Task(t))
              = Append(ran \o functors \o InHand \o queue, Task(t))
      BY ONLY <2>2, <3>0, Zenon
    <3>. QED  BY <2>4, <3>1 DEF Accepted
  <2>6. Runner!Accept(Task(t))
    BY <2>1, <2>5 DEF Runner!Accept, Accepted
  <2>. QED  BY <2>2, <2>6 DEF RunnerNext, Runner!ExecutorNext
<1>2. CASE ~QueueClaim(t)
  <2>1. UNCHANGED <<ran, functors, queue, holding, loopPc>>
    BY <1>2
       DEF QueueInLoop, EnterQueueInLoop, QuitByOther, InsideCall, QueueSize, QueueFull,
           QueuePublish, QueueMark, QueueStore, QueueTell, QueueWake, QuitWake,
           Pending!Call, Pending!Refuse, Pending!Publish, queueVars, loopVars
  <2>. QED  BY <2>1 DEF RunnerKeeps, Accepted, InHand
<1>. QED  BY <1>1, <1>2

\* The steps of the loop thread: the drain moves a task twice and nobody notices.
LEMMA RunnerLoop ==
    ASSUME TypeInv, LoopStep \/ WaitFails \/ Kernel \/ \E c \in Io : PrepareEarly(c)
    PROVE  RunnerNext \/ RunnerKeeps
<1>0. /\ ran \in Seq(Tasks) /\ functors \in Seq(Tasks)
      /\ InHand \in Seq(Tasks) /\ queue \in Seq(Tasks)
  BY Parts
<1>1. CASE UNCHANGED <<ran, functors, queue, holding, loopPc>>
  BY <1>1 DEF RunnerKeeps, Accepted, InHand
<1>2. ASSUME UNCHANGED <<ran, functors, queue, holding>>,
             loopPc # "done"
      PROVE  RunnerNext \/ RunnerKeeps
  <2>1. Accepted' = Accepted
    BY <1>2 DEF Accepted, InHand
  <2>2. CASE loopPc' = "done"
    <3>1. Runner!Stop
      BY <1>2, <2>1, <2>2 DEF Runner!Stop, Accepted
    <3>. QED  BY <3>1 DEF RunnerNext, Runner!ExecutorNext
  <2>3. CASE loopPc' # "done"
    BY <1>2, <2>1, <2>3 DEF RunnerKeeps
  <2>. QED  BY <2>2, <2>3
<1>3. CASE DrainTake
  <2>1. /\ queue # <<>> /\ queue' = Tail(queue) /\ holding[Loop] = None
        /\ holding' = [holding EXCEPT ![Loop] = Head(queue)]
        /\ UNCHANGED <<ran, functors, loopPc>>
    BY <1>3 DEF DrainTake, Pending!Take
  <2>2. InHand = <<>> /\ Head(queue) \in Tasks
    BY <2>1, Parts DEF InHand
  <2>3. InHand' = <<Head(queue)>>
    BY <2>1, <2>2, NoneAssumption DEF InHand, TypeInv, TypeOK, Pending!TaskQueueTypeOK
  <2>4. ran \o functors \o <<Head(queue)>> \o Tail(queue)
            = ran \o functors \o <<>> \o queue
    BY ONLY <1>0, <2>1, ConcatTake, Zenon
  <2>5. Accepted' = Accepted
    BY <2>1, <2>2, <2>3, <2>4 DEF Accepted
  <2>. QED  BY <2>1, <2>5 DEF RunnerKeeps
<1>4. CASE DrainKeep
  <2>1. /\ holding[Loop] # None /\ holding' = [holding EXCEPT ![Loop] = None]
        /\ functors' = Append(functors, holding[Loop])
        /\ UNCHANGED <<ran, queue, loopPc>>
    BY <1>4 DEF DrainKeep, Pending!Release
  <2>2. InHand = <<holding[Loop]>> /\ holding[Loop] \in Tasks
    BY <2>1 DEF InHand, TypeInv, TypeOK, Pending!TaskQueueTypeOK
  <2>3. InHand' = <<>>
    BY <2>1, NoneAssumption DEF InHand, TypeInv, TypeOK, Pending!TaskQueueTypeOK
  <2>4. ran \o Append(functors, holding[Loop]) \o <<>> \o queue
            = ran \o functors \o <<holding[Loop]>> \o queue
    <3>1. \A x \in Tasks : ran \o Append(functors, x) \o <<>> \o queue
                               = ran \o functors \o <<x>> \o queue
      BY ONLY <1>0, ConcatKeep, Zenon
    <3>. QED  BY ONLY <2>2, <3>1, Zenon
  <2>5. Accepted' = Accepted
    BY <2>1, <2>2, <2>3, <2>4 DEF Accepted
  <2>. QED  BY <2>1, <2>5 DEF RunnerKeeps
<1>5. CASE RunTask
  <2>1. /\ functors # <<>> /\ loopPc = "run" /\ loopPc' = loopPc
        /\ ran' = Append(ran, Head(functors)) /\ functors' = Tail(functors)
        /\ UNCHANGED <<queue, holding>>
    BY <1>5 DEF RunTask, EnterQueueInLoop, Pending!Call, queueVars
  <2>2. InHand' = InHand /\ Head(functors) \in Tasks
    BY <2>1, Parts DEF InHand
  <2>3. /\ Append(ran, Head(functors)) \o Tail(functors) \o InHand \o queue = Accepted
        /\ Len(ran) < Len(Accepted) /\ Accepted[Len(ran) + 1] = Head(functors)
    BY ONLY <1>0, <2>1, ConcatRun, ZenonT(60) DEF Accepted
  <2>4. Accepted' = Accepted
    BY <2>1, <2>2, <2>3 DEF Accepted
  <2>5. Runner!RunNext
    BY <2>1, <2>3, <2>4 DEF Runner!RunNext, Accepted
  <2>. QED  BY <2>5 DEF RunnerNext, Runner!ExecutorNext
<1>6. CASE LoopStart \/ Check \/ Submit \/ Wait \/ WaitFails \/ PendingBegin
           \/ DrainEnd \/ PendingEnd
  <2>1. UNCHANGED <<ran, functors, queue, holding>> /\ loopPc # "done"
    BY <1>6
       DEF LoopStart, Check, Submit, Wait, WaitFails, PendingBegin, DrainEnd, PendingEnd, LoopGoto,
           Pending!FindEmpty, queueVars
  <2>. QED  BY <1>2, <2>1
<1>7. CASE \/ HandleWakeup \/ Kernel \/ (\E c \in Io : HandleIo(c))
           \/ (\E c \in Io : PrepareEarly(c))
  <2>1. UNCHANGED <<ran, functors, queue, holding, loopPc>>
    BY <1>7
       DEF HandleWakeup, HandleIo, PrepareEarly, Kernel, WakeRead, IoComplete,
           EnterQueueInLoop, Pending!Call, queueVars, loopVars
  <2>. QED  BY <1>1, <2>1
<1>. QED  BY <1>3, <1>4, <1>5, <1>6, <1>7 DEF LoopStep

\* For any number of threads, tasks and contexts, any capacity, water marks and drain
\* limit, and any size of the submission queue: what queueInLoop accepts runs in the
\* order of acceptance, each task once, and nothing runs after the loop has stopped.
THEOREM LoopImplementsExecutor == Spec => ImplementsExecutorSafety
<1>1. Init => Runner!ExecutorInit
  BY DEF Init, Runner!ExecutorInit, InHand, Pending!TaskQueueInit
<1>2. TypeInv /\ [Next]_vars => [Runner!ExecutorNext]_(Runner!exVars)
  <2>. SUFFICES ASSUME TypeInv, [Next]_vars PROVE RunnerNext \/ RunnerKeeps
    BY DEF RunnerNext, RunnerKeeps, Runner!exVars, Accepted
  <2>1. CASE UNCHANGED vars
    BY <2>1 DEF vars, queueVars, loopVars, RunnerKeeps, Accepted, InHand
  <2>. QED  BY <2>1, RunnerCall, RunnerLoop, BoundsAssumption DEF Next
<1>. QED
  BY <1>1, <1>2, TypeInit, TypeStep, PTL
     DEF Spec, ImplementsExecutorSafety, Runner!ExecutorSafety
==============================================================================

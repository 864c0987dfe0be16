---------------------------- MODULE TcpConnection ----------------------------
(***************************************************************************)
(* The life of TcpConnections: the main loop accepts them and keeps them in *)
(* connections_ (TcpServer.cpp), an I/O loop establishes them, runs their   *)
(* coroutines, times them out and destroys them (TcpConnection.cpp,         *)
(* AsyncRead.cpp, AsyncWrite.cpp). The coroutine is the one of the server   *)
(* programs: read, answer, read again, close.                               *)
(*                                                                          *)
(* The two loops hand each other tasks with queueInLoop, which is the       *)
(* promise of EventLoop: a task is run once, in order, or is dropped when   *)
(* the queue is full. The kernel completes requests; what it and the        *)
(* program may do beyond the usual is listed in Faults:                     *)
(*   "write_error"  a write fails                                           *)
(*   "sq_full"      io_uring_get_sqe finds no entry                         *)
(*   "late_timer"   a link timeout expires when its read is already         *)
(*                  completing: it reports neither -ETIME nor -ECANCELED    *)
(*                  and the read completes on its own                       *)
(*   "shutdown"     the coroutine half-closes with shutdown() and reads on  *)
(***************************************************************************)
EXTENDS Integers, Sequences, FiniteSets, SequencesExt

CONSTANTS
    Conns,        \* the connections ever accepted
    BufferCount,  \* registeredBuffersCount of the I/O loop
    Capacity,     \* pendingQueueCapacity of both loops
    Timed,        \* readTimeout_ is positive
    Faults        \* see above

ASSUME ConstantsAssumption ==
    /\ IsFiniteSet(Conns)
    /\ BufferCount \in Nat \ {0} /\ Capacity \in Nat \ {0}
    /\ Timed \in BOOLEAN
    /\ Faults \subseteq {"write_error", "sq_full", "late_timer", "shutdown"}

VARIABLES
    connections,  \* connections_ of the server
    state,        \* state_ ("none": not accepted yet)
    invoked,      \* closeCallbackInvoked_
    sock,         \* the descriptor of socket_
    coro,         \* where the coroutine of a connection is
    idx,          \* readContext_.idx
    free,         \* freeBufferIndices_ of the I/O loop
    rd, tm, wr,   \* the requests of readContext_, timeoutContext_, writeContext_
    cq,           \* completion queue of the I/O loop
    peer,         \* what the peer does
    mainQ,        \* pendingFunctors_ of the main loop: connections to remove
    ioQ,          \* pendingFunctors_ of the I/O loop
    batch,        \* functors of doPendingFunctors of the I/O loop
    phase         \* where the I/O loop is in loop()

lifeVars   == <<state, invoked, sock>>
bufferVars == <<idx, free>>
ringVars   == <<rd, tm, wr>>
taskVars   == <<mainQ, ioQ>>
vars == <<connections, lifeVars, coro, bufferVars, ringVars, cq, peer, taskVars,
          batch, phase>>

Buffers == 0 .. BufferCount - 1
NoBuffer == -1

\* Between resume() and the next suspension the coroutine has the loop thread:
\* "got" data to consume, about to "read", "send", "half" close or "close".
Running   == {"got", "read", "send", "half", "close"}
Suspended == {"reading", "writing"}
Tasks     == {"established", "close", "destroyed"} \X Conns

\* The completions of the three requests, with what can become of each.
Completions ==
    {"read"} \X Conns \X {"data", "end", "canceled"}
    \cup {"timeout"} \X Conns \X {"canceled", "time", "late"}
    \cup {"write"} \X Conns \X {"ok", "error"}

TypeOK ==
    /\ connections \subseteq Conns
    /\ state \in [Conns -> {"none", "connecting", "connected", "disconnecting",
                            "disconnected"}]
    /\ invoked \in [Conns -> BOOLEAN]
    /\ sock \in [Conns -> {"open", "closed"}]
    /\ coro \in [Conns -> {"none", "done"} \cup Running \cup Suspended]
    /\ idx \in [Conns -> Buffers \cup {NoBuffer}]
    /\ free \in Seq(Buffers)
    /\ rd \in [Conns -> {"none", "prepared", "submitted"}]
    /\ tm \in [Conns -> {"none", "prepared", "submitted"}]
    /\ wr \in [Conns -> {"none", "prepared", "submitted"}]
    /\ cq \in Seq(Completions)
    /\ peer \in [Conns -> {"alive", "closed", "gone"}]
    /\ mainQ \in Seq(Conns)
    /\ ioQ \in Seq(Tasks)
    /\ batch \in Seq(Tasks)
    /\ phase \in {"submit", "wait", "cqe", "run"}

Init ==
    /\ connections = {}
    /\ state = [c \in Conns |-> "none"]
    /\ invoked = [c \in Conns |-> FALSE]
    /\ sock = [c \in Conns |-> "open"]
    /\ coro = [c \in Conns |-> "none"]
    /\ idx = [c \in Conns |-> NoBuffer]
    /\ free = [i \in 1 .. BufferCount |-> i - 1]
    /\ rd = [c \in Conns |-> "none"]
    /\ tm = [c \in Conns |-> "none"]
    /\ wr = [c \in Conns |-> "none"]
    /\ cq = <<>>
    /\ peer = [c \in Conns |-> "alive"]
    /\ mainQ = <<>> /\ ioQ = <<>> /\ batch = <<>>
    /\ phase = "submit"

\* queueInLoop: a full queue drops the task.
Queued(q, task) == IF Len(q) < Capacity THEN Append(q, task) ELSE q

\* The shared_ptrs to a connection: the list of the server, the functors that
\* are bound to it and the frame of its coroutine.
Alive(c) ==
    \/ c \in connections
    \/ c \in Range(mainQ)
    \/ \E task \in Range(ioQ) \cup Range(batch) : task[2] = c
    \/ coro[c] \in Running \cup Suspended

\* The I/O loop runs its own code only when no coroutine has its thread.
LoopThreadFree == \A c \in Conns : coro[c] \notin Running

-----------------------------------------------------------------------------
(* The main loop                                                            *)

NewConnection(c) ==
    /\ state[c] = "none"
    /\ state' = [state EXCEPT ![c] = "connecting"]
    /\ connections' = connections \cup {c}
    /\ ioQ' = Queued(ioQ, <<"established", c>>)
    /\ UNCHANGED <<invoked, sock, coro, bufferVars, ringVars, cq, peer, mainQ, batch,
                   phase>>

RemoveConnectionKeepsEntry ==    \* a slip: the entry stays in connections_
    /\ mainQ # <<>>
    /\ mainQ' = Tail(mainQ)
    /\ ioQ' = Queued(ioQ, <<"destroyed", Head(mainQ)>>)
    /\ UNCHANGED <<connections, lifeVars, coro, bufferVars, ringVars, cq, peer, batch,
                   phase>>

\* The functor removeConnection hands to the main loop.
RemoveConnection ==
    /\ mainQ # <<>>
    /\ mainQ' = Tail(mainQ)
    /\ connections' = connections \ {Head(mainQ)}
    /\ ioQ' = Queued(ioQ, <<"destroyed", Head(mainQ)>>)
    /\ UNCHANGED <<lifeVars, coro, bufferVars, ringVars, cq, peer, batch, phase>>

-----------------------------------------------------------------------------
(* The coroutine                                                            *)

\* submitReadRequest asks for an entry, then for a buffer. A behaviour is followed up
\* to a read that finds no buffer: the code goes on with an entry that still holds
\* what an earlier lap of the ring left in it, links the timeout to that and so
\* repeats some earlier request. With a buffer for every connection, as in the runs,
\* no read does.
SubmitRead(c) ==
    \/ /\ state[c] # "connected" \/ "sq_full" \in Faults
       /\ UNCHANGED <<bufferVars, ringVars>>
    \/ /\ state[c] = "connected" /\ free # <<>>
       /\ idx' = [idx EXCEPT ![c] = Last(free)]
       /\ free' = Front(free)
       /\ rd' = [rd EXCEPT ![c] = "prepared"]
       /\ \/ Timed /\ tm' = [tm EXCEPT ![c] = "prepared"]
          \/ (~Timed \/ "sq_full" \in Faults) /\ UNCHANGED tm
       /\ UNCHANGED wr

AsyncRead(c) ==
    /\ coro[c] = "read"
    /\ coro' = [coro EXCEPT ![c] = "reading"]
    /\ SubmitRead(c)
    /\ UNCHANGED <<connections, lifeVars, cq, peer, taskVars, batch, phase>>

SubmitWrite(c) ==
    \/ /\ state[c] \in {"connected", "disconnecting"}
       /\ wr' = [wr EXCEPT ![c] = "prepared"]
    \/ /\ state[c] \notin {"connected", "disconnecting"} \/ "sq_full" \in Faults
       /\ UNCHANGED wr

\* await_suspend of a write in normal mode.
AsyncSend(c) ==
    /\ coro[c] = "send"
    /\ coro' = [coro EXCEPT ![c] = "writing"]
    /\ SubmitWrite(c)
    /\ UNCHANGED <<connections, lifeVars, bufferVars, rd, tm, cq, peer, taskVars, batch,
                   phase>>

ReleaseBufferKeepsIndex(c) ==    \* a slip: readContext_.idx is not reset
    /\ free' = IF idx[c] # NoBuffer THEN Append(free, idx[c]) ELSE free
    /\ UNCHANGED idx

\* releaseCurReadBuffer: a registered buffer goes back to the loop.
ReleaseBuffer(c) ==
    /\ free' = IF idx[c] # NoBuffer THEN Append(free, idx[c]) ELSE free
    /\ idx' = [idx EXCEPT ![c] = NoBuffer]

\* The data is copied, the buffer given back, and the request is complete or not.
Consume(c) ==
    /\ coro[c] = "got"
    /\ ReleaseBuffer(c)
    /\ \E next \in {"read", "send"} : coro' = [coro EXCEPT ![c] = next]
    /\ UNCHANGED <<connections, lifeVars, ringVars, cq, peer, taskVars, batch, phase>>

ForceCloseAgain(c) ==    \* a slip: forceClose does not compare, it stores
    /\ state' = [state EXCEPT ![c] = "disconnecting"]
    /\ ioQ' = Queued(ioQ, <<"close", c>>)

\* forceClose: the compare-and-swap lets one caller queue handleClose.
ForceClose(c) ==
    IF state[c] = "connected"
    THEN /\ state' = [state EXCEPT ![c] = "disconnecting"]
         /\ ioQ' = Queued(ioQ, <<"close", c>>)
    ELSE UNCHANGED <<state, ioQ>>

CloseNothing(c) ==    \* a slip: the loop is left without forceClose
    /\ coro[c] = "close"
    /\ coro' = [coro EXCEPT ![c] = "done"]
    /\ UNCHANGED <<connections, lifeVars, bufferVars, ringVars, cq, peer, taskVars, batch,
                   phase>>

\* The coroutine ends with forceClose; its frame and its reference are gone.
Close(c) ==
    /\ coro[c] = "close"
    /\ coro' = [coro EXCEPT ![c] = "done"]
    /\ ForceClose(c)
    /\ UNCHANGED <<connections, invoked, sock, bufferVars, ringVars, cq, peer, mainQ,
                   batch, phase>>

Shutdown(c) ==
    /\ coro[c] = "half"
    /\ coro' = [coro EXCEPT ![c] = "read"]
    /\ state' = [state EXCEPT ![c] = IF @ = "connected" THEN "disconnecting" ELSE @]
    /\ UNCHANGED <<connections, invoked, sock, bufferVars, ringVars, cq, peer, taskVars,
                   batch, phase>>

-----------------------------------------------------------------------------
(* The I/O loop                                                             *)

Submitted(requests) ==
    [c \in Conns |-> IF requests[c] = "prepared" THEN "submitted" ELSE requests[c]]

Submit ==
    /\ phase = "submit"
    /\ phase' = "wait"
    /\ rd' = Submitted(rd) /\ tm' = Submitted(tm) /\ wr' = Submitted(wr)
    /\ UNCHANGED <<connections, lifeVars, coro, bufferVars, cq, peer, taskVars, batch>>

\* A completion of a connection, or the wakeup that a queued task announces.
Wait ==
    /\ phase = "wait"
    /\ cq # <<>> \/ ioQ # <<>>
    /\ phase' = "cqe"
    /\ UNCHANGED <<connections, lifeVars, coro, bufferVars, ringVars, cq, peer, taskVars,
                   batch>>

\* The completion of request kind of c, with result res, is next.
Handles(kind, c, res) ==
    /\ phase = "cqe" /\ LoopThreadFree
    /\ cq # <<>> /\ Head(cq) = <<kind, c, res>>
    /\ cq' = Tail(cq)

\* await_resume gives the buffer of a failed read back and the coroutine leaves
\* its loop.
ReadFailed(c, res) ==
    /\ Handles("read", c, res)
    /\ res # "data"
    /\ ReleaseBuffer(c)
    /\ coro' = [coro EXCEPT ![c] = "close"]
    /\ UNCHANGED <<connections, lifeVars, ringVars, peer, taskVars, batch, phase>>

ReadDone(c) ==
    /\ Handles("read", c, "data")
    /\ coro' = [coro EXCEPT ![c] = "got"]
    /\ UNCHANGED <<connections, lifeVars, bufferVars, ringVars, peer, taskVars, batch,
                   phase>>

\* After an answer: the next request is already there, or is to be read, or the
\* client asked to close; or the program half-closes.
WriteDone(c) ==
    /\ Handles("write", c, "ok")
    /\ \E next \in {"send", "read", "close"} \cup
                   {s \in {"half"} : "shutdown" \in Faults} :
           coro' = [coro EXCEPT ![c] = next]
    /\ UNCHANGED <<connections, lifeVars, bufferVars, ringVars, peer, taskVars, batch,
                   phase>>

\* The coroutines of the repository return without closing the connection.
WriteFailed(c) ==
    /\ Handles("write", c, "error")
    /\ coro' = [coro EXCEPT ![c] = "done"]
    /\ UNCHANGED <<connections, lifeVars, bufferVars, ringVars, peer, taskVars, batch,
                   phase>>

\* The handler of timeoutContext_.
Timeout(c, res) ==
    /\ Handles("timeout", c, res)
    /\ IF res = "canceled" THEN UNCHANGED <<state, ioQ>> ELSE ForceClose(c)
    /\ UNCHANGED <<connections, invoked, sock, coro, bufferVars, ringVars, peer, mainQ,
                   batch, phase>>

BeginTasksEarly ==    \* a slip: one completion is handled per iteration
    /\ phase = "cqe" /\ LoopThreadFree
    /\ batch' = ioQ /\ ioQ' = <<>>
    /\ phase' = "run"
    /\ UNCHANGED <<connections, lifeVars, coro, bufferVars, ringVars, cq, peer, mainQ>>

BeginTasks ==
    /\ phase = "cqe" /\ LoopThreadFree
    /\ cq = <<>>
    /\ batch' = ioQ /\ ioQ' = <<>>
    /\ phase' = "run"
    /\ UNCHANGED <<connections, lifeVars, coro, bufferVars, ringVars, cq, peer, mainQ>>

Runs(task, c) ==
    /\ phase = "run" /\ LoopThreadFree
    /\ batch # <<>> /\ Head(batch) = <<task, c>>
    /\ batch' = Tail(batch)

\* The connection callback starts the coroutine, which reads.
ConnectEstablished(c) ==
    /\ Runs("established", c)
    /\ state' = [state EXCEPT ![c] = "connected"]
    /\ coro' = [coro EXCEPT ![c] = "read"]
    /\ UNCHANGED <<connections, invoked, sock, bufferVars, ringVars, cq, peer, taskVars,
                   phase>>

\* The close callback is removeConnection, run at most once.
HandleClose(c) ==
    /\ Runs("close", c)
    /\ IF state[c] = "disconnected" THEN UNCHANGED <<state, invoked, mainQ>>
       ELSE /\ state' = [state EXCEPT ![c] = "disconnecting"]
            /\ invoked' = [invoked EXCEPT ![c] = TRUE]
            /\ mainQ' = IF invoked[c] THEN mainQ ELSE Queued(mainQ, c)
    /\ UNCHANGED <<connections, sock, coro, bufferVars, ringVars, cq, peer, ioQ, phase>>

ConnectDestroyed(c) ==
    /\ Runs("destroyed", c)
    /\ state' = [state EXCEPT ![c] = IF @ \in {"connected", "disconnecting"}
                                     THEN "disconnected" ELSE @]
    /\ invoked' = [invoked EXCEPT ![c] = TRUE]
    /\ sock' = [sock EXCEPT ![c] = "closed"]
    /\ UNCHANGED <<connections, coro, bufferVars, ringVars, cq, peer, taskVars, phase>>

EndTasks ==
    /\ phase = "run" /\ LoopThreadFree
    /\ batch = <<>>
    /\ phase' = "submit"
    /\ UNCHANGED <<connections, lifeVars, coro, bufferVars, ringVars, cq, peer, taskVars,
                   batch>>

-----------------------------------------------------------------------------
(* The kernel and the peer                                                  *)

\* "closed": everything the peer sent has been read and it has closed;
\* "gone": it will neither send nor close.
PeerLeaves(c) ==
    /\ state[c] # "none" /\ peer[c] = "alive"
    /\ \E p \in {"closed", "gone"} : peer' = [peer EXCEPT ![c] = p]
    /\ UNCHANGED <<connections, lifeVars, coro, bufferVars, ringVars, cq, taskVars, batch,
                   phase>>

\* Two completions that are posted together, in either order.
Post(one, other) == cq' = cq \o <<one, other>> \/ cq' = cq \o <<other, one>>

\* A completed read cancels the timeout that is linked to it.
ReadCompletes(c) ==
    /\ rd[c] = "submitted"
    /\ rd' = [rd EXCEPT ![c] = "none"]
    /\ tm' = [tm EXCEPT ![c] = "none"]
    /\ \E res \in {"data", "end"} :
          /\ res = "data" => peer[c] = "alive"
          /\ res = "end"  => peer[c] = "closed"
          /\ IF tm[c] = "submitted"
             THEN Post(<<"read", c, res>>, <<"timeout", c, "canceled">>)
             ELSE cq' = Append(cq, <<"read", c, res>>)
    /\ UNCHANGED <<connections, lifeVars, coro, bufferVars, wr, peer, taskVars, batch,
                   phase>>

\* An expired timeout cancels the read it is linked to.
TimerExpires(c) ==
    /\ tm[c] = "submitted" /\ rd[c] = "submitted"
    /\ tm' = [tm EXCEPT ![c] = "none"]
    /\ rd' = [rd EXCEPT ![c] = "none"]
    /\ Post(<<"timeout", c, "time">>, <<"read", c, "canceled">>)
    /\ UNCHANGED <<connections, lifeVars, coro, bufferVars, wr, peer, taskVars, batch,
                   phase>>

TimerExpiresLate(c) ==
    /\ "late_timer" \in Faults
    /\ tm[c] = "submitted" /\ rd[c] = "submitted" /\ peer[c] # "gone"
    /\ tm' = [tm EXCEPT ![c] = "none"]
    /\ cq' = Append(cq, <<"timeout", c, "late">>)
    /\ UNCHANGED <<connections, lifeVars, coro, bufferVars, rd, wr, peer, taskVars, batch,
                   phase>>

WriteCompletes(c) ==
    /\ wr[c] = "submitted"
    /\ wr' = [wr EXCEPT ![c] = "none"]
    /\ \E res \in {"ok"} \cup {r \in {"error"} : "write_error" \in Faults} :
          cq' = Append(cq, <<"write", c, res>>)
    /\ UNCHANGED <<connections, lifeVars, coro, bufferVars, rd, tm, peer, taskVars, batch,
                   phase>>

-----------------------------------------------------------------------------
Coroutine(c) ==
    AsyncRead(c) \/ AsyncSend(c) \/ Consume(c) \/ Close(c) \/ Shutdown(c)

Completion(c) ==
    \/ ReadDone(c) \/ \E res \in {"end", "canceled"} : ReadFailed(c, res)
    \/ WriteDone(c) \/ WriteFailed(c)
    \/ \E res \in {"canceled", "time", "late"} : Timeout(c, res)

Functor(c) == ConnectEstablished(c) \/ HandleClose(c) \/ ConnectDestroyed(c)

IoLoop ==
    \/ Submit \/ Wait \/ BeginTasks \/ EndTasks
    \/ \E c \in Conns : Coroutine(c) \/ Completion(c) \/ Functor(c)

Kernel(c) == ReadCompletes(c) \/ TimerExpires(c) \/ TimerExpiresLate(c) \/ WriteCompletes(c)

Next ==
    \/ \E c \in Conns : NewConnection(c) \/ PeerLeaves(c) \/ Kernel(c)
    \/ RemoveConnection
    \/ IoLoop

Spec == Init /\ [][Next]_vars

\* Both loops keep running, the kernel completes what can complete, and timers
\* expire. A peer need not leave, a write always finds room in the end, and the
\* data read so far holds finitely many requests to answer.
AnswersLast(c) == WriteDone(c) /\ coro'[c] # "send"

Fairness ==
    /\ WF_vars(RemoveConnection) /\ WF_vars(IoLoop)
    /\ \A c \in Conns : /\ WF_vars(ReadCompletes(c)) /\ WF_vars(TimerExpires(c))
                        /\ WF_vars(WriteCompletes(c)) /\ SF_vars(AnswersLast(c))

FairSpec == Spec /\ Fairness

-----------------------------------------------------------------------------
(* What the connections promise                                             *)

Requests(c) == {r \in {rd[c], tm[c], wr[c]} : r # "none"}

\* A request in the ring and a completion not yet handled carry a pointer into
\* the connection: it is alive until the last of them has been handled.
ContextsOutliveRequests ==
    \A c \in Conns :
        Requests(c) # {} \/ (\E i \in 1 .. Len(cq) : cq[i][2] = c) => Alive(c)

\* A registered buffer is free or is held by one connection that still exists:
\* never returned twice, never shared, never lost with a connection.
Holders(b) == {c \in Conns : idx[c] = b}

BuffersAreConserved ==
    /\ \A c \in Conns : idx[c] # NoBuffer => Alive(c)
    /\ \A b \in Buffers :
           Cardinality({i \in 1 .. Len(free) : free[i] = b}) + Cardinality(Holders(b)) = 1

\* Whatever closes a connection, and however often, it is removed from the
\* server and destroyed at most once, and only one handleClose is queued.
Times(q, task) == Cardinality({i \in 1 .. Len(q) : q[i] = task})

ClosedOnce ==
    \A c \in Conns :
        /\ Times(ioQ, <<"close", c>>) + Times(batch, <<"close", c>>)
           + Times(mainQ, c) + Times(ioQ, <<"destroyed", c>>)
           + Times(batch, <<"destroyed", c>>) + (IF sock[c] = "closed" THEN 1 ELSE 0)
           <= 1

\* The types of the variables, and a single close (forceClose, handleClose,
\* removeConnection, connectDestroyed).
ConnectionInv == TypeOK /\ ClosedOnce

\* "The state should be checked before a request is submitted, to avoid errors from
\* invalid requests after a complete disconnection" (TcpConnection.hpp): whatever the
\* loop is about to submit, the descriptor it names has not been closed. The state is
\* checked when the request is prepared; tasks that are run before the submission can
\* close the descriptor.
SubmitsOnOpenSocket ==
    phase = "submit" =>
        \A c \in Conns : "prepared" \in {rd[c], wr[c]} => sock[c] = "open"

\* A connection whose peer has closed or vanished is freed, whatever its coroutine
\* and its timer were doing.
DeadPeerIsReleased == \A c \in Conns : peer[c] # "alive" ~> ~Alive(c)

-----------------------------------------------------------------------------
\* How the server sees a connection.
StatusOf(c) ==
    IF state[c] = "none" THEN "none"
    ELSE IF ~Alive(c) THEN "freed"
    ELSE IF sock[c] = "closed" THEN "closed"
    ELSE IF c \in connections THEN "listed" ELSE "delisted"

Life == INSTANCE Session WITH status <- [c \in Conns |-> StatusOf(c)]

\* Accepted, delisted, closed and freed, in this order.
ImplementsSession == Life!SessionSpec
=============================================================================

------------------------------- MODULE Server -------------------------------
(***************************************************************************)
(* A server from start() to ~TcpServer: the pool starts its loop threads     *)
(* one after the other, the Acceptor keeps one accept request in the ring   *)
(* of the main loop and drains the backlog when it completes, TcpServer      *)
(* deals the connections out to the loops, takes them back when they are     *)
(* closed and is destroyed after its main loop has returned                  *)
(* (src/TcpServer.cpp, Acceptor.cpp, Socket.cpp, EventLoopThread.cpp,        *)
(* EventLoopThreadPool.cpp).                                                 *)
(*                                                                          *)
(* A loop is reduced to the tasks posted to it; EventLoop.tla shows that     *)
(* they run in order. What a connection does while it lives is in            *)
(* TcpConnection.tla; here its peer leaves and it is closed. The queues are   *)
(* longer than the connections are many. MaxErrors bounds what goes wrong:  *)
(* accepts that fail, a ring without a free entry, a loop whose wait fails.  *)
(* A task posted to a loop that has died goes nowhere: the code writes to    *)
(* the destroyed loop.                                                      *)
(***************************************************************************)
EXTENDS Integers, Sequences

CONSTANTS
    MaxClients,  \* peers that may connect, once each, numbered as they arrive
    MaxThreads,  \* the pool has up to so many threads
    MaxErrors

ASSUME ThreadsAssumption == MaxThreads \in Nat /\ MaxClients \in Nat
ASSUME ErrorsAssumption == MaxErrors \in Nat 

Clients == 1 .. MaxClients
None == 0
Workers == 1 .. MaxThreads
Base == 0                     \* the main loop, baseLoop_

VARIABLES
    main,        \* the main thread: "starting", "looping", "closing" (in ~TcpServer),
                 \* "joining" (in the destructor of threadPool_), "quitting" (about to
                 \* call quit() of the loop it has found), "gone", "terminated"
    numThreads,  \* numThreads_, set by setThreadNum before start
    thread,      \* of each worker: "none", "constructing", "published", "looping",
                 \* "leaving" (loop() has returned), "exited" (and the loop is destroyed)
    loops,       \* loops_
    ready,       \* loops whose registered buffers are initialised
    quit,        \* loops whose quit_ is set
    told,        \* threads told to quit by the destructor of the pool
    died,        \* threads whose loop() returned by itself
    tasks,       \* pendingFunctors_ of each loop
    backlog,     \* clients the kernel has connected and nobody has accepted
    arrived,     \* how many clients have arrived
    listening,   \* listening_
    accept,      \* the accept request: "none", "prepared", "submitted", "done", "failed",
                 \* "canceled" (-ECANCELED), "draining" (handleRead is in its loop)
    accepted,    \* the client a completed accept returned
    address,     \* clientAddr_
    next,        \* next_
    dealt,       \* newConnection calls in order: client, its address as told, loop
    connections, \* connections_
    conn,        \* each client's TcpConnection: "none", "connecting", "connected",
                 \* "closing" (kDisconnecting), "closed", "destroyed"
    errors,
    starved      \* no accept request will be made any more

threadVars == <<numThreads, thread, loops, ready, quit, told, died>>
acceptVars == <<listening, accept, accepted, address>>
clientVars == <<backlog, arrived>>
dealVars   == <<next, dealt>>
faultVars  == <<errors, starved>>
vars == <<main, threadVars, tasks, clientVars, acceptVars, dealVars, connections, conn, faultVars>>

Task == {"establish", "close", "remove", "destroy"} \X Clients

TypeOK ==
    /\ main \in {"starting", "looping", "closing", "joining", "quitting",
                "gone", "terminated"}
    /\ numThreads \in 0 .. MaxThreads
    /\ thread \in [Workers -> {"none", "constructing", "published", "looping", "leaving",
                              "exited"}]
    /\ loops \in Seq(Workers) /\ ready \subseteq Workers
    /\ quit \subseteq Workers /\ told \in 0 .. MaxThreads /\ died \subseteq Workers
    /\ tasks \in [Workers \cup {Base} -> Seq(Task)]
    /\ backlog \in Seq(Clients) /\ arrived \in 0 .. MaxClients
    /\ listening \in BOOLEAN
    /\ accept \in {"none", "prepared", "submitted", "done", "failed", "canceled", "draining"}
    /\ accepted \in Clients \cup {None} /\ address \in Clients \cup {None}
    /\ next = 0 \/ next \in 1 .. Len(loops) - 1
    /\ dealt \in Seq([client : Clients, peer : Clients, loop : Workers \cup {Base}])
    /\ connections \subseteq Clients
    /\ conn \in [Clients -> {"none", "connecting", "connected", "closing", "closed", "destroyed"}]
    /\ errors \in 0 .. MaxErrors /\ starved \in BOOLEAN

Init ==
    /\ main = "starting"
    /\ numThreads \in 0 .. MaxThreads
    /\ thread = [w \in Workers |-> "none"]
    /\ loops = <<>> /\ ready = {}
    /\ quit = {} /\ told = 0 /\ died = {}
    /\ tasks = [l \in Workers \cup {Base} |-> <<>>]
    /\ backlog = <<>> /\ arrived = 0
    /\ listening = FALSE /\ accept = "none" /\ accepted = None /\ address = None
    /\ next = 0 /\ dealt = <<>>
    /\ connections = {} /\ conn = [c \in Clients |-> "none"]
    /\ errors = 0 /\ starved = FALSE

Posted(q, l, t) ==
    IF l \in Workers /\ thread[l] = "exited" THEN q ELSE [q EXCEPT ![l] = Append(@, t)]
Post(l, t) == tasks' = Posted(tasks, l, t)
LoopOf(c) == dealt[CHOOSE i \in 1 .. Len(dealt) : dealt[i].client = c].loop

(***************************************************************************)
(* TcpServer::start: the threads one by one, then the listening socket      *)
(***************************************************************************)
Starting(w) == main = "starting" /\ w = Len(loops) + 1 /\ w <= numThreads

CreateThread(w) ==
    /\ Starting(w) /\ thread[w] = "none"
    /\ thread' = [thread EXCEPT ![w] = "constructing"]
    /\ UNCHANGED <<main, numThreads, loops, ready, quit, told, died, tasks, clientVars, acceptVars, dealVars,
                   connections, conn, faultVars>>

\* threadFunc builds the loop, sets loop_ under the mutex, then enters loop(),
\* which clears quit_.
PublishLoop(w) ==
    /\ thread[w] = "constructing"
    /\ thread' = [thread EXCEPT ![w] = "published"]
    /\ UNCHANGED <<main, numThreads, loops, ready, quit, told, died, tasks, clientVars, acceptVars, dealVars,
                   connections, conn, faultVars>>

EnterLoop(w) ==
    /\ thread[w] = "published"
    /\ thread' = [thread EXCEPT ![w] = "looping"]
    /\ quit' = quit \ {w}
    /\ UNCHANGED <<main, numThreads, loops, ready, told, died, tasks, clientVars, acceptVars, dealVars,
                   connections, conn, faultVars>>

\* startLoop wakes up and initialises the buffers; the thread may be looping.
StartLoop(w) ==
    /\ Starting(w) /\ thread[w] \in {"published", "looping", "leaving"}
    /\ ready' = ready \cup {w}
    /\ loops' = Append(loops, w)
    /\ UNCHANGED <<main, numThreads, thread, quit, told, died, tasks, clientVars, acceptVars, dealVars,
                   connections, conn, faultVars>>

(***************************************************************************)
(* The Acceptor                                                             *)
(***************************************************************************)
\* asyncAccept: without a submission entry there is no request.
AsyncAccept(failed) ==
    \/ accept' = "prepared" /\ errors' = failed /\ UNCHANGED starved
    \/ failed < MaxErrors /\ accept' = "none" /\ errors' = failed + 1 /\ starved' = TRUE

\* Acceptor::listen, run at once because the main thread is its loop's thread;
\* then the main thread enters loop().
StartListening ==
    /\ main = "starting" /\ Len(loops) = numThreads
    /\ main' = "looping"
    /\ listening' = TRUE
    /\ AsyncAccept(errors)
    /\ UNCHANGED <<threadVars, tasks, clientVars, accepted, address, dealVars, connections,
                   conn>>

Submit ==
    /\ main = "looping" /\ accept = "prepared"
    /\ accept' = "submitted"
    /\ UNCHANGED <<main, threadVars, tasks, clientVars, listening, accepted, address, dealVars,
                   connections, conn, faultVars>>

\* The kernel: a client connects; the request takes the oldest one and fills in
\* its address, or fails.
Arrive ==
    /\ listening /\ arrived < MaxClients
    /\ arrived' = arrived + 1
    /\ backlog' = Append(backlog, arrived')
    /\ UNCHANGED <<main, threadVars, tasks, acceptVars, dealVars, connections, conn, faultVars>>

AcceptCompletes ==
    /\ accept = "submitted" /\ backlog # <<>>
    /\ accept' = "done"
    /\ accepted' = Head(backlog) /\ address' = Head(backlog)
    /\ backlog' = Tail(backlog)
    /\ UNCHANGED <<main, threadVars, tasks, arrived, listening, dealVars, connections, conn,
                   faultVars>>

AcceptFails ==
    /\ accept = "submitted" /\ errors < MaxErrors
    /\ accept' \in {"failed", "canceled"} /\ errors' = errors + 1
    /\ UNCHANGED <<main, threadVars, tasks, clientVars, listening, accepted, address, dealVars,
                   connections, conn, starved>>

\* getNextLoop
NextLoop == IF loops = <<>> THEN Base ELSE loops[next + 1]
Advance ==
    next' = IF loops = <<>> THEN next ELSE IF next + 1 >= Len(loops) THEN 0 ELSE next + 1

\* TcpServer::newConnection; a loop that is the caller's own runs the task at
\* once.
NewConnection(c, peer) ==
    /\ dealt' = Append(dealt, [client |-> c, peer |-> peer, loop |-> NextLoop])
    /\ Advance
    /\ connections' = connections \cup {c}
    /\ IF NextLoop = Base
       THEN conn' = [conn EXCEPT ![c] = "connected"] /\ UNCHANGED tasks
       ELSE conn' = [conn EXCEPT ![c] = "connecting"] /\ Post(NextLoop, <<"establish", c>>)

\* handleRead for a connection: it is handed over and the drain begins.
HandleAccepted ==
    /\ main = "looping" /\ accept = "done"
    /\ NewConnection(accepted, address)
    /\ accept' = "draining" /\ accepted' = None
    /\ UNCHANGED <<main, threadVars, clientVars, listening, address, faultVars>>

\* A slip: the address of the first connection is used again.
DrainOneOldAddress ==
    /\ main = "looping" /\ accept = "draining" /\ backlog # <<>>
    /\ NewConnection(Head(backlog), address)
    /\ backlog' = Tail(backlog)
    /\ UNCHANGED <<main, threadVars, arrived, listening, accept, accepted, address, faultVars>>

DrainOne ==
    /\ main = "looping" /\ accept = "draining" /\ backlog # <<>>
    /\ address' = Head(backlog)
    /\ NewConnection(Head(backlog), address')
    /\ backlog' = Tail(backlog)
    /\ UNCHANGED <<main, threadVars, arrived, listening, accept, accepted, faultVars>>

\* A slip: the next request is prepared only when accept4 has failed.
EndDrainForgets ==
    /\ main = "looping" /\ accept = "draining"
    /\ \/ backlog = <<>> /\ accept' = "none" /\ UNCHANGED faultVars
       \/ backlog # <<>> /\ errors < MaxErrors /\ AsyncAccept(errors + 1)
    /\ UNCHANGED <<main, threadVars, tasks, clientVars, listening, accepted, address, dealVars,
                   connections, conn>>

\* accept4 says EAGAIN or fails, and the next request is prepared.
EndDrain ==
    /\ main = "looping" /\ accept = "draining"
    /\ \/ backlog = <<>> /\ AsyncAccept(errors)
       \/ backlog # <<>> /\ errors < MaxErrors /\ AsyncAccept(errors + 1)
    /\ UNCHANGED <<main, threadVars, tasks, clientVars, listening, accepted, address, dealVars,
                   connections, conn>>

\* handleRead for an accept that failed; a canceled one is not made again.
HandleFailed ==
    /\ main = "looping"
    /\ \/ accept = "failed" /\ AsyncAccept(errors)
       \/ accept = "canceled" /\ accept' = "none" /\ starved' = TRUE /\ UNCHANGED errors
    /\ UNCHANGED <<main, threadVars, tasks, clientVars, listening, accepted, address, dealVars,
                   connections, conn>>

(***************************************************************************)
(* Tasks of the loops. A loop runs its own tasks, the main loop also those   *)
(* of the server.                                                           *)
(***************************************************************************)
Alive(l) == IF l = Base THEN main = "looping" /\ accept # "draining" ELSE thread[l] = "looping"

\* forceClose of a connection that is connected, by its coroutine when the peer
\* leaves.
RequestClose(c) ==
    conn' = [conn EXCEPT ![c] = "closing"] /\ Post(LoopOf(c), <<"close", c>>)

\* A slip: the entry is erased before the connection is closed.
PeerLeavesErased(c) ==
    /\ conn[c] = "connected" /\ Alive(LoopOf(c))
    /\ RequestClose(c)
    /\ connections' = connections \ {c}
    /\ UNCHANGED <<main, threadVars, clientVars, acceptVars, dealVars, faultVars>>

PeerLeaves(c) ==
    /\ conn[c] = "connected" /\ Alive(LoopOf(c))
    /\ RequestClose(c)
    /\ UNCHANGED <<main, threadVars, clientVars, acceptVars, dealVars, connections, faultVars>>

\* removeConnection's lambda: erased, then destroyed in the loop it belongs to.
Remove(c, rest) ==
    /\ connections' = connections \ {c}
    /\ tasks' = Posted(rest, LoopOf(c), <<"destroy", c>>)

RunTask(l) ==
    /\ Alive(l) /\ tasks[l] # <<>>
    /\ LET t == Head(tasks[l])
           c == t[2]
           rest == [tasks EXCEPT ![l] = Tail(@)]
       IN
       \/ /\ t[1] = "establish" /\ conn' = [conn EXCEPT ![c] = "connected"]
          /\ tasks' = rest /\ UNCHANGED connections
       \/ /\ t[1] = "close" /\ conn' = [conn EXCEPT ![c] = "closed"]
          /\ IF l = Base THEN Remove(c, rest)
             ELSE /\ tasks' = Posted(rest, Base, <<"remove", c>>)
                  /\ UNCHANGED connections
       \/ /\ t[1] = "remove" /\ Remove(c, rest) /\ UNCHANGED conn
       \/ /\ t[1] = "destroy" /\ conn' = [conn EXCEPT ![c] = "destroyed"]
          /\ tasks' = rest /\ UNCHANGED connections
    /\ UNCHANGED <<main, threadVars, clientVars, acceptVars, dealVars, faultVars>>

\* loop() returns, because of quit_ or because waiting for completions failed.
ExitLoop(w) ==
    /\ thread[w] = "looping"
    /\ \/ w \in quit /\ UNCHANGED <<died, errors>>
       \/ /\ errors < MaxErrors /\ errors' = errors + 1
          /\ died' = died \cup {w}
    /\ thread' = [thread EXCEPT ![w] = "leaving"]
    /\ UNCHANGED <<main, numThreads, loops, ready, quit, told, tasks, clientVars, acceptVars,
                   dealVars, connections, conn, starved>>

\* threadFunc clears loop_ and destroys the loop with what is left in its queue.
LeaveThread(w) ==
    /\ thread[w] = "leaving"
    /\ thread' = [thread EXCEPT ![w] = "exited"]
    /\ tasks' = [tasks EXCEPT ![w] = <<>>]
    /\ UNCHANGED <<main, numThreads, loops, ready, quit, told, died, clientVars, acceptVars,
                   dealVars, connections, conn, faultVars>>

(***************************************************************************)
(* The main loop has returned: ~TcpServer, then its members, threadPool_     *)
(* first. Nothing in the programs makes the loop return.                    *)
(***************************************************************************)
ReturnFromLoop ==
    /\ main = "looping" /\ accept # "draining"
    /\ main' = "closing"
    /\ UNCHANGED <<threadVars, tasks, clientVars, acceptVars, dealVars, connections, conn,
                   faultVars>>

ForceClose(c) ==
    /\ main = "closing" /\ c \in connections
    /\ connections' = connections \ {c}
    /\ IF conn[c] = "connected" THEN RequestClose(c) ELSE UNCHANGED <<conn, tasks>>
    /\ UNCHANGED <<main, threadVars, clientVars, acceptVars, dealVars, faultVars>>

DestroyPool ==
    /\ main = "closing" /\ connections = {}
    /\ main' = "joining"
    /\ UNCHANGED <<threadVars, tasks, clientVars, acceptVars, dealVars, connections, conn,
                   faultVars>>

\* ~EventLoopThread of one thread after the other: loop_ is read without the
\* mutex, then the loop is told to quit and the thread is joined. A thread that has
\* cleared loop_ by itself is not joined, and destroying its std::thread terminates
\* the program.
Joined == \A w \in 1 .. told : thread[w] = "exited"

FindLoop ==
    /\ main = "joining" /\ told < numThreads /\ Joined
    /\ main' = IF thread[told + 1] = "exited" THEN "terminated" ELSE "quitting"
    /\ UNCHANGED <<threadVars, tasks, clientVars, acceptVars, dealVars, connections, conn,
                   faultVars>>

\* A slip: the thread is joined without being told to quit.
QuitThreadSilent ==
    /\ main = "quitting"
    /\ told' = told + 1 /\ main' = "joining"
    /\ UNCHANGED <<numThreads, thread, loops, ready, quit, died, tasks, clientVars,
                   acceptVars, dealVars, connections, conn, faultVars>>

\* The thread may have destroyed its loop since: then quit() writes to what was its
\* stack and to a descriptor that is closed, which ends the program or does nothing.
QuitThread ==
    /\ main = "quitting"
    /\ LET w == told + 1 IN
       \/ /\ told' = w /\ main' = "joining"
          /\ quit' = IF thread[w] = "exited" THEN quit ELSE quit \cup {w}
       \/ /\ thread[w] = "exited"
          /\ main' = "terminated" /\ UNCHANGED <<quit, told>>
    /\ UNCHANGED <<numThreads, thread, loops, ready, died, tasks, clientVars, acceptVars,
                   dealVars, connections, conn, faultVars>>

DestroyServer ==
    /\ main = "joining" /\ told = numThreads /\ Joined
    /\ main' = "gone"
    /\ listening' = FALSE /\ accept' = "none"
    /\ backlog' = <<>>
    /\ UNCHANGED <<threadVars, tasks, arrived, accepted, address, dealVars, connections, conn,
                   faultVars>>

-----------------------------------------------------------------------------
StartPool(w) == CreateThread(w) \/ StartLoop(w)
ThreadFunc(w) == PublishLoop(w) \/ EnterLoop(w) \/ RunTask(w) \/ ExitLoop(w)
                 \/ LeaveThread(w)
MainLoop == Submit \/ HandleAccepted \/ DrainOne \/ EndDrain \/ HandleFailed \/ RunTask(Base)
Stop == DestroyPool \/ DestroyServer \/ FindLoop \/ QuitThread
        \/ (\E c \in Clients : ForceClose(c))

Next ==
    \/ \E w \in Workers : StartPool(w) \/ ThreadFunc(w)
    \/ StartListening
    \/ MainLoop
    \/ ReturnFromLoop
    \/ Stop
    \/ AcceptCompletes
    \/ AcceptFails
    \/ Arrive
    \/ \E c \in Clients : PeerLeaves(c)

Spec == Init /\ [][Next]_vars

\* Every thread keeps running and the kernel completes an accept when a client
\* waits. Nobody has to connect, to leave or to stop the server.
Fairness ==
    /\ \A w \in Workers : WF_vars(StartPool(w)) /\ WF_vars(ThreadFunc(w))
    /\ WF_vars(StartListening) /\ WF_vars(MainLoop) /\ WF_vars(Stop)
    /\ WF_vars(AcceptCompletes)
FairSpec == Spec /\ Fairness

(***************************************************************************)
(* Properties                                                               *)
(***************************************************************************)
\* Clients are served in the order they arrived, each once, each with its own
\* address (one clientAddr_ serves every accept); the loops take turns, and a loop
\* gets a connection only when it has its registered buffers, although they are
\* initialised by another thread while the loop already runs.
ConnectionsAreDealt ==
    \A i \in 1 .. Len(dealt) :
        /\ dealt[i] = [client |-> i, peer |-> i,
                      loop |-> IF numThreads = 0 THEN Base ELSE 1 + ((i - 1) % numThreads)]
        /\ dealt[i].loop \in ready \cup {Base}

\* The types of the variables, and connections dealt as they came
\* (Acceptor::handleRead, TcpServer::newConnection, getNextLoop, startLoop).
ServerInv == TypeOK /\ ConnectionsAreDealt

\* While the main loop runs, the registry holds a connection until it is closed;
\* when the server is gone, no loop thread is left to call back into it.
LifetimesAreNested ==
    /\ main = "looping" =>
          \A c \in Clients :
              conn[c] \in {"connecting", "connected", "closing"} => c \in connections
    /\ main = "gone" => \A w \in Workers : thread[w] \in {"none", "exited"}

\* A client that has arrived gets a connection, unless the server is stopped, the
\* ring had no entry for an accept, an accept was canceled or a loop has died.
ArrivedIsServed ==
    \A c \in Clients :
        arrived >= c ~> \/ conn[c] \notin {"none", "connecting"}
                        \/ main # "looping" \/ starved \/ died # {}

\* Destroying a server ends with every thread joined if they had all entered
\* their loops, which clear quit_ on entry, and none has left.
StopEnds ==
    main = "closing" /\ (\A w \in Workers : thread[w] # "published")
        ~> main = "gone" \/ died # {}
=============================================================================

# Formal models of uring_coroutine_proactor

`uring_coroutine_proactor` is a C++20 network library on Linux: one io_uring per
thread (`EventLoop`), a server that accepts on a main loop and spreads its
connections over worker loops (`TcpServer`, `EventLoopThreadPool`), coroutines
that `co_await` reads and writes (`AsyncRead`, `AsyncWrite`), and a lock-free
ring (`LockFreeQueue`) through which threads hand tasks to a loop. This directory
holds TLA+ models of that code, the TLC configurations that check them, and
machine-checked proofs (TLAPS) about them. Paths below are relative to `src/`.

## 1. The system

| Component | State it keeps | Operations | Talks to |
|---|---|---|---|
| `LockFreeQueue` (include/LockFreeQueue.hpp) | two positions, one sequence number and one value per slot | `enqueue`, `dequeue`, `size`, `empty` | used by `EventLoop` (tasks) and `Logger` (entries) |
| `EventLoop` (src/EventLoop.cpp) | pending queue, `inHighWaterMark_`, eventfd, ring, `quit_`, `callingPendingFunctors_`, free registered buffers | `loop`, `queueInLoop`, `runInLoop`, `quit`, completion dispatch, buffer pool | threads that queue, kernel, contexts of connections |
| `TcpConnection` (src/TcpConnection.cpp) | `state_`, `closeCallbackInvoked_`, three IoContexts, output buffer, current read buffer | establish, submit read/write, `forceClose`, `handleClose`, `connectDestroyed`, `shutdown`, timeout handler, backpressure | its loop, `TcpServer` |
| Awaitables (src/AsyncRead.cpp, src/AsyncWrite.cpp) | coroutine handle or handler in a context | suspend, resume | connection, kernel |
| `TcpServer` (src/TcpServer.cpp) | `connections_`, the pool | `newConnection`, `removeConnection`, start, destructor | main loop, worker loops |
| `Acceptor`, `Socket` (src/Acceptor.cpp, src/Socket.cpp) | listening descriptor, accept context | listen, accept, drain, re-arm | main loop, `TcpServer` |
| `EventLoopThread`, pool | thread, published loop | start, quit, join, round robin | `TcpServer` |
| Server coroutines (src/test.cpp, recommend/recommend_server.cpp) | unparsed bytes | read, parse, answer, close | awaitables |
| `Buffer` | vector, two indices | append, retrieve, make room | `TcpConnection`, codecs |
| `HttpCodec`, `RpcCodec` | none | decode, encode | `Buffer` |
| `AsyncSleep` | timeout context | suspend, resume | loop |
| `MemoryPool` | free list, current block | allocate, deallocate | awaitables' operator new |
| `Logger` | ring of entries, background thread, file | log, flush, rotate, shutdown | every component |
| recommend/ | LRU caches, ranking weights | get, put, rank | server coroutine |
| `Config`, clients, benchmarks | parsed text | load | main |

Where the difficulty is:

* **Concurrency.** Any thread calls `queueInLoop` and `quit`; the ring is
  multi-producer and multi-consumer; the main loop and a worker loop share a
  connection's life (accept, establish, remove, destroy) by queueing tasks to
  one another.
* **Wakeups.** A loop sleeps in `io_uring_wait_cqe`. Who writes the eventfd, and
  when, decides whether a queued task is ever run.
* **Lifetime.** Completions carry raw pointers into a connection. It must be alive
  when the last of them is handled, and the descriptor must not be closed under a
  request.
* **Failure.** A queue, the submission queue or the buffer pool may be full; reads
  and writes fail; an idle timer races with the data it waits for.
* **Order.** Close is decided by a timer, a coroutine or `shutdown`, and executed
  by two loops in three tasks.

What makes each part correct:

* the ring: a slot belongs to one thread at a time, an unread task is never
  overwritten, the queue is a bounded FIFO, `size()` makes sense, calls return;
* the loop: an accepted task runs once, in order and eventually; a sleeping loop
  with tasks in its queue has been, or is about to be, woken; `quit` stops it;
  the backpressure callback tells transitions;
* a connection: its contexts outlive its requests, registered buffers are
  conserved, it is closed once and in order, a dead peer's connection is released;
* the server: clients get connections in the order they came, in turn on loops that
  are ready for them; the registry holds what lives; destruction joins every thread;
* the logger: entries are written once and in order, files stay in order, what is
  queued is written;
* the service: a request is answered once, in order and with the best items,
  however the stream is cut; the clients account for every request of theirs;
* the structures: frames survive moving and growing buffers, a slot of the memory
  pool has one owner, an LRU cache keeps what its capacity promises, a loop gets
  options that fit one another.

`PROJECT.json` lists the hazards of the code one by one, each at its line, with
the properties that cover it, or why none does.

## 2. The modules

    TaskQueue        what the ring promises           Executor   what a loop promises
        ^ refined by                                      ^ refined by
    LockFreeQueue    every memory access              EventLoop  uses TaskQueue as its queue
        ^ proved about                                    ^ proved about
    LockFreeQueueProofs                               EventLoopProofs

    Session          the life of one connection       ByteStream   what a peer may receive
        ^ refined by                                      ^ refined by
    TcpConnection    main loop, I/O loop, coroutines, SendPath     output buffer, backpressure,
        ^            kernel, peers                        ^        blocked writer, half-close
        | proved about                                    | proved about
    TcpConnectionProofs                               SendPathProofs

    LogStream        what the logger promises         Server       threads, accept, registry
        ^ refined by                                      ^ proved about
    Logger           callers, worker, files           ServerProofs
        ^ proved about      checked as a part of Structures
    LoggerProofs

    RecencyCache     what an LRU cache promises       HttpSession  answers in order
        ^ refined by                                      ^ refined by
    LruCache  --+                                     RecommendService
    MemoryPool -+--> Structures, the parts                ^   uses Recommendation (uses
    Settings  --+    that share no state                  |   LruCache) and HttpRequest
    RpcChannel -+    (Logger too)                         | proved about
    (uses Buffer)        ^ proved about               RecommendServiceProofs
                     StructuresProofs

The modules are stacked by what they promise: `EventLoop` takes its queue from
`TaskQueue` (which `LockFreeQueue` is shown to implement), and `TcpConnection`
takes two task queues that behave as `Executor` says, with bounded room; `Server`
takes unbounded ones and many loops instead; `RecommendService` takes reads and
writes as the connection modules say. `MC*` modules only add symmetry sets and
values of constants for TLC.

### LockFreeQueue, TaskQueue

`LockFreeQueue` has one action per access to a shared variable:
`EnqueueReadSequence` (load of `slot.sequence` and the three-way decision),
`EnqueueClaim` / `EnqueueLoseClaim` (the compare-and-swap), `EnqueueReload`,
`EnqueueWrite`, `EnqueuePublish`, the same for `dequeue`, and the two loads of
`size()` (`LoadSize`). A thread's local position is `pos`, its place in the code
`pc`. Sequence numbers and positions are unbounded integers (64-bit in the code:
2^64 enqueues do not happen). `MaxCalls` bounds the calls of a thread; `MaxPosition`
bounds how many positions may be claimed when a call of `enqueue` begins, calls that
are open may claim more. `data` has an `Empty`
value for a slot that was moved from. Memory is sequentially consistent: the
acquire/release pairs of the code order exactly the accesses the model orders
(value before sequence number), weaker reorderings are not explored.

`TaskQueue` is a bounded FIFO in which an insertion has two visible moments: the
claim of a place and its publication. A take can only take a published head. A
refusal or an empty answer is allowed only when justified.

### EventLoop, Executor

One action per step of `queueInLoop` (two loads of `size()`, claim, publish, water
marks, store, callback, eventfd), of `quit` (store, eventfd) and of `loop()` (start,
check, submit, wait, which may fail while nothing is completed, one completion, begin of the pass, take, keep, run). Contexts
are `unset`, `prepared` (in the submission queue), `submitted`, `completed`, or
`lost` (no entry was free: nothing ever asks for the operation again). I/O handlers and tasks do nothing, queue a task, ask for
the next operation or quit: what they compute does not matter to the loop.

`Executor` has a sequence of accepted tasks that only grows at its end
(`ExecutorSafety`) and, unless the loop is stopped, a run of every one of them
(`ExecutorFairness`). The refinement maps it to `ran \o functors \o in hand \o queue`.
`ImplementsExecutorSafety` holds whatever requests are lost; what must happen in the
end (`AcceptedTasksRun`, `QuitStopsLoop`) holds as long as the read of the wakeup
descriptor is not one of them (`WakeupNeverLost`): nothing re-arms a read that is
lost, and the loop can then no longer be woken.

### TcpConnection, Session

`TcpConnection` is the main loop (`NewConnection`, `RemoveConnection`), one I/O
loop (`Submit`, `Wait`, completions, `BeginTasks`, the three functors, `EndTasks`),
the coroutine of `test.cpp` (`AsyncRead`, `Consume`, `AsyncSend`, `Close`,
`Shutdown`), the kernel (`ReadCompletes`, `TimerExpires`, `TimerExpiresLate`,
`WriteCompletes`) and the peer. `Alive(c)` is the set of `shared_ptr`s to the
connection: the server's list, queued functors, the coroutine frame. A coroutine
that has been resumed keeps the loop thread until it suspends (`LoopThreadFree`).
`Faults` names what may go wrong: a failed write, no submission entry, a late
timer, a half-close. A behaviour is followed up to a read that finds no registered
buffer: the code goes on with an entry that still holds what an earlier request left
in it (TcpConnection.cpp:113). With a buffer for every connection none does.

`Session` is what a connection's life should be: accepted, delisted, closed, freed.
`StatusOf` maps the state of a connection to it; one that loses its last reference
before it was taken off the list or closed is freed at once.

### SendPath, ByteStream

`SendPath` is the part of a connection `TcpConnection` abstracts: what one sending
coroutine, the output buffer and the kernel do to a stream of bytes. Bytes are
numbers: `said` counts those appended, `head` those retrieved, so
`outputBuffer_` holds `head + 1 .. said`. `AsyncSend` is `asyncSend` with
`checkOutputBufferBackpressure` and `await_suspend`; `Blocks` is the condition of
AsyncWrite.cpp:15; a blocked sender is woken by the handler (`BlockedResumes`) or
writes on (`BlockedContinues`), any other one by `WriteCompletion`. `Resume` is
`await_resume`, `maybeShutdownWrite` included. `AsyncSendSpecial` is a write from
a registered buffer or a file, `Shutdown` and `Destroy` come from the rest of the
loop thread. A write takes any number of its bytes (`Writes`) or fails
(`WriteFails`). The strategy is chosen before the first send; `Faults` names what
an instance admits. The zero-copy send, whose submission is empty in the code, is
left out.

`ByteStream` lets the peer hear a longer and longer prefix of what was said, and
the end of the stream only after all of it.

### Server

`Server` is a server from `start()` to its destruction: `CreateThread`,
`PublishLoop`, `EnterLoop`, `StartLoop` for each thread of the pool (the buffers of a
loop are initialised by the main thread while the loop may already run);
`StartListening`, the accept request in the ring (`Submit`, `AcceptCompletes`,
`AcceptFails`), `HandleAccepted` and the drain loop of `handleRead` (`DrainOne`,
`EndDrain`), in which one `clientAddr_` serves every accept; `NewConnection` with
`getNextLoop`; the tasks establish, close, remove and destroy on the loops they
belong to, run inline when the caller is the loop's thread (a pool of no threads);
then `ReturnFromLoop`, `ForceClose` of what is registered, the destructor of each
thread in turn and its join, `DestroyServer`. A loop returns when it was told to quit
or its wait fails (`ExitLoop`); its thread then clears `loop_` and destroys the loop
(`LeaveThread`). The destructor reads `loop_` without the mutex (`FindLoop`) and calls
`quit()` in a step of its own (`QuitThread`), on a loop that may be destroyed by then:
that ends the program or does nothing; a thread whose `loop_` is cleared is not joined,
which terminates the program. An accept that was canceled is not made again
(`HandleFailed`). A connection is reduced to its states.

### Logger, LogStream

A caller stamps an entry, claims a slot of the ring and publishes it (`Stamp`,
`Claim`, `Publish`, or `QueueFull`); the worker alternates passes of at most `MaxBatch`
entries with sleeps, makes one more pass after `running_` is cleared and leaves
(`Wake`, `ProcessOne`, `EndPass`); a line goes through the cache of the time text and
`rotateIfNeeded`, which renames the file after the current second and may replace
another archive. Opening and renaming may fail. The main thread calls `init`,
`shutdown` and `init` again, as the server programs do. `LogStream` is a queue whose
entries are written once and in order, or given up together. `Logger` is checked as one
part of `Structures`; its names there are `LoggerInit`, `LoggerNext` and so on.

### RecommendService, Recommendation, HttpRequest, HttpSession

`RecommendService` is the coroutine of `recommend_server.cpp` on every connection
(`Read`, `ReadEnd`, `Serve`, `Handle`, `HandleDone`, `Sent`, `SendFails`), the kernel
that cancels a read when its timeout expires (`ReadTimesOut`; what arrives between this
and the `forceClose` of `ReadEnd` is lost, as in the code), the program
`recommend_client.cpp` (health check, threads with one connection per request, their
statistics and the merge under the mutex) and another client that pipelines. Bytes
are tokens (`HttpRequest`): a request line, header fields with the spelling the parser
looks for, the fields of a body; a read may return any part of what has arrived.
Between two `co_await`s a coroutine runs alone, so clients take steps only while
none runs: nothing it does in between is visible to them. `Recommendation` is the
handler: validation, the vector of the user, the vectors of all candidates, scores,
sort and truncation, each lookup through an LRU cache. `BestFor` is the reference
definition of the answer, without a cache. `HttpSession` says that answers follow
the requests one by one, fit them, and stop behind a request that closes.

### Structures: Buffer, RpcChannel, MemoryPool, LruCache, Settings, Logger

`Structures` puts side by side the parts that share nothing; its initial state says
which one moves. `Buffer` has the vector and both indices; `RpcChannel` sends frames
through two of them in pieces. `MemoryPool` has a step per access to the free list,
both mutexes and the block that is cut. `LruCache` keeps the pointers of the list and
the map; `RecencyCache` is the list of recency it stands for. `Settings` follows the
options from the lines of a file (`loadFromString`, `getSizeT`) to `normalizeOptions`.

## 3. The runs

| Run | Instance | What it shows |
|---|---|---|
| `queue` | 2 producers x 2 tasks, 2 consumers, 2 slots, fair | exclusive slots, no phantom task, `size()` never wraps, FIFO refinement, every call returns |
| `loop` | 1 caller x 2 tasks and the loop x 1, queue of 2 with marks 1 and 0, submission queue of 2 entries for 3 contexts (eventfd, acceptor, connection), waits that fail, fair | no lost wakeup, the eventfd is lost only to a full submission queue, tasks run once and in order whatever is lost; every accepted task is run or the loop is stopped and `quit` stops it, unless the eventfd was lost |
| `loop_two_callers` | 1 caller x 3 tasks and the loop x 1, queue of 3 with marks 2 and 1 | **violated** (`CallbackTellsTransitions`): the callback is told something else than transitions |
| `connection` | 2 connections, 2 buffers, task queues of 1, which overflow, all faults | lifetime, buffers, single close, `Session` refinement |
| `connection_live` | 2 connections, 2 buffers, no faults, fair | dead peers are released |
| `connection_write_error` | 1 connection, failed writes, fair | **violated** (`DeadPeerIsReleased`): the connection is never released |
| `connection_late_timer` | 1 connection, timers that expire late | **violated** (`SubmitsOnOpenSocket`): an answer is submitted for a closed descriptor |
| `send` | the four strategies, messages of 1 to 4 bytes up to 9 bytes, marks 3 and 1, partial and special writes, half-close, teardown, fair | byte stream refinement, no FIN under a write, bounded buffer, the sender is resumed |
| `server` | 0 to 2 loop threads, 3 clients, 2 errors, fair | clients dealt in turn with their own addresses to loops with buffers, registry and threads outlive what uses them, arrived clients are served, destruction ends |
| `logger_shutdown` | 2 callers, 4 entries, queue of 3, passes of 2, fair | **violated** (`QueuedIsWritten`): the last pass leaves an entry unwritten |
| `service` | 1 client thread, 1 pipelining client with 2 of 6 requests, 3 items, caches of 1 and 2, timeouts, failed connects and writes, fair | `HttpSession` refinement with the best items, framing, statistics, nobody waits for ever |
| `structures` | 3 keys and caches of 0 to 2; 3 messages, vectors of 6 bytes that grow; 2 threads, 2 blocks of 2 slots; files of 3 lines out of 14; 2 callers, 4 entries, log queue of 3, passes of 2, log files of 2 lines, 2 inits, 2 seconds | `RecencyCache` and `LogStream` refinements, frames, exclusive slots, options, log files in order and full |

Why the bounds are enough. Two slots with two tasks per producer fill, drain and
lap the ring, with a producer and a consumer of the previous lap still inside; a
third slot adds no new overlap of laps. `MaxPosition` stops new calls, not those that
are open. In `loop` a caller and the loop on a queue of two reach the refused call, the
announcement consumed by an earlier pass and the call between drain and wait; with two
entries for three contexts any request can be the one that is lost, the eventfd's when
the completions of both others are handled before its own. The third task, which the
loop queues, can find the queue below the low mark again. `NoLostWakeup` and the
refinement are proved for more callers. Two connections compete for buffers, queue
places and the same batch of completions; each connection on its own goes through every
order of timer, completion and close. In `send` a message may be longer than the
high water mark, a blocked write may need several rounds, partial writes leave
every remainder, and several sends follow one another. In `server` the third client
comes to the first loop again, or to the drain loop, and with two errors the ring can
be full after a failed accept. In `structures` and `logger_shutdown` the log queue can
hold one entry more than a pass writes; in the former two passes fill and rotate a file
on both sides of a restart. In `service` a pipelined request is of every kind the routes tell apart; an item cache
smaller than the candidates makes every scan evict. Runs that have no more work stop
(nobody has to call the loop, no client is left to come), so those cfgs do not check
deadlock; `queue` does.

Fairness. `queue`: each thread keeps taking its steps while a call is open
(weak fairness): the scheduler runs it; the compare-and-swap may still lose
as often as others win, which is finitely often because their calls are bounded.
`loop`: threads inside a call and the loop keep running, and the kernel
completes a read of a signalled eventfd; other I/O may never complete, and no signal
has to interrupt the wait.
`connection_live`: both loops run, the kernel completes what can complete, expires
timers, and a write finds room in the end; a peer never has to leave. One strong
fairness says that the data read so far holds finitely many requests, so the
coroutine goes back to reading. `send`: the loop handles completions and a write
finds room or fails; whether the sender sends again is its own affair. `server`:
every thread runs and the kernel completes an accept when a client waits; nobody has
to come, to leave or to stop the server. `logger_shutdown`: the worker and a caller inside a
call run, and a joined worker lets `shutdown` return; nobody has to log. `service`: the
loop goes on while a coroutine can, and so does the client program; nobody owes a
timeout or a pipelined request.

Every property of a passing run has a mutant: a slip in one mapped definition
(defined next to it and commented "a slip") under which TLC finds that property
violated.

## 4. What is proved

For all values of the constants, under the assumptions named in the modules. An
invariant of a run is seldom inductive: the proof module strengthens it, and the
strengthening (`...Inv` below) is what each step is shown to keep.

* `LockFreeQueueProofs`: `TypeCorrect`; and, with more than one slot,
  `SlotsAreExclusive`, `SizeIsSafe`, `TasksAreIntact` (both
  `ClaimableSlotIsFree` and `TakenTaskIsReal`) and `RingImplementsTaskQueue`, the
  refinement of `TaskQueue`. `RingInv` states the sequence number every slot may
  carry: the slot of a position `n` in use carries `n` or `n + 1`; the slot of a
  position still to be claimed carries `n`, or `n - Size + 1` while a consumer of
  the previous lap is inside. With at most `Size` positions between the two
  counters (`WindowInv`), the lemmas on `%` show that no two of these meet in one
  slot. `AdderInv` and `TakerInv` say who owns a slot, `ClaimInv` that a stale
  position is never ahead. `DataInv` says what the slots hold and `SizeInv`
  that the head loaded by `size()` is not beyond the tail it loads next. The
  refinement needs two facts more: a slot whose number says "unfinished" has an owner
  inside its call (`OwnerInv`), which is what justifies a refusal; and the abstract
  place of a task is the position its owner claimed (`ItemInv`).
* `EventLoopProofs`: `TypeCorrect`; `WakeupsAreNotLost`, that `NoLostWakeup`
  is invariant when a pass of `doPendingFunctors` can take a full queue
  (`DrainLimit >= Capacity`) and the loop thread queues nothing before `loop()`;
  `EventfdStaysArmed`, that `WakeupArmed` is invariant for any finite number of
  contexts: the read of the eventfd is lost only in a submission queue with fewer
  entries; `LoopImplementsExecutor`, that every step is a step of `Executor`, under no
  condition on the constants. `WakeInv` strengthens the first:
  `PlaceInv` ties `callingPendingFunctors_` and the loop's local vector to its place in
  the code; `AnnounceInv` follows the announcement of a task left in the queue through
  the whole iteration. `RingInv` counts the prepared requests against the entries of
  the submission queue.
* `TcpConnectionProofs`, for any number of connections, buffers and queue entries,
  with or without a read timeout, under every fault and as long as every read finds a
  buffer (with fewer buffers than connections a behaviour may end there):
  `ClosedOnceTheorem`
  (`ConnectionInv`), `ContextsOutlive`, `BuffersConserve` and
  `ConnectionsImplementSession`. One invariant, `IInv`, carries them all. It counts the
  occurrences of every functor in the queues and of every completion (`Times`): closing
  a connection is the business of one functor at a time (`FunctorInv`), the list and
  the descriptor agree with `closeCallbackInvoked_` (`LifeInv`), a request or its
  completion is what a suspended coroutine waits for (`RequestInv`), a linked timeout
  belongs to the read it is linked to (`TimeoutInv`, `LateInv`), each buffer is counted
  once (`BufferCountInv`).
* `SendPathProofs`: `TypeCorrect`; `SendPathImplementsByteStream`, the refinement of
  `ByteStream`, under every fault; and, when no write fails on an open connection
  (`"write_error" \notin Faults`), `BlockBoundsTheBuffer` (`OutputIsBounded`) and
  `HalfCloseCutsNothing` (`FinCutsNothing`), for any water marks and message lengths.
  `LevelInv` says in which states of the sender the buffer is below the high and above
  the low water mark; `ErrorInv` that a write can then fail only after the write side
  was closed, which cannot happen to a sender that is blocked, so an error is never
  mistaken for progress. `StreamInv` ties the request in flight to the bytes at the
  head of the buffer; `PendingInv` ties the counter of special writes to the one
  that is in flight.
* `ServerProofs`, for any number of loop threads and clients and any errors:
  `ClientsAreDealt` (`ServerInv`) and `LifetimesNest` (`LifetimesAreNested`).
  `ArrivalInv` places every client that has arrived: dealt, in the accept request that
  is done, or in the backlog, in this order; `TurnInv` ties the turn of the loops to the
  number dealt; `TaskInv` says that a connection has at most one task in all queues
  together, and that its kind tells the state the connection waits in.
* `LoggerProofs`, for any number of callers, entries and seconds and any batch and
  file size: `LogIsReadable` (`LoggerInv`), `LoggerImplementsLogStream` and
  `LinesLeaveWithAnArchive`: a line leaves the disk only with an archive that a second
  rotation in the same second replaces, in no other way. Entries are numbered in the order they
  were accepted; `QueueInv`, `WrittenInv` and `DiskInv` say that these numbers grow from
  the archives over the file to the queue.
* `StructuresProofs`: `PoolSlotsAreExclusive` (`SlotsAreExclusive`) for any number of
  threads and blocks. The free list is cleared without its mutex, so a thread in the
  middle of a pop or a push brings slots back that the list had lost; `PoolInv`
  therefore speaks of all slots that were given back, listed or lost: they link to each
  other only, no two to the same one, and none to the head or to a slot that is being
  popped. `LoopOptionsAreSound` (`OptionsAreSound`) for any file: `SettingsInv` says
  that section and `values_` are what the lines read so far leave. `FramesDoArrive`
  (`FramesArrive`) for any messages, buffer sizes and cuts of the stream: `ChannelInv`
  has the contents of the two buffers together equal to the frames of the messages not
  yet received, one behind the other. Lemmas say what each operation of `Buffer`
  does to its contents, whatever the buffer has to move or grow (`RoomIsMade`,
  `DataIsAppended`, `DataIsRetrieved`), and what the library's `FlattenSeq` does when an
  element comes at either end (`FlattenAppend`, `FlattenFirst`).
  `RecencyCacheIsImplemented`, the refinement of `RecencyCache`, for any keys, values
  and capacity, 0 as well: `CacheInv` has the pointers in both directions link the nodes
  of an order, each once, from one sentinel to the other (`Links`), and the map hold just
  these. `NodeRemoved`, `NodeInserted` and `NodeErased` say what each operation of the
  list does to its order, `WalkIsOrder` that the walk along the pointers finds it.

* `RecommendServiceProofs`, for any number of client threads, of their requests and of
  items, any capacity of the caches, any requests of the pipelining client and under
  every fault: `StreamsKeepTheirFraming` (`ServiceInv`), `ServiceIsAnHttpServer` (the
  refinement of `HttpSession`) and `SummaryAddsUp` (`CountsAddUp`). `ParseIs` says
  what `parse` finds in a buffer that begins as the tokens of a well-formed request do:
  nothing while a token is missing, and that request, to its last token, from then on,
  whatever stands behind it. `FramingInv` has buffer and wire together equal to the
  tokens of the unanswered requests, one behind the other, in every state of the
  coroutine that still reads (`Framed`), and ties the request that is handled or sent
  to the oldest of these (`Busy`, `Handling`, `Sending`); a coroutine that waits has
  looked in vain (`Idle`). `JobInv` carries the ranking: vectors that are cached are
  those of their keys (`FetchIsCoherent`, through every recency move and eviction), so
  what the truncated sort yields is best (`SortedIsBest`). `CountInv` is about the
  clients: a thread has counted as many requests as it has had connections, its present
  one excepted, and no more successes than there are answers with items among them
  (`ThreadInv`); what is to be received on a connection was answered on it
  (`ReplyInv`); a merge adds up disjoint sets of connections (`TotalInv`). The
  assumptions say that the clients are distinct and that a request has a line of a
  method and a path, or garbage, and numeric fields (`ClientsAssumption`,
  `RequestsAssumption`).

`FlattenSeq` and the walk along the pointers are recursive functions, so the lemmas about
them need induction. `Induction` states it for a set of numbers instead of a predicate,
and derives it from the well-foundedness of `<` on `Nat`: no operator has to be
instantiated.

What the hypotheses leave out is not an accident of the proofs: section 5 shows a
behaviour of the code behind each of them (one slot, a queue longer than a drain, a
failed write, a read without a buffer). `Settings` assumes a default capacity of at
least 3 (65536 in the code), so that its marks differ.

Every invariant, action property and refinement that a passing run checks is stated
by a theorem. Only model-checked: liveness (`EveryCallReturns`, `AcceptedTasksRun`,
`QuitStopsLoop`, `DeadPeerIsReleased`, `SenderIsResumed`, `ArrivedIsServed`,
`StopEnds`, `NobodyWaitsForEver`) and what the violated runs refute.
`ClaimableSlotIsFree` is proved and checked by no run.

## 5. What the code does not promise

Four runs are violated; `PROJECT.json` lists them as findings with the comment each
contradicts.

* `connection_write_error`: on a failed write the coroutine returns without
  `forceClose` (test.cpp:201, recommend_server.cpp:376). No read and so no timer is
  left: the read timeout, which "removes dead connections" (TcpServer.cpp:64), never
  sees this one.
* `loop_two_callers`: the callback is called "on the way from normal to high and from
  high to normal" (EventLoop.hpp:41). `inHighWaterMark_` is loaded, stored and told of
  in separate steps: the main loop and the loop thread, which both queue, announce the
  same crossing, or the last to call is not the last to store.
* `connection_late_timer`: "the state should be checked before a request is submitted"
  (TcpConnection.hpp:78). It is checked when the request is prepared. The timer closes
  a connection whose read then succeeds, and the answer, prepared on the open
  descriptor, is submitted after `connectDestroyed` closed it.
* `logger_shutdown`: `shutdown` "waits until every pending entry is processed"
  (Logger.cpp:36, also :116 and :119). The last pass ends after 1000 entries.

Met while modelling besides, and reproducible with other constants of the same
modules:

* `QuitStopsLoop` fails with `"quit" \in EarlyCalls`: a `quit` between the
  publication of the loop (EventLoopThread.cpp:51) and `quit_ = false`
  (EventLoop.cpp:122) is overwritten.
* With one slot the ring is broken: the sequence numbers "readable" (`pos + 1`) and
  "free in the next lap" (`pos + size`) coincide, and a second `enqueue` overwrites an
  unread task. The theorems ask for more than one slot. `normalizeOptions` allows
  a capacity of one.
* A read that finds no registered buffer submits an entry that was not prepared
  (TcpConnection.cpp:113): the ring runs whatever an earlier request left in it, linked
  to the timeout of this connection. The model stops there.
* `kDiscard` and `kCloseConnection` do not keep data out of the output buffer:
  `asyncSend` appends what the check has refused.
* `OutputIsBounded` fails with `"write_error" \in Faults`: a blocked write that
  sent something and then fails (`-EAGAIN` is such a failure) reports the bytes
  sent (AsyncWrite.cpp:43), and the sender goes on with a full buffer. A file sent
  on a full buffer is counted down without having been counted up (AsyncWrite.cpp:15
  and 99), and the buffer is written in its place.
* `SenderIsResumed` fails with `"sq_full" \in Faults`: no request is made for a
  coroutine that has been suspended.
* `AcceptedTasksRun` fails with `DrainLimit < Capacity` (a pending queue above
  65536): what one pass leaves is not announced again. It also fails with
  `"task" \in EarlyCalls`: a task queued on the loop thread before `loop()` writes
  no eventfd and waits for some other completion.
* The recovery callback is called only from `queueInLoop`. A caller that stops
  queueing when told to is never told to resume.
* `WakeupNeverLost` fails when the submission queue can be full (`SqSize` smaller than
  the number of contexts), as in the run `loop`: the loop can then no longer be woken,
  and neither accepted tasks nor `quit` reach it.
* `DeadPeerIsReleased` fails with `"shutdown" \in Faults`: in `kDisconnecting` the
  next `asyncRead` suspends the coroutine without a request, and `forceClose` no
  longer does anything.

* The server. `loop()` clears `quit_` on entry, so a destructor that tells a thread to
  quit before that waits for ever (`StopEnds` asks that no thread is there). The
  destructor of a thread reads `loop_` without the mutex and may call `quit()` on a loop
  destroyed since; `StopEnds` excuses threads that left by themselves. A loop
  whose wait fails stays in `loops_`: later connections are dealt to a destroyed loop,
  and destroying its thread object, which nobody joined, terminates the program.
  Without a submission entry in `asyncAccept`, or after a canceled accept, nothing is
  accepted any more (`starved`). `~TcpServer` leaves out connections that are still connecting. The
  name of a connection is cut at 32 characters (TcpServer.cpp), which can make two
  names one; the model names connections by their client.
* The logger. A second rotation in one second replaces the first archive, although
  "all history files are kept" (Logger.cpp:232): no property forbids it, and the
  theorem `LinesLeaveWithAnArchive` says that lines leave the disk in no other way.
  `maxFiles` is not implemented (Logger.hpp:83), so archives are never removed and the
  disk has no bound, where README.md:97 of the repository claims one. Without `async`
  nothing is ever written. Threads that log during `shutdown` use a destroyed instance;
  the model asks the caller to have stopped them. The last `shutdown` in `main` is never
  reached.
* The service. A request that arrives after the kernel has canceled the read of its
  connection, and before the coroutine closes it, is lost (`RequestsAreAnswered` excuses
  connections that timed out). Caches are shared by all loops without a lock; the model has one loop.
  `generateTraceId` shares a generator the same way. A capitalised header field in
  a later pipelined request hides one in lower case in the first (`find` looks
  through everything received), so clients that mix spellings are mis-framed; each
  client of the model keeps to one. A malformed request line waits until the
  timeout. A failed write leaves the connection open. Errors are answered with
  status 200, a count above 100 with an empty list. The client reads its answer
  with one `recv` and may miss what it looks for; a failed connect counts as
  failed and not in the total. A scan of all candidates through a smaller item cache
  never hits, and a node that was evicted keeps its neighbours alive
  (`shared_ptr` both ways).
* The memory pool. `allocateNewBlock` clears the free list without its mutex, so
  returned slots can be lost, and a thread that has just found the list not empty
  can follow a null pointer (`Pop`). The very first allocation returns null, because
  two null pointers compare as a block that has room. No slot gets two owners
  (`SlotsAreExclusive`).
* The configuration. No file sets the water marks, so those of the default capacity
  are kept for larger ones and replaced for smaller ones; a capacity of one has both
  marks at zero. Lines in front of one that is refused stay in force, but `main` gives
  up.
* `RpcCodec::encode` does not look at the length: a payload above the limit is refused
  by `decode` for ever.

## 6. Not modelled, and the plan

The connection model has two different loops (`thread_num >= 1`); with none,
`runInLoop` runs the functors inline, which only `Server` models. It leaves out
`forceClose` from foreign threads, reads into user buffers, the zero-copy send (its
submission is empty in the code), what follows a read that finds no buffer, which needs
the contents of reused submission entries, and the loop's other contexts. `SendPath` has one sender per connection, as the server programs do; two
coroutines that send on one connection would share its one write context.

Not modelled, and why:

* `AsyncSleep`: one timeout request and one resumption, used by no program of the
  repository. `TimerQueue.cpp` and `.hpp` are empty.
* `HttpCodec`: its framing is that of `HttpRequest::parse`, which is modelled; no
  program calls it.
* `reset` and `readAllAsString` of `Buffer`, which drop everything; the choice of a pool
  by size (`HashBucket`) and a failing `malloc`.
* Socket options, address text, descriptor numbers (so that `~Acceptor` closes its
  descriptor twice is not in the model).
* The RPC and echo variants of the server coroutine, `main`, signals, `test_client` and
  `echo_bench`: straight-line programs around the coroutine that is modelled.
* Formatting of log lines and JSON, feature vectors and floating-point scores: scores
  enter as an order.
* Weak memory.

Out of reach of these tools: liveness and `ENABLED` in proofs.

------------------------------- MODULE Logger -------------------------------
(***************************************************************************)
(* The asynchronous logger (log/Logger.cpp, include/Logger.hpp) under the   *)
(* protocol of the server programs: the main thread calls init, shutdown    *)
(* and init again while nobody else logs, then every thread logs. The       *)
(* programs also call shutdown after their loop; here the callers are       *)
(* required to have stopped by then (see Shutdown).                         *)
(*                                                                          *)
(* An entry is [id, second]: ids number the accepted entries. The text, the *)
(* console and the entry's other fields are left out. Every line is one     *)
(* unit long, which is the unit of maxFileSize and of currentFileSize_. A    *)
(* rotated file is named after the second of the rotation. Bounds:           *)
(* MaxEntries entries, MaxInits calls of init, the clock stops at MaxSecond. *)
(***************************************************************************)
EXTENDS Integers, Sequences

CONSTANTS
    Threads,      \* callers of the LOG_ macros
    QueueSize,    \* capacity of queue_, 65536
    MaxBatch,     \* entries one pass writes, 1000
    MaxFileSize,  \* options_.maxFileSize
    MaxEntries, MaxInits, MaxSecond

ASSUME LogSizesAssumption ==
    /\ QueueSize \in Nat \ {0} /\ MaxBatch \in Nat \ {0} /\ MaxFileSize \in Nat \ {0}
    /\ MaxEntries \in Nat /\ MaxInits \in Nat /\ MaxSecond \in Nat \ {0}

VARIABLES
    main,       \* the main thread: "down" (instance_ is null), "up", "joining", "stopped"
    inits,      \* calls of init that built an instance
    running,    \* running_
    entry,      \* the entry each thread is about to enqueue, or one it has claimed a slot for
    step,       \* what each thread does: "idle", "stamped", "claimed"
    queue,      \* claimed slots of queue_, oldest first
    accepted,   \* entries accepted so far
    bg,         \* worker_: "none", "sleep" (about to look at running_), "pass", "last",
                \* "exited"
    count,      \* entries written in this pass
    open,       \* logFile_.is_open()
    live,       \* lines of the file called options_.logFile
    size,       \* currentFileSize_
    archives,   \* rotated files, by the second in their name
    times,      \* timeCache_: the second it was made for and the second its text shows
    clock,      \* now, in seconds
    written     \* lines written, in order

mainVars   == <<main, inits, running>>
callerVars == <<entry, step>>
diskVars   == <<open, live, size, archives>>
bgVars     == <<bg, count>>
loggerVars == <<mainVars, callerVars, queue, accepted, bgVars, diskVars, times, clock, written>>

Entry == [id : 0 .. MaxEntries, second : 0 .. MaxSecond]
Line  == [id : 1 .. MaxEntries, second : 0 .. MaxSecond, shown : 0 .. MaxSecond]

LoggerTypeOK ==
    /\ main \in {"down", "up", "joining", "stopped"}
    /\ inits \in 0 .. MaxInits /\ running \in BOOLEAN
    /\ entry \in [Threads -> Entry] /\ step \in [Threads -> {"idle", "stamped", "claimed"}]
    /\ queue \in Seq(Entry) /\ Len(queue) <= QueueSize
    /\ accepted \in 0 .. MaxEntries
    /\ bg \in {"none", "pass", "sleep", "last", "exited"} /\ count \in 0 .. MaxBatch
    /\ open \in BOOLEAN /\ live \in Seq(Line) /\ size \in Nat
    /\ archives \in [1 .. MaxSecond -> Seq(Line)]
    /\ times \in [lastSecond : 0 .. MaxSecond, shows : 0 .. MaxSecond]
    /\ clock \in 1 .. MaxSecond
    /\ written \in Seq(Line)

NoEntry == [id |-> 0, second |-> 0]

LoggerInit ==
    /\ main = "down" /\ inits = 0 /\ running = FALSE
    /\ entry = [t \in Threads |-> NoEntry] /\ step = [t \in Threads |-> "idle"]
    /\ queue = <<>> /\ accepted = 0
    /\ bg = "none" /\ count = 0
    /\ open = FALSE /\ live = <<>> /\ size = 0
    /\ archives = [s \in 1 .. MaxSecond |-> <<>>]
    /\ times = [lastSecond |-> 0, shows |-> 0]
    /\ clock = 1
    /\ written = <<>>

(***************************************************************************)
(* The main thread                                                          *)
(***************************************************************************)
\* init: nothing while an instance lives. The file is opened for appending,
\* which may fail; a worker is started only if async.
InitLogger ==
    /\ main = "down" /\ inits < MaxInits
    /\ main' = "up" /\ inits' = inits + 1
    /\ running' = TRUE
    /\ open' \in BOOLEAN
    /\ size' = IF open' THEN Len(live) ELSE 0
    /\ times' = [lastSecond |-> 0, shows |-> 0]
    /\ \E async \in BOOLEAN : bg' = IF async THEN "sleep" ELSE "none"
    /\ count' = 0
    /\ UNCHANGED <<entry, step, queue, accepted, live, archives, clock, written>>

\* shutdown, up to the join. That no other thread is inside log() is asked of
\* the caller: the code does not look.
Shutdown ==
    /\ main = "up" /\ \A t \in Threads : step[t] = "idle"
    /\ main' = "joining"
    /\ running' = FALSE
    /\ UNCHANGED <<inits, callerVars, queue, accepted, bgVars, diskVars, times, clock, written>>

\* The join returns, ~Logger flushes and closes the file, the queue goes with it.
Destroy ==
    /\ main = "joining" /\ bg \in {"none", "exited"}
    /\ main' = IF inits < MaxInits THEN "down" ELSE "stopped"
    /\ open' = FALSE
    /\ queue' = <<>>
    /\ bg' = "none"
    /\ UNCHANGED <<inits, running, callerVars, accepted, count, live, size, archives,
                   times, clock, written>>

(***************************************************************************)
(* LOG_INFO and the other macros, for entries that pass the level filter:   *)
(* the entry is stamped, and the ring takes it in two steps. A full ring     *)
(* drops it. Without an instance nothing happens.                            *)
(***************************************************************************)
Stamp(t) ==
    /\ main = "up" /\ step[t] = "idle"
    /\ step' = [step EXCEPT ![t] = "stamped"]
    /\ entry' = [entry EXCEPT ![t] = [id |-> 0, second |-> clock]]
    /\ UNCHANGED <<mainVars, queue, accepted, bgVars, diskVars, times, clock, written>>

Claim(t) ==
    /\ step[t] = "stamped" /\ Len(queue) < QueueSize /\ accepted < MaxEntries
    /\ accepted' = accepted + 1
    /\ entry' = [entry EXCEPT ![t].id = accepted + 1]
    /\ queue' = Append(queue, entry'[t])
    /\ step' = [step EXCEPT ![t] = "claimed"]
    /\ UNCHANGED <<mainVars, bgVars, diskVars, times, clock, written>>

Publish(t) ==
    /\ step[t] = "claimed"
    /\ step' = [step EXCEPT ![t] = "idle"]
    /\ entry' = [entry EXCEPT ![t] = NoEntry]
    /\ UNCHANGED <<mainVars, queue, accepted, bgVars, diskVars, times, clock, written>>

QueueFull(t) ==
    /\ step[t] = "stamped" /\ (Len(queue) = QueueSize \/ accepted = MaxEntries)
    /\ step' = [step EXCEPT ![t] = "idle"]
    /\ entry' = [entry EXCEPT ![t] = NoEntry]
    /\ UNCHANGED <<mainVars, queue, accepted, bgVars, diskVars, times, clock, written>>

(***************************************************************************)
(* The background thread                                                    *)
(***************************************************************************)
\* dequeue: the oldest entry, if its slot has been published.
CanDequeue ==
    queue # <<>> /\ \A t \in Threads : step[t] = "claimed" => entry[t].id # Head(queue).id

\* formatTimestamp: the text is made again when the second differs.
Refreshed(second) ==
    IF times.lastSecond # second THEN [lastSecond |-> second, shows |-> second] ELSE times

\* A slip: the file is copied, not renamed.
RotateCopies(lines) ==
    IF size + 1 < MaxFileSize
    THEN live' = lines /\ size' = size + 1 /\ UNCHANGED <<open, archives>>
    ELSE /\ live' = lines /\ archives' = [archives EXCEPT ![clock] = lines]
         /\ open' = TRUE /\ size' = 0

\* rotateIfNeeded, for a file that holds `lines`: the file is renamed after the
\* clock, replacing a file of that name, and opened again. rename may fail.
RotateIfNeeded(lines) ==
    IF size + 1 < MaxFileSize
    THEN /\ live' = lines /\ size' = size + 1
         /\ UNCHANGED <<open, archives>>
    ELSE /\ \/ live' = <<>> /\ archives' = [archives EXCEPT ![clock] = lines]
            \/ live' = lines /\ UNCHANGED archives
         /\ open' \in BOOLEAN
         /\ size' = 0

WriteEntry(e) ==
    /\ times' = Refreshed(e.second)
    /\ LET line == [id |-> e.id, second |-> e.second, shown |-> times'.shows]
       IN  /\ written' = Append(written, line)
           /\ IF open THEN RotateIfNeeded(Append(live, line)) ELSE UNCHANGED diskVars

\* A slip: the entry is read and stays in the queue.
ProcessOnePeeks ==
    /\ bg \in {"pass", "last"} /\ count < MaxBatch /\ CanDequeue
    /\ Len(written) < MaxEntries
    /\ WriteEntry(Head(queue))
    /\ count' = count + 1
    /\ UNCHANGED <<mainVars, callerVars, queue, accepted, bg, clock>>

ProcessOne ==
    /\ bg \in {"pass", "last"} /\ count < MaxBatch /\ CanDequeue
    /\ WriteEntry(Head(queue))
    /\ queue' = Tail(queue)
    /\ count' = count + 1
    /\ UNCHANGED <<mainVars, callerVars, accepted, bg, clock>>

\* The pass is over and the file flushed: sleep for flushInterval, or leave.
EndPass ==
    /\ bg \in {"pass", "last"} /\ (count = MaxBatch \/ ~CanDequeue)
    /\ bg' = IF bg = "pass" THEN "sleep" ELSE "exited"
    /\ count' = 0
    /\ UNCHANGED <<mainVars, callerVars, queue, accepted, diskVars, times, clock, written>>

Wake ==
    /\ bg = "sleep"
    /\ bg' = IF running THEN "pass" ELSE "last"
    /\ UNCHANGED <<mainVars, callerVars, queue, accepted, count, diskVars, times, clock, written>>

BackgroundThread == ProcessOne \/ EndPass \/ Wake

Tick ==
    /\ clock < MaxSecond
    /\ clock' = clock + 1
    /\ UNCHANGED <<mainVars, callerVars, queue, accepted, bgVars, diskVars, times, written>>

Log(t) == \/ Stamp(t)
          \/ Claim(t)
          \/ Publish(t)
          \/ QueueFull(t)

LoggerNext ==
    \/ InitLogger
    \/ Shutdown
    \/ Destroy
    \/ \E t \in Threads : Log(t)
    \/ BackgroundThread
    \/ Tick

LoggerSpec == LoggerInit /\ [][LoggerNext]_loggerVars

\* Every thread keeps running, and a joined worker lets shutdown return. Nobody
\* has to log or to call shutdown.
LoggerFairness ==
    /\ WF_loggerVars(BackgroundThread)
    /\ WF_loggerVars(Destroy)
    /\ \A t \in Threads : WF_loggerVars(Claim(t) \/ Publish(t) \/ QueueFull(t))
LoggerFairSpec == LoggerSpec /\ LoggerFairness

(***************************************************************************)
(* Properties                                                               *)
(***************************************************************************)
Ids(s) == [i \in 1 .. Len(s) |-> s[i].id]
Stored(s) == {s[i].id : i \in 1 .. Len(s)}

\* The logger is a log stream: what log() enqueues is written once and in the
\* order of the queue, whoever logs and however the passes are cut.
Stream == INSTANCE LogStream
            WITH Entries <- 1 .. MaxEntries, pending <- Ids(queue), out <- Ids(written)
ImplementsLogStream == Stream!LogSpec

\* The log can be read: every file is in order, a file named after an earlier
\* second holds earlier lines and no line is in two files; a line shows the second
\* of its own entry, although the text is kept from one line to the next and
\* entries of two threads come out of their time order; and a file is rotated
\* only when it has reached maxFileSize, also when it holds the lines of an
\* earlier instance.
Before(s, r) == \A n \in Stored(s), k \in Stored(r) : n < k
Ascending(s) == \A i, j \in 1 .. Len(s) : i < j => s[i].id < s[j].id

FilesAreReadable ==
    /\ \A s \in 1 .. MaxSecond : Ascending(archives[s])
    /\ Ascending(live)
    /\ \A s \in 1 .. MaxSecond :
          /\ Before(archives[s], live)
          /\ \A r \in 1 .. s - 1 : Before(archives[r], archives[s])
          /\ archives[s] = <<>> \/ Len(archives[s]) >= MaxFileSize
    /\ \A i \in 1 .. Len(written) : written[i].shown = written[i].second

\* The types of the variables, and a log that can be read (writeEntry and
\* rotateIfNeeded).
LoggerInv == LoggerTypeOK /\ FilesAreReadable

\* What Logger.cpp:36 and :116 say of shutdown, that the worker writes every
\* pending entry before it leaves: with a worker, an entry in the queue is written.
\* The last pass ends like any other, after MaxBatch entries (backgroundThread).
QueuedIsWritten ==
    \A n \in 1 .. MaxEntries :
        n \in Stored(queue) /\ bg # "none" ~> n \in Stored(written)
=============================================================================

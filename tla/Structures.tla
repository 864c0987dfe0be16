----------------------------- MODULE Structures -----------------------------
(***************************************************************************)
(* The parts of the system that do not share state with any other: the LRU   *)
(* cache called in any order, an RPC channel over two Buffers, a MemoryPool  *)
(* shared by threads, the way of the options from a file to a loop, and the   *)
(* logger with its callers and its worker. The initial state says which of    *)
(* them moves.                                                               *)
(***************************************************************************)
EXTENDS RpcChannel, MemoryPool, LruCache, Settings, Logger, SequencesExt

CONSTANTS Values, MaxCapacity

VARIABLES
    part,       \* "cache", "channel", "pool", "settings" or "logger"
    cache, capacity, reply

cacheVars == <<cache, capacity, reply>>
vars == <<part, cacheVars, channelVars, poolVars, settingsVars, loggerVars>>

Init ==
    /\ part \in {"cache", "channel", "pool", "settings", "logger"}
    /\ cache = NewCache /\ reply = <<>>
    /\ capacity \in IF part = "cache" THEN 0 .. MaxCapacity ELSE {0}
    /\ ChannelInit
    /\ PoolInit
    /\ SettingsInit
    /\ LoggerInit

-----------------------------------------------------------------------------
(* The cache by itself                                                      *)

CallGet(k) ==
    /\ reply' = IF k \in Cached(cache) THEN <<"found", k, cache.value[k]>>
                                       ELSE <<"missed", k>>
    /\ cache' = Get(cache, k)
    /\ UNCHANGED capacity

CallPut(k, v) ==
    /\ cache' = Put(cache, k, v, capacity)
    /\ reply' = <<"stored", k, v>>
    /\ UNCHANGED capacity

CallClear ==
    /\ cache' = Clear
    /\ reply' = <<"cleared">>
    /\ UNCHANGED capacity

CacheNext == CallClear \/ \E k \in Keys : CallGet(k) \/ \E v \in Values : CallPut(k, v)

-----------------------------------------------------------------------------

Next ==
    /\ UNCHANGED part
    /\ \/ /\ part = "cache" /\ CacheNext
          /\ UNCHANGED <<channelVars, poolVars, settingsVars, loggerVars>>
       \/ /\ part = "channel" /\ ChannelNext
          /\ UNCHANGED <<cacheVars, poolVars, settingsVars, loggerVars>>
       \/ /\ part = "pool" /\ PoolNext
          /\ UNCHANGED <<cacheVars, channelVars, settingsVars, loggerVars>>
       \/ /\ part = "settings" /\ SettingsNext
          /\ UNCHANGED <<cacheVars, channelVars, poolVars, loggerVars>>
       \/ /\ part = "logger" /\ LoggerNext
          /\ UNCHANGED <<cacheVars, channelVars, poolVars, settingsVars>>

Spec == Init /\ [][Next]_vars

-----------------------------------------------------------------------------
(* Properties                                                               *)

\* The cache finds what the last put stored under a key until capacity other
\* keys have been put or found since, whatever the order of the calls, at capacity 0 as well:
\* no call drops a key too early, keeps one too long or loses the order
\* (get, put and clear of LRUCache).
Recent == INSTANCE RecencyCache WITH
    entries  <- [i \in DOMAIN Order(cache) |-> <<Order(cache)[i],
                                                 cache.value[Order(cache)[i]]>>]

ImplementsRecencyCache == Recent!RecencySpec

\* However the bytes are cut into pieces and the buffers are moved and grown,
\* the messages arrive as they were sent, in order, and what is in the two
\* buffers is the frames of the rest; a channel that refuses a message stands in
\* front of one that is longer than kMaxMessageLength (decode, encode). The data
\* of a Buffer stays within the vector and behind the reserve (makeSpace,
\* ensureWritableBytes, retrieve).
FramesArrive ==
    LET n == Len(got) IN
    /\ n <= Len(sent) /\ got = SubSeq(sent, 1, n)
    /\ Content(in) \o Content(out)
          = FlattenSeq([i \in 1 .. Len(sent) - n |-> Frame(sent[n + i])])
    /\ refused => sent[n + 1].length > MaxMessageLength
    /\ InBounds(out) /\ InBounds(in)

\* The least set that has the head of the list and what its slots link to.
FreeSlots ==
    {s \in Slots : \A list \in SUBSET Slots :
        /\ freeList \in list \union {Null}
        /\ \A x \in list : link[x] \in list \union {Null}
        => s \in list}

\* No slot is in the hands of two threads, nor in those of one and on the free
\* list, although the list is looked at and cleared without its mutex
\* (allocate, deallocate, allocateNewBlock of MemoryPool).
SlotsAreExclusive ==
    /\ \A t, u \in PoolThreads : t # u => held[t] \cap held[u] = {}
    /\ \A t \in PoolThreads :
          /\ held[t] \cap FreeSlots = {}
          /\ \A s \in held[t] : s < cur

\* The section in force behind line n, the lines that assign the capacity, and
\* what the last of them says.
Headings(n) == {i \in 1 .. n : file[i][1] = "section"}

SectionAt(n) == IF Headings(n) = {} THEN <<>> ELSE file[Max(Headings(n))][2]

Assigning == {n \in DOMAIN file : file[n][1] = "set"
                                   /\ SectionAt(n) \o file[n][2] = CapacityKey}

LastAssigned == IF Assigning = {} THEN NotANumber ELSE file[Max(Assigning)][3]

\* Whatever the file says, the loop gets the capacity that the last line for its
\* key assigns, written out or within its section, if that is a number
\* (loadFromString, main).
CapacityIsLastAssigned ==
    loading = "done" =>
        options.capacity = CASE LastAssigned = NotANumber -> DefaultCapacity
                             [] LastAssigned = 0 -> 1024
                             [] OTHER -> LastAssigned

\* With that capacity and marks that no file sets, the low mark is below the high
\* one, and a queue of that capacity can reach the high one: the loop leaves the
\* state of high water again, and does not enter it at once (normalizeOptions). A
\* capacity of 1 is the exception.
MarksAreOrdered ==
    loading = "done" =>
        /\ options.high <= options.capacity
        /\ options.capacity > 1 => options.low < options.high

\* What a loop is configured with: the capacity of the file and marks that fit it.
OptionsAreSound == CapacityIsLastAssigned /\ MarksAreOrdered
=============================================================================

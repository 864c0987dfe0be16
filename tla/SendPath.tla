------------------------------ MODULE SendPath ------------------------------
(***************************************************************************)
(* The sending half of one TcpConnection: asyncSend with its backpressure   *)
(* strategies, AsyncWriteAwaitable with the blocked sender, writes that do   *)
(* not go through the output buffer, and the half-close that waits for what  *)
(* is still to be sent (TcpConnection.hpp, TcpConnection.cpp,                *)
(* AsyncWrite.cpp). One coroutine sends, as in the server programs.          *)
(*                                                                          *)
(* Bytes are numbered in the order they are appended: outputBuffer_ holds    *)
(* the bytes head + 1 .. said, a plain write the bytes after request.from.   *)
(* MaxSaid bounds what is ever appended. Faults lists what may happen beyond *)
(* plain sends that succeed, if only in part:                                *)
(*   "write_error"  a write fails, with -EAGAIN on a non-blocking descriptor *)
(*   "sq_full"      io_uring_get_sqe finds no entry                          *)
(*   "shutdown"     shutdown() is called on the loop thread                  *)
(*   "destroy"      the connection is closed and destroyed meanwhile         *)
(*   "regbuf"       asyncSendRegisteredBuffer is used                        *)
(*   "sendfile"     asyncSendfile is used                                    *)
(***************************************************************************)
EXTENDS Integers

CONSTANTS
    Strategies,  \* values of backpressureConfig_.strategy
    High,        \* outputBufferHighWaterMark
    Low,         \* outputBufferLowWaterMark
    MaxMessage,  \* the longest message
    MaxSaid,     \* bound on the bytes ever appended
    Faults       \* see above

ASSUME StrategyAssumption == Strategies \subseteq {"discard", "close", "block", "pass"}
ASSUME MarksAssumption == High \in Nat /\ Low \in Nat /\ Low < High
ASSUME LengthsAssumption == MaxMessage \in Nat \ {0} /\ MaxSaid \in Nat
ASSUME FaultsAssumption ==
    Faults \subseteq {"write_error", "sq_full", "shutdown", "destroy", "regbuf",
                      "sendfile"}

VARIABLES
    strategy,   \* backpressureConfig_.strategy, set before the first send
    state,      \* state_
    said,       \* bytes appended to outputBuffer_ so far
    head,       \* of them, those retrieved again
    coro,       \* the sender: "running", "waiting" (coro_handle is set),
                \* "blocked" (handler is set, isBlocked_), "done"
    awaits,     \* which awaitable it last awaited
    total,      \* totalWritten_
    progress,   \* of the request of writeContext_: "none", "submitted", "completed"
    request,    \* the bytes it points to
    result,     \* writeContext_.result_
    pending,    \* pendingSpecialWriteCount_
    ended,      \* the write side of the socket is shut down
    heard,      \* buffered bytes the peer has received
    intact      \* they are the first ones, in order

bufferVars == <<said, head>>
senderVars == <<coro, awaits, total>>
ringVars   == <<progress, request, result>>
peerVars   == <<heard, intact>>
vars == <<strategy, state, bufferVars, senderVars, ringVars, pending, ended, peerVars>>

Awaitables == {"plain", "regbuf", "sendfile"}

TypeOK ==
    /\ strategy \in Strategies
    /\ state \in {"connected", "disconnecting", "disconnected"}
    /\ said \in Nat /\ head \in 0 .. said
    /\ coro \in {"running", "waiting", "blocked", "done"}
    /\ awaits \in Awaitables
    /\ total \in Nat
    /\ progress \in {"none", "submitted", "completed"}
    /\ request \in [special : BOOLEAN, from : Nat, len : Nat]
    /\ result \in Int
    /\ pending \in Int
    /\ ended \in BOOLEAN
    /\ heard \in Nat /\ intact \in BOOLEAN

Init ==
    /\ strategy \in Strategies
    /\ state = "connected"
    /\ said = 0 /\ head = 0
    /\ coro = "running" /\ awaits = "plain" /\ total = 0
    /\ progress = "none" /\ result = 0
    /\ request = [special |-> FALSE, from |-> 0, len |-> 0]
    /\ pending = 0
    /\ ended = FALSE
    /\ heard = 0 /\ intact = TRUE

Readable == said - head

-----------------------------------------------------------------------------
(* Requests                                                                 *)

\* A request is made unless the connection is fully disconnected or no entry is
\* free; then the sender stays suspended without one.
Submit(r) ==
    \/ /\ state' # "disconnected"
       /\ progress' = "submitted" /\ request' = r
    \/ /\ state' = "disconnected" \/ "sq_full" \in Faults
       /\ progress' = "none" /\ UNCHANGED request

\* submitWriteRequest: all that is readable.
SubmitWrite == Submit([special |-> FALSE, from |-> head', len |-> said' - head'])

\* submitWriteRequestWithRegBuffer and submitSendfileRequest.
SubmitSpecial == Submit([special |-> TRUE, from |-> 0, len |-> 1])

-----------------------------------------------------------------------------
(* The sender                                                               *)

\* await_suspend: a sender that finds the buffer at the high water mark is blocked
\* and the buffer is written, whatever it wanted to write itself.
Blocks(kind) == kind # "regbuf" /\ strategy = "block" /\ said' - head >= High

Suspend(kind) ==
    /\ awaits' = kind
    /\ \/ /\ Blocks(kind)
          /\ coro' = "blocked" /\ total' = 0
          /\ UNCHANGED pending
          /\ SubmitWrite
       \/ /\ ~Blocks(kind)
          /\ coro' = "waiting" /\ UNCHANGED total
          /\ IF kind = "plain" THEN UNCHANGED pending /\ SubmitWrite
             ELSE pending' = pending + 1 /\ SubmitSpecial

\* checkOutputBufferBackpressure, then the append, whatever the strategy decided.
AsyncSend(len) ==
    /\ coro = "running"
    /\ said + len <= MaxSaid
    /\ said' = said + len
    /\ state' = IF /\ strategy = "close" /\ state = "connected"
                   /\ Readable + len >= High
                THEN "disconnecting" ELSE state
    /\ UNCHANGED <<head, result, ended, peerVars>>
    /\ Suspend("plain")

\* asyncSendRegisteredBuffer and asyncSendfile.
AsyncSendSpecial(kind) ==
    /\ kind \in Faults
    /\ coro = "running"
    /\ UNCHANGED <<state, bufferVars, result, ended, peerVars>>
    /\ Suspend(kind)

\* maybeShutdownWrite
MaybeShutdownWrite ==
    ended' = (ended \/ (state = "disconnecting" /\ said = head' /\ pending' <= 0))

RetrieveTwice(n) == head' = head + 2 * n    \* a slip: by two callers, unchecked

\* Buffer::retrieve
Retrieve(n) == head' = IF n <= Readable THEN head + n ELSE said

ResumeRetrievesAgain(n) ==    \* a slip: isBlocked_ is not looked at
    /\ progress' = "none"
    /\ pending' = IF awaits = "plain" THEN pending ELSE pending - 1
    /\ Retrieve(IF n > 0 THEN IF coro = "blocked" THEN result + n ELSE n ELSE 0)
    /\ MaybeShutdownWrite
    /\ coro' = IF n < 0 THEN "done" ELSE "running"
    /\ UNCHANGED request

\* await_resume, told that n bytes were written, after the handler of a blocked
\* write has retrieved its last part. A sender that is told of an error gives up.
Resume(n) ==
    /\ progress' = "none"
    /\ pending' = IF awaits = "plain" THEN pending ELSE pending - 1
    /\ Retrieve(IF (coro = "blocked" \/ awaits = "plain") /\ result > 0
                THEN result ELSE 0)
    /\ MaybeShutdownWrite
    /\ coro' = IF n < 0 THEN "done" ELSE "running"
    /\ UNCHANGED request

\* The completion of a write resumes the coroutine.
WriteCompletion ==
    /\ coro = "waiting" /\ progress = "completed"
    /\ Resume(result)
    /\ UNCHANGED <<state, said, awaits, total, result, peerVars>>

\* The handler of a blocked write: what was written is retrieved, and the rest is
\* written until the low water mark is reached or a write fails.
Written == IF result > 0 THEN total + result ELSE total

BlockedDoneAtOnce == TRUE    \* a slip: the first write resumes the sender

BlockedDone == result <= 0 \/ Readable - result <= Low

BlockedResumes ==
    /\ coro = "blocked" /\ progress = "completed"
    /\ BlockedDone
    /\ total' = Written
    /\ result' = IF result <= 0 /\ total' = 0 THEN result ELSE total'
    /\ Resume(result')
    /\ UNCHANGED <<state, said, awaits, peerVars>>

BlockedContinuesSilently ==    \* a slip: the rest is not written
    /\ coro = "blocked" /\ progress = "completed"
    /\ ~BlockedDone
    /\ Retrieve(result)
    /\ total' = Written
    /\ progress' = "none"
    /\ UNCHANGED <<state, said, coro, awaits, result, request, pending,
                   ended, peerVars>>

BlockedContinues ==
    /\ coro = "blocked" /\ progress = "completed"
    /\ ~BlockedDone
    /\ Retrieve(result)
    /\ total' = Written
    /\ UNCHANGED <<state, said, coro, awaits, result, pending, ended, peerVars>>
    /\ SubmitWrite

-----------------------------------------------------------------------------
(* The rest of the loop thread                                              *)

ShutdownAtOnce ==    \* a slip: special writes are forgotten
    /\ "shutdown" \in Faults
    /\ state = "connected"
    /\ state' = "disconnecting"
    /\ ended' = (Readable = 0)
    /\ UNCHANGED <<bufferVars, senderVars, ringVars, pending, peerVars>>

\* shutdown(): at once when nothing is buffered and no special write is pending,
\* otherwise by the completion of the last write.
Shutdown ==
    /\ "shutdown" \in Faults
    /\ state = "connected"
    /\ state' = "disconnecting"
    /\ ended' = (Readable = 0 /\ pending <= 0)
    /\ UNCHANGED <<bufferVars, senderVars, ringVars, pending, peerVars>>

\* handleClose and connectDestroyed
Destroy ==
    /\ "destroy" \in Faults
    /\ state # "disconnected"
    /\ state' = "disconnected"
    /\ UNCHANGED <<bufferVars, senderVars, ringVars, pending, ended, peerVars>>

-----------------------------------------------------------------------------
(* The kernel                                                               *)

Complete(n) ==
    /\ progress = "submitted"
    /\ progress' = "completed"
    /\ result' = n
    /\ UNCHANGED <<state, bufferVars, senderVars, request, pending, ended>>

\* A write sends some of its bytes.
Writes(n) ==
    /\ ~ended /\ n <= request.len
    /\ Complete(n)
    /\ IF request.special THEN UNCHANGED peerVars
       ELSE /\ heard' = heard + n
            /\ intact' = (intact /\ request.from = heard)

\* After the write side or the descriptor was closed every write fails.
WriteFails ==
    /\ "write_error" \in Faults \/ ended \/ state = "disconnected"
    /\ Complete(-1)
    /\ UNCHANGED peerVars

-----------------------------------------------------------------------------
Completion == WriteCompletion \/ BlockedResumes \/ BlockedContinues

Kernel == WriteFails \/ \E n \in 1 .. MaxSaid : Writes(n)

Next ==
    /\ UNCHANGED strategy
    /\ \/ \E len \in 1 .. MaxMessage : AsyncSend(len)
       \/ \E kind \in {"regbuf", "sendfile"} : AsyncSendSpecial(kind)
       \/ Completion
       \/ Shutdown
       \/ Destroy
       \/ Kernel

Spec == Init /\ [][Next]_vars

\* The loop handles completions, and the peer reads: a write finds room in the end.
FairSpec == Spec /\ WF_vars(UNCHANGED strategy /\ Completion)
                 /\ WF_vars(UNCHANGED strategy /\ Kernel)

-----------------------------------------------------------------------------
(* What the sending half promises                                           *)

\* A sender that blocks keeps the output buffer below the high water mark and one
\* message, whatever the peer reads: until the connection is torn down, the buffer
\* cannot grow without bound.
OutputIsBounded ==
    strategy = "block" /\ state # "disconnected" => Readable < High + MaxMessage

\* The write side is never shut down under a write that is in flight.
FinCutsNothing == [][~ended /\ ended' => progress' # "submitted"]_vars

\* A sender that is suspended, blocked or not, is resumed unless the connection is
\* torn down.
SenderIsResumed ==
    coro \in {"waiting", "blocked"} ~>
        coro \in {"running", "done"} \/ state = "disconnected"

Stream == INSTANCE ByteStream WITH heard <- IF intact THEN heard ELSE -1

\* What the peer receives is what was appended, in order, and it is told the end
\* only after all of it: no byte is retrieved twice or cut off.
ImplementsByteStream == Stream!StreamSpec
=============================================================================

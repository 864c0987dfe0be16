--------------------------- MODULE SendPathProofs ---------------------------
(***************************************************************************)
(* Proofs about SendPath for all water marks and lengths: type correctness, *)
(* and that a blocking sender bounds the output buffer as long as no write   *)
(* fails on an open connection.                                             *)
(***************************************************************************)
EXTENDS SendPath, TLAPS

(* Type correctness                                                         *)

LEMMA SubmitType ==
    ASSUME TypeOK, NEW r \in [special : BOOLEAN, from : Nat, len : Nat], Submit(r)
    PROVE  /\ progress' \in {"none", "submitted", "completed"}
           /\ request' \in [special : BOOLEAN, from : Nat, len : Nat]
BY DEF TypeOK, Submit

LEMMA SubmitWriteType ==
    ASSUME TypeOK, said' \in Nat, head' \in 0 .. said', SubmitWrite
    PROVE  /\ progress' \in {"none", "submitted", "completed"}
           /\ request' \in [special : BOOLEAN, from : Nat, len : Nat]
<1>. \A s \in Nat : \A h \in 0 .. s : h \in Nat /\ s - h \in Nat
  OBVIOUS
<1>1. head' \in Nat /\ said' - head' \in Nat
  OBVIOUS
<1>2. [special |-> FALSE, from |-> head', len |-> said' - head']
          \in [special : BOOLEAN, from : Nat, len : Nat]
  BY <1>1
<1>3. Submit([special |-> FALSE, from |-> head', len |-> said' - head'])
  BY DEF SubmitWrite
<1>. QED  BY <1>2, <1>3, SubmitType

LEMMA SuspendType ==
    ASSUME TypeOK, NEW kind \in Awaitables, said' \in Nat, head' \in 0 .. said',
           Suspend(kind)
    PROVE  /\ awaits' \in Awaitables
           /\ coro' \in {"running", "waiting", "blocked", "done"}
           /\ total' \in Nat /\ pending' \in Int
           /\ progress' \in {"none", "submitted", "completed"}
           /\ request' \in [special : BOOLEAN, from : Nat, len : Nat]
<1>1. /\ awaits' \in Awaitables
      /\ coro' \in {"running", "waiting", "blocked", "done"}
  BY DEF Suspend
<1>2. total' \in Nat /\ pending' \in Int
  BY DEF Suspend, TypeOK
<1>3. SubmitWrite \/ SubmitSpecial
  BY DEF Suspend
<1>4. CASE SubmitWrite
  BY <1>1, <1>2, <1>4, SubmitWriteType
<1>5. CASE SubmitSpecial
  <2>1. [special |-> TRUE, from |-> 0, len |-> 1]
            \in [special : BOOLEAN, from : Nat, len : Nat]
    OBVIOUS
  <2>2. Submit([special |-> TRUE, from |-> 0, len |-> 1])
    BY <1>5 DEF SubmitSpecial
  <2>. QED  BY <1>1, <1>2, <2>1, <2>2, SubmitType
<1>. QED  BY <1>3, <1>4, <1>5

\* What Buffer::retrieve leaves is within the buffer, whatever it is asked for.
LEMMA RetrieveBounds ==
    ASSUME TypeOK, NEW n \in Nat, Retrieve(n)
    PROVE  /\ head' \in head .. said
           /\ n <= said - head => head' = head + n
           /\ said - head' <= said - head
BY DEF TypeOK, Retrieve, Readable

LEMMA ResumeType ==
    ASSUME TypeOK, NEW n \in Int, Resume(n), said' = said
    PROVE  /\ progress' = "none"
           /\ pending' \in Int /\ ended' \in BOOLEAN
           /\ head' \in head .. said
           /\ ended' => ended \/ state = "disconnecting"
           /\ coro' = IF n < 0 THEN "done" ELSE "running"
           /\ request' = request
<1>. DEFINE m == IF (coro = "blocked" \/ awaits = "plain") /\ result > 0
                 THEN result ELSE 0
<1>1. m \in Nat
  BY DEF TypeOK
<1>2. Retrieve(m)
  BY DEF Resume
<1>3. head' \in head .. said
  BY <1>1, <1>2, RetrieveBounds
<1>4. ended' \in BOOLEAN /\ (ended' => ended \/ state = "disconnecting")
  <2>1. MaybeShutdownWrite
    BY DEF Resume
  <2>. QED  BY <2>1, Zenon DEF MaybeShutdownWrite, TypeOK
<1>5. pending' \in Int
  BY DEF Resume, TypeOK
<1>6. /\ progress' = "none"
      /\ coro' = IF n < 0 THEN "done" ELSE "running"
      /\ request' = request
  BY DEF Resume
<1>. QED  BY <1>3, <1>4, <1>5, <1>6

LEMMA AsyncSendType ==
    ASSUME TypeOK, NEW len \in 1 .. MaxMessage, AsyncSend(len)
    PROVE  /\ said' \in Nat /\ head' \in 0 .. said'
           /\ Suspend("plain") /\ "plain" \in Awaitables
<1>1. said' \in Nat /\ head' = head /\ head \in 0 .. said /\ said' = said + len
  BY LengthsAssumption DEF TypeOK, AsyncSend
<1>2. head \in 0 .. said + len
  BY <1>1, LengthsAssumption DEF TypeOK
<1>. QED  BY <1>1, <1>2 DEF AsyncSend, Awaitables

LEMMA BlockedResumesType ==
    ASSUME TypeOK, BlockedResumes
    PROVE  /\ total' \in Nat /\ result' \in Int /\ Resume(result')
           /\ said' = said
<1>1. total' \in Nat
  BY DEF TypeOK, BlockedResumes, Written
<1>2. result' \in Int
  BY <1>1 DEF TypeOK, BlockedResumes
<1>. QED  BY <1>1, <1>2 DEF BlockedResumes

LEMMA BlockedContinuesType ==
    ASSUME TypeOK, BlockedContinues
    PROVE  /\ result > 0 /\ total' \in Nat /\ said' = said
           /\ head' \in head .. said /\ said - head' > Low
           /\ said' \in Nat /\ head' \in 0 .. said' /\ SubmitWrite
<1>1. result \in Nat /\ result > 0 /\ said - head - result > Low
  BY MarksAssumption DEF TypeOK, BlockedContinues, BlockedDone, Readable
<1>2. Retrieve(result)
  BY DEF BlockedContinues
<1>3. head' \in head .. said /\ head' = head + result
  BY <1>1, <1>2, RetrieveBounds, MarksAssumption DEF TypeOK
<1>4. said - head' > Low
  BY <1>1, <1>3, MarksAssumption DEF TypeOK
<1>5. said' = said /\ SubmitWrite /\ total' = Written
  BY DEF BlockedContinues
<1>6. total' \in Nat
  BY <1>1, <1>5 DEF TypeOK, Written
<1>7. head' \in 0 .. said
  BY <1>3 DEF TypeOK
<1>. QED  BY <1>1, <1>3, <1>4, <1>5, <1>6, <1>7 DEF TypeOK

\* Every step keeps the types: for any strategies, marks, lengths and faults.
LEMMA TypeStep == TypeOK /\ [Next]_vars => TypeOK'
<1>. SUFFICES ASSUME TypeOK, [Next]_vars PROVE TypeOK'
  OBVIOUS
<1>1. CASE UNCHANGED vars
  BY <1>1 DEF TypeOK, vars, bufferVars, senderVars, ringVars, peerVars
<1>. SUFFICES ASSUME Next PROVE TypeOK'
  BY <1>1
<1>0. strategy' \in Strategies
  BY DEF Next, TypeOK
<1>2. ASSUME NEW len \in 1 .. MaxMessage, AsyncSend(len) PROVE TypeOK'
  <2>1. /\ said' \in Nat /\ head' \in 0 .. said'
        /\ Suspend("plain") /\ "plain" \in Awaitables
    BY <1>2, AsyncSendType
  <2>2. /\ state' \in {"connected", "disconnecting", "disconnected"}
        /\ result' \in Int /\ ended' \in BOOLEAN
        /\ heard' \in Nat /\ intact' \in BOOLEAN
    BY <1>2 DEF TypeOK, AsyncSend, peerVars
  <2>. QED  BY <1>0, <2>1, <2>2, SuspendType DEF TypeOK
<1>3. ASSUME NEW kind \in {"regbuf", "sendfile"}, AsyncSendSpecial(kind) PROVE TypeOK'
  <2>1. said' \in Nat /\ head' \in 0 .. said' /\ Suspend(kind) /\ kind \in Awaitables
    BY <1>3 DEF TypeOK, AsyncSendSpecial, bufferVars, Awaitables
  <2>2. /\ state' \in {"connected", "disconnecting", "disconnected"}
        /\ result' \in Int /\ ended' \in BOOLEAN
        /\ heard' \in Nat /\ intact' \in BOOLEAN
    BY <1>3 DEF TypeOK, AsyncSendSpecial, peerVars
  <2>. QED  BY <1>0, <2>1, <2>2, SuspendType DEF TypeOK
<1>4. CASE WriteCompletion
  <2>1. result \in Int /\ Resume(result) /\ said' = said
    BY <1>4 DEF TypeOK, WriteCompletion
  <2>2. head' \in 0 .. said'
    BY <2>1, ResumeType DEF TypeOK
  <2>3. request' = request /\ progress' = "none" /\ pending' \in Int
        /\ ended' \in BOOLEAN /\ coro' \in {"done", "running"}
    BY <2>1, ResumeType
  <2>. QED  BY <1>0, <1>4, <2>1, <2>2, <2>3 DEF TypeOK, WriteCompletion, peerVars
<1>5. CASE BlockedResumes
  <2>1. total' \in Nat /\ result' \in Int /\ Resume(result') /\ said' = said
    BY <1>5, BlockedResumesType
  <2>2. head' \in 0 .. said'
    BY <2>1, ResumeType DEF TypeOK
  <2>3. request' = request /\ progress' = "none" /\ pending' \in Int
        /\ ended' \in BOOLEAN /\ coro' \in {"done", "running"}
    BY <2>1, ResumeType
  <2>. QED  BY <1>0, <1>5, <2>1, <2>2, <2>3 DEF TypeOK, BlockedResumes, peerVars
<1>6. CASE BlockedContinues
  <2>1. /\ total' \in Nat /\ said' \in Nat /\ head' \in 0 .. said' /\ SubmitWrite
    BY <1>6, BlockedContinuesType
  <2>. QED
    BY <1>0, <1>6, <2>1, SubmitWriteType DEF TypeOK, BlockedContinues, peerVars
<1>7. CASE Shutdown
  BY <1>0, <1>7 DEF TypeOK, Shutdown, bufferVars, senderVars, ringVars, peerVars
<1>8. CASE Destroy
  BY <1>0, <1>8 DEF TypeOK, Destroy, bufferVars, senderVars, ringVars, peerVars
<1>9. CASE WriteFails
  BY <1>0, <1>9 DEF TypeOK, WriteFails, Complete, bufferVars, senderVars, peerVars
<1>10. ASSUME NEW n \in 1 .. MaxSaid, Writes(n) PROVE TypeOK'
  <2>1. n \in Nat /\ n \in Int
    BY LengthsAssumption
  <2>2. heard' \in Nat /\ intact' \in BOOLEAN
    BY <1>10, <2>1 DEF TypeOK, Writes, peerVars
  <2>. QED
    BY <1>0, <1>10, <2>1, <2>2 DEF TypeOK, Writes, Complete, bufferVars, senderVars
<1>. QED
  BY <1>2, <1>3, <1>4, <1>5, <1>6, <1>7, <1>8, <1>9, <1>10 DEF Next, Completion, Kernel

LEMMA TypeInit == Init => TypeOK
<1>. SUFFICES ASSUME Init PROVE TypeOK
  OBVIOUS
<1>1. [special |-> FALSE, from |-> 0, len |-> 0]
          \in [special : BOOLEAN, from : Nat, len : Nat]
  OBVIOUS
<1>2. request \in [special : BOOLEAN, from : Nat, len : Nat]
  BY <1>1 DEF Init
<1>3. said \in Nat /\ head \in 0 .. said
  BY DEF Init
<1>4. coro \in {"running", "waiting", "blocked", "done"} /\ awaits \in Awaitables
  BY DEF Init, Awaitables
<1>5. total \in Nat /\ result \in Int /\ pending \in Int /\ heard \in Nat
  BY DEF Init
<1>6. ended \in BOOLEAN /\ intact \in BOOLEAN
  BY DEF Init
<1>. QED  BY <1>2, <1>3, <1>4, <1>5, <1>6 DEF Init, TypeOK

\* The sending half is type correct; in particular it never retrieves more than the
\* output buffer holds.
THEOREM TypeCorrect == Spec => []TypeOK
BY TypeInit, TypeStep, PTL DEF Spec

-----------------------------------------------------------------------------
(* The output buffer is bounded                                             *)
(*                                                                          *)
(* The bound is not inductive: a sender may only go on when the buffer is    *)
(* below the high water mark, so a blocked write must not be told of an error *)
(* after it has written something. While the connection is not torn down only *)
(* the end of the write side makes a write fail, and that cannot come while   *)
(* the sender is blocked: its buffer holds more than the low water mark.      *)

LevelInv ==
    /\ coro \in {"running", "waiting"} => Readable < High
    /\ coro = "blocked" => Low < Readable
    /\ Readable < High + MaxMessage

ErrorInv ==
    /\ state = "connected" => ~ended
    /\ ended /\ coro = "blocked" => total = 0
    /\ progress = "completed" /\ result <= 0 => ended /\ result < 0
    /\ progress = "completed" /\ ended /\ coro = "blocked" => result < 0

WaterInv ==
    /\ TypeOK
    /\ strategy = "block" /\ state # "disconnected" => LevelInv /\ ErrorInv

LEMMA WaterInit == Init => WaterInv
<1>. SUFFICES ASSUME Init PROVE WaterInv
  OBVIOUS
<1>1. Readable = 0
  BY DEF Init, Readable
<1>. QED
  BY <1>1, TypeInit, MarksAssumption, LengthsAssumption DEF Init, WaterInv, LevelInv, ErrorInv

\* What a suspension leaves, in a buffer of at most one message over the mark.
LEMMA SuspendWater ==
    ASSUME WaterInv, strategy = "block", strategy' = strategy, NEW kind \in Awaitables,
           NEW s \in Nat, said' = s, head' = head, s - head < High + MaxMessage,
           kind = "regbuf" => s - head < High,
           ended' = ended, state' = "connected" => state = "connected",
           state # "disconnected", Suspend(kind)
    PROVE  LevelInv' /\ ErrorInv'
<1>1. head \in Int /\ s \in Int /\ High \in Int /\ Low \in Int /\ Low < High
  BY MarksAssumption, LengthsAssumption DEF WaterInv, TypeOK
<1>0. state' = "connected" => ~ended'
  BY DEF WaterInv, ErrorInv
<1>2. progress' \in {"none", "submitted"}
  BY DEF Suspend, SubmitWrite, SubmitSpecial, Submit
<1>3. CASE Blocks(kind)
  <2>1. s - head >= High
    BY <1>3 DEF Blocks
  <2>2. coro' = "blocked" /\ total' = 0
    BY <1>3 DEF Suspend
  <2>3. Low < s - head
    BY <1>1, <2>1
  <2>. QED  BY <1>0, <1>2, <2>2, <2>3 DEF LevelInv, ErrorInv, Readable
<1>4. CASE ~Blocks(kind)
  <2>1. s - head < High
    BY <1>1, <1>4 DEF Blocks
  <2>2. coro' = "waiting"
    BY <1>4 DEF Suspend
  <2>. QED  BY <1>0, <1>1, <1>2, <2>1, <2>2 DEF LevelInv, ErrorInv, Readable
<1>. QED  BY <1>3, <1>4

LEMMA WaterStep ==
    ASSUME "write_error" \notin Faults
    PROVE  WaterInv /\ [Next]_vars => WaterInv'
<1>. SUFFICES ASSUME WaterInv, [Next]_vars PROVE WaterInv'
  OBVIOUS
<1>1. TypeOK /\ TypeOK'
  BY TypeStep DEF WaterInv
<1>2. CASE UNCHANGED vars
  BY <1>1, <1>2 DEF WaterInv, LevelInv, ErrorInv, Readable,
     vars, bufferVars, senderVars, ringVars, peerVars
<1>. SUFFICES ASSUME Next, strategy' = "block", state' # "disconnected"
              PROVE  LevelInv' /\ ErrorInv'
  BY <1>1, <1>2 DEF WaterInv
<1>3. strategy = "block" /\ strategy' = strategy
  BY DEF Next
<1>4. /\ said \in Int /\ head \in Int /\ said - head \in Nat /\ total \in Nat
      /\ result \in Int /\ High \in Nat /\ Low \in Nat /\ Low < High
      /\ MaxMessage \in Nat /\ MaxMessage > 0
  BY <1>1, MarksAssumption, LengthsAssumption DEF TypeOK
<1>5. ASSUME NEW len \in 1 .. MaxMessage, AsyncSend(len) PROVE LevelInv' /\ ErrorInv'
  <2>1. LevelInv
    BY <1>3, <1>5 DEF AsyncSend, WaterInv
  <2>2. said' = said + len /\ head' = head /\ ended' = ended /\ Suspend("plain")
    BY <1>5 DEF AsyncSend
  <2>3. said - head < High
    BY <1>5, <2>1 DEF LevelInv, AsyncSend, Readable
  <2>4. said + len \in Nat
    BY <1>1, <1>4 DEF TypeOK
  <2>5. state # "disconnected" /\ (state' = "connected" => state = "connected")
    BY <1>5 DEF AsyncSend
  <2>6. PICK s \in Nat : s = said + len
    BY <2>4
  <2>7. s - head < High + MaxMessage
    BY <1>4, <2>3, <2>6
  <2>8. said' = s
    BY <2>2, <2>6
  <2>9. "plain" \in Awaitables
    BY DEF Awaitables
  <2>. QED  BY <1>3, <2>2, <2>5, <2>7, <2>9, <2>8, SuspendWater
<1>6. ASSUME NEW kind \in {"regbuf", "sendfile"}, AsyncSendSpecial(kind)
      PROVE  LevelInv' /\ ErrorInv'
  <2>1. LevelInv
    BY <1>3, <1>6 DEF AsyncSendSpecial, WaterInv
  <2>2. said' = said /\ head' = head /\ ended' = ended /\ Suspend(kind)
    BY <1>6 DEF AsyncSendSpecial, bufferVars
  <2>3. said - head < High
    BY <1>6, <2>1 DEF LevelInv, AsyncSendSpecial, Readable
  <2>4. said \in Nat /\ said - head < High + MaxMessage
    BY <1>1, <1>4, <2>3 DEF TypeOK
  <2>5. state # "disconnected" /\ (state' = "connected" => state = "connected")
    BY <1>6 DEF AsyncSendSpecial
  <2>. QED  BY <1>3, <2>2, <2>3, <2>4, <2>5, SuspendWater DEF Awaitables
<1>7. CASE WriteCompletion
  <2>1. LevelInv /\ ErrorInv
    BY <1>3, <1>7 DEF WriteCompletion, WaterInv
  <2>2. said' = said /\ Resume(result)
    BY <1>7 DEF WriteCompletion
  <2>3. /\ progress' = "none" /\ coro' \in {"done", "running"}
        /\ head' \in head .. said
    BY <1>1, <1>4, <2>2, ResumeType
  <2>4. PICK h \in head .. said : head' = h
    BY <2>3
  <2>5. said - h < High /\ said - h < High + MaxMessage
    BY <1>4, <1>7, <2>1 DEF LevelInv, WriteCompletion, Readable
  <2>6. LevelInv'
    BY <2>2, <2>3, <2>4, <2>5 DEF LevelInv, Readable
  <2>7. state' = "connected" => ~ended'
    BY <1>1, <1>4, <1>7, <2>1, <2>2, ResumeType DEF ErrorInv, WriteCompletion
  <2>. QED  BY <2>3, <2>6, <2>7 DEF ErrorInv
<1>8. CASE BlockedResumes
  <2>1. LevelInv /\ ErrorInv
    BY <1>3, <1>8 DEF BlockedResumes, WaterInv
  <2>2. said' = said /\ Resume(result') /\ result' \in Int
    BY <1>1, <1>8, BlockedResumesType
  <2>3. /\ progress' = "none" /\ head' \in head .. said
        /\ coro' = IF result' < 0 THEN "done" ELSE "running"
    BY <1>1, <2>2, ResumeType
  <2>4. PICK h \in head .. said : head' = h
    BY <2>3
  <2>5. said - h < High + MaxMessage
    BY <1>4, <2>1 DEF LevelInv, Readable
  <2>6. state' = "connected" => ~ended'
    BY <1>1, <1>8, <2>1, <2>2, ResumeType DEF ErrorInv, BlockedResumes
  <2>7. CASE result <= 0
    <3>1. ended /\ result < 0 /\ total = 0
      BY <1>8, <2>1, <2>7 DEF ErrorInv, BlockedResumes
    <3>2. result' < 0
      BY <1>4, <1>8, <3>1 DEF BlockedResumes, Written
    <3>. QED  BY <2>2, <2>3, <2>5, <2>4, <2>6, <3>2 DEF LevelInv, ErrorInv, Readable
  <2>8. CASE result > 0
    <3>1. said - head - result <= Low
      BY <1>4, <1>8, <2>8 DEF BlockedResumes, BlockedDone, Readable
    <3>2. Retrieve(result)
      BY <1>8, <2>2, <2>8 DEF Resume, BlockedResumes
    <3>3. said - h < High
      BY <1>4, <2>4, <3>1, <3>2 DEF Retrieve, Readable
    <3>. QED  BY <2>2, <2>3, <2>5, <2>4, <2>6, <3>3 DEF LevelInv, ErrorInv, Readable
  <2>9. result <= 0 \/ result > 0
    BY <1>4
  <2>. QED  BY <2>7, <2>8, <2>9
<1>9. CASE BlockedContinues
  <2>1. LevelInv /\ ErrorInv
    BY <1>3, <1>9 DEF BlockedContinues, WaterInv
  <2>2. /\ result > 0 /\ said' = said /\ head' \in head .. said
        /\ said - head' > Low /\ SubmitWrite
    BY <1>1, <1>9, BlockedContinuesType
  <2>3. PICK h \in head .. said : head' = h
    BY <2>2
  <2>4. said - h < High + MaxMessage /\ Low < said - h
    BY <1>4, <2>1, <2>2, <2>3 DEF LevelInv, Readable
  <2>5. /\ coro = "blocked" /\ progress = "completed"
        /\ coro' = coro /\ ended' = ended
    BY <1>9 DEF BlockedContinues
  <2>6. ~ended
    BY <1>4, <2>1, <2>2, <2>5 DEF ErrorInv
  <2>7. progress' \in {"none", "submitted"}
    BY <2>2 DEF SubmitWrite, Submit
  <2>. QED  BY <2>2, <2>4, <2>5, <2>6, <2>7, <2>3 DEF LevelInv, ErrorInv, Readable
<1>10. CASE Shutdown
  <2>1. LevelInv /\ ErrorInv
    BY <1>3, <1>10 DEF Shutdown, WaterInv
  <2>2. /\ UNCHANGED <<said, head, coro, total, progress, result>>
        /\ ended' = (Readable = 0 /\ pending <= 0)
    BY <1>10 DEF Shutdown, bufferVars, senderVars, ringVars
  <2>3. LevelInv'
    BY <2>1, <2>2 DEF LevelInv, Readable
  <2>4. coro = "blocked" => ~ended'
    <3>1. coro = "blocked" => Readable # 0
      BY <1>4, <2>1 DEF LevelInv, Readable
    <3>. QED  BY <2>2, <3>1
  <2>5. ~ended /\ state' # "connected"
    BY <1>10, <2>1 DEF ErrorInv, Shutdown
  <2>. QED  BY <2>1, <2>2, <2>3, <2>4, <2>5 DEF ErrorInv
<1>11. CASE Destroy
  BY <1>11 DEF Destroy
<1>12. CASE WriteFails
  <2>1. LevelInv /\ ErrorInv
    BY <1>3, <1>12 DEF WriteFails, Complete, WaterInv
  <2>2. /\ UNCHANGED <<state, said, head, coro, total, ended>>
        /\ result' = -1 /\ ended
    BY <1>12 DEF WriteFails, Complete, bufferVars, senderVars
  <2>. QED  BY <2>1, <2>2 DEF LevelInv, ErrorInv, Readable
<1>13. ASSUME NEW n \in 1 .. MaxSaid, Writes(n) PROVE LevelInv' /\ ErrorInv'
  <2>1. LevelInv /\ ErrorInv
    BY <1>3, <1>13 DEF Writes, Complete, WaterInv
  <2>2. /\ UNCHANGED <<state, said, head, coro, total, ended>>
        /\ result' = n /\ ~ended /\ n > 0 /\ n \in Int
    BY <1>13, LengthsAssumption DEF Writes, Complete, bufferVars, senderVars
  <2>. QED  BY <2>1, <2>2 DEF LevelInv, ErrorInv, Readable
<1>. QED
  BY <1>5, <1>6, <1>7, <1>8, <1>9, <1>10, <1>11, <1>12, <1>13
     DEF Next, Completion, Kernel

\* As long as no write fails on an open connection, kBlock bounds the output buffer
\* by the high water mark and one message, for any water marks and any messages.
THEOREM BlockBoundsTheBuffer ==
    ASSUME "write_error" \notin Faults
    PROVE  Spec => []OutputIsBounded
<1>1. WaterInv => OutputIsBounded
  BY DEF WaterInv, LevelInv, OutputIsBounded
<1>2. WaterInv /\ [Next]_vars => WaterInv'
  BY WaterStep
<1>. QED  BY <1>1, <1>2, WaterInit, PTL DEF Spec

-----------------------------------------------------------------------------
(* What the peer hears                                                      *)
(*                                                                          *)
(* The bytes heard are those retrieved, and while a completion waits to be    *)
(* handled also those it reports; a request in the ring points at the first   *)
(* byte that has not been heard.                                             *)

Special == coro = "waiting" /\ awaits # "plain"

StreamInv ==
    /\ TypeOK
    /\ intact
    /\ state = "connected" => ~ended
    /\ coro \in {"running", "done"} => progress = "none"
    /\ progress # "none" =>
           /\ request.special <=> Special
           /\ request.special \/ (request.from = head /\ request.len = said - head)
    /\ progress = "completed" => result <= request.len
    /\ heard = IF progress = "completed" /\ ~request.special /\ result > 0
               THEN head + result ELSE head

Hears == [Stream!Say \/ Stream!Hear \/ Stream!End]_<<said, IF intact THEN heard ELSE -1, ended>>

LEMMA SubmitStream ==
    ASSUME NEW r \in [special : BOOLEAN, from : Nat, len : Nat], Submit(r)
    PROVE  \/ progress' = "none"
           \/ progress' = "submitted" /\ request' = r
BY DEF Submit

\* A suspended sender has asked for what it wants to write, or for nothing.
LEMMA SuspendStream ==
    ASSUME StreamInv, NEW kind \in Awaitables, NEW s \in Nat, said' = s, head' = head,
           head \in 0 .. s, coro = "running", Suspend(kind)
    PROVE  /\ coro' \in {"waiting", "blocked"} /\ awaits' = kind
           /\ progress' \in {"none", "submitted"}
           /\ progress' # "none" =>
                  /\ request'.special <=> Special'
                  /\ request'.special \/ (request'.from = head /\ request'.len = s - head)
<1>. DEFINE r == [special |-> FALSE, from |-> head', len |-> said' - head']
            q == [special |-> TRUE, from |-> 0, len |-> 1]
<1>1. r \in [special : BOOLEAN, from : Nat, len : Nat]
  BY DEF StreamInv, TypeOK
<1>2. q \in [special : BOOLEAN, from : Nat, len : Nat]
  OBVIOUS
<1>3. /\ awaits' = kind
      /\ \/ /\ coro' = "blocked" \/ (coro' = "waiting" /\ kind = "plain")
            /\ Submit(r)
         \/ coro' = "waiting" /\ kind # "plain" /\ Submit(q)
  BY DEF Suspend, SubmitWrite, SubmitSpecial
<1>4. CASE (coro' = "blocked" \/ (coro' = "waiting" /\ kind = "plain")) /\ Submit(r)
  <2>1. progress' = "none" \/ (progress' = "submitted" /\ request' = r)
    BY <1>1, <1>4, SubmitStream
  <2>. QED  BY <1>3, <1>4, <2>1 DEF Special
<1>5. CASE coro' = "waiting" /\ kind # "plain" /\ Submit(q)
  <2>1. progress' = "none" \/ (progress' = "submitted" /\ request' = q)
    BY <1>2, <1>5, SubmitStream
  <2>. QED  BY <1>3, <1>5, <2>1 DEF Special
<1>. QED  BY <1>3, <1>4, <1>5

\* A resumed sender has retrieved exactly what the peer has heard; the end of the
\* stream is told only behind all that was said.
LEMMA ResumeStream ==
    ASSUME StreamInv, NEW n, Resume(n), progress = "completed",
           coro \in {"waiting", "blocked"}
    PROVE  /\ progress' = "none" /\ head' = heard
           /\ coro' \in {"running", "done"}
           /\ ended' => ended \/ (heard = said /\ state = "disconnecting")
           /\ ended => ended'
<1>. DEFINE m == IF (coro = "blocked" \/ awaits = "plain") /\ result > 0
                 THEN result ELSE 0
<1>1. /\ progress' = "none" /\ coro' \in {"running", "done"} /\ Retrieve(m)
      /\ ended' = (ended \/ (state = "disconnecting" /\ said = head' /\ pending' <= 0))
  BY DEF Resume, MaybeShutdownWrite
<1>2. /\ result \in Int /\ said \in Nat /\ head \in 0 .. said /\ ended \in BOOLEAN
      /\ request.special \/ request.len = said - head
      /\ request.special <=> coro = "waiting" /\ awaits # "plain"
      /\ result <= request.len
      /\ heard = IF ~request.special /\ result > 0 THEN head + result ELSE head
  BY DEF StreamInv, TypeOK, Special
<1>3. m \in Nat /\ m <= said - head /\ heard = head + m
  BY <1>2
<1>4. head' = head + m
  BY <1>1, <1>2, <1>3 DEF Retrieve, Readable
<1>. QED  BY <1>1, <1>2, <1>3, <1>4

LEMMA StreamStep == StreamInv /\ [Next]_vars => StreamInv' /\ Hears
<1>. SUFFICES ASSUME StreamInv, [Next]_vars PROVE StreamInv' /\ Hears
  OBVIOUS
<1>1. TypeOK /\ TypeOK'
  BY TypeStep DEF StreamInv
<1>2. ASSUME NEW len \in 1 .. MaxMessage, AsyncSend(len) PROVE StreamInv' /\ Hears
  <2>1. /\ coro = "running" /\ said' = said + len /\ head' = head /\ len \in Nat \ {0}
        /\ state' \in {state, "disconnecting"} /\ result' = result /\ ended' = ended
        /\ heard' = heard /\ intact' = intact /\ Suspend("plain")
    BY <1>2, LengthsAssumption DEF AsyncSend, peerVars
  <2>2. said + len \in Nat /\ head \in 0 .. said + len /\ "plain" \in Awaitables
        /\ said + len > said
    BY <1>1, <2>1 DEF TypeOK, Awaitables
  <2>3. /\ coro' \in {"waiting", "blocked"} /\ awaits' = "plain"
        /\ progress' \in {"none", "submitted"}
        /\ progress' # "none" =>
               /\ request'.special <=> Special'
               /\ request'.special
                  \/ (request'.from = head /\ request'.len = said' - head)
    <3>. DEFINE s == said + len
    <3>1. s \in Nat /\ head \in 0 .. s /\ said' = s
      BY <2>1, <2>2
    <3>. HIDE DEF s
    <3>. QED  BY <2>1, <2>2, <3>1, SuspendStream
  <2>3a. heard = head /\ intact /\ (state = "connected" => ~ended)
    BY <2>1 DEF StreamInv
  <2>4. StreamInv'
    BY <1>1, <2>1, <2>3, <2>3a DEF StreamInv
  <2>5. Stream!Say
    BY <2>1, <2>2 DEF Stream!Say
  <2>. QED  BY <2>4, <2>5 DEF Hears
<1>3. ASSUME NEW kind \in {"regbuf", "sendfile"}, AsyncSendSpecial(kind)
      PROVE  StreamInv' /\ Hears
  <2>1. /\ coro = "running" /\ said' = said /\ head' = head /\ state' = state
        /\ result' = result /\ ended' = ended /\ heard' = heard /\ intact' = intact
        /\ Suspend(kind) /\ kind \in Awaitables
    BY <1>3 DEF AsyncSendSpecial, peerVars, bufferVars, Awaitables
  <2>2. said \in Nat /\ head \in 0 .. said
    BY <1>1 DEF TypeOK
  <2>3. /\ coro' \in {"waiting", "blocked"} /\ awaits' = kind
        /\ progress' \in {"none", "submitted"}
        /\ progress' # "none" =>
               /\ request'.special <=> Special'
               /\ request'.special \/ (request'.from = head /\ request'.len = said - head)
    BY <2>1, <2>2, SuspendStream
  <2>4. StreamInv'
    BY <1>1, <2>1, <2>3 DEF StreamInv
  <2>. QED  BY <2>1, <2>4 DEF Hears
<1>4. CASE WriteCompletion \/ BlockedResumes
  <2>1. /\ progress = "completed" /\ coro \in {"waiting", "blocked"}
        /\ state' = state /\ said' = said /\ heard' = heard /\ intact' = intact
        /\ Resume(result')
    BY <1>4 DEF WriteCompletion, BlockedResumes, peerVars
  <2>2. /\ progress' = "none" /\ head' = heard /\ coro' \in {"running", "done"}
        /\ ended' => ended \/ (heard = said /\ state = "disconnecting")
        /\ ended => ended'
    BY <2>1, ResumeStream
  <2>3. StreamInv'
    BY <1>1, <2>1, <2>2 DEF StreamInv
  <2>4. Hears
    <3>1. CASE ended' = ended
      BY <2>1, <3>1 DEF Hears
    <3>2. CASE ended' # ended
      <4>1. ended' /\ heard = said
        BY <1>1, <2>2, <3>2, Zenon DEF TypeOK
      <4>2. ended' = TRUE
        BY <1>1, <4>1, Zenon DEF TypeOK
      <4>3. Stream!End
        BY <2>1, <4>1, <4>2 DEF Stream!End, StreamInv
      <4>. QED  BY <4>3 DEF Hears
    <3>. QED  BY <3>1, <3>2
  <2>. QED  BY <2>3, <2>4
<1>5. CASE BlockedContinues
  <2>1. /\ result > 0 /\ said' = said /\ said' \in Nat /\ head' \in 0 .. said'
        /\ SubmitWrite
    BY <1>1, <1>5, BlockedContinuesType
  <2>2. /\ coro = "blocked" /\ coro' = "blocked" /\ progress = "completed"
        /\ Retrieve(result) /\ state' = state /\ result' = result /\ ended' = ended
        /\ heard' = heard /\ intact' = intact /\ awaits' = awaits
    BY <1>5 DEF BlockedContinues, peerVars
  <2>3. head' = heard
    BY <1>1, <2>1, <2>2 DEF StreamInv, TypeOK, Special, Retrieve, Readable
  <2>4. \/ progress' = "none"
        \/ /\ progress' = "submitted"
           /\ request' = [special |-> FALSE, from |-> head', len |-> said' - head']
    <3>. DEFINE r == [special |-> FALSE, from |-> head', len |-> said' - head']
    <3>0. \A k \in Nat : \A h \in 0 .. k : h \in Nat /\ k - h \in Nat
      OBVIOUS
    <3>0a. head' \in Nat /\ said' - head' \in Nat
      BY <2>1, <3>0
    <3>1. r \in [special : BOOLEAN, from : Nat, len : Nat]
      BY <3>0a
    <3>2. Submit(r)
      BY <2>1 DEF SubmitWrite
    <3>. QED  BY <3>1, <3>2, SubmitStream
  <2>5. StreamInv'
    BY <1>1, <2>1, <2>2, <2>3, <2>4 DEF StreamInv, Special
  <2>. QED  BY <2>1, <2>2, <2>5 DEF Hears
<1>6. CASE Shutdown
  <2>1. /\ state = "connected" /\ state' = "disconnecting"
        /\ ended' = (Readable = 0 /\ pending <= 0)
        /\ said' = said /\ head' = head /\ coro' = coro /\ awaits' = awaits
        /\ progress' = progress /\ request' = request /\ result' = result
        /\ heard' = heard /\ intact' = intact
    BY <1>6 DEF Shutdown, bufferVars, senderVars, ringVars, peerVars
  <2>2. StreamInv'
    BY <1>1, <2>1 DEF StreamInv, Special
  <2>3. ended' => heard = said
    BY <1>1, <2>1 DEF StreamInv, TypeOK, Readable, Special
  <2>4. Hears
    <3>1. CASE ended'
      <4>1. ended' /\ heard = said
        BY <2>3, <3>1, Zenon
      <4>2. ended' = TRUE
        BY <1>1, <4>1, Zenon DEF TypeOK
      <4>3. Stream!End
        BY <2>1, <4>1, <4>2 DEF Stream!End, StreamInv
      <4>. QED  BY <4>3 DEF Hears
    <3>2. CASE ~ended'
      <4>1. ended' = ended
        BY <1>1, <2>1, <3>2, Zenon DEF TypeOK, StreamInv
      <4>. QED  BY <2>1, <4>1 DEF Hears
    <3>. QED  BY <3>1, <3>2
  <2>. QED  BY <2>2, <2>4
<1>7. CASE Destroy
  <2>1. /\ state' = "disconnected" /\ ended' = ended
        /\ said' = said /\ head' = head /\ coro' = coro /\ awaits' = awaits
        /\ progress' = progress /\ request' = request /\ result' = result
        /\ heard' = heard /\ intact' = intact
    BY <1>7 DEF Destroy, bufferVars, senderVars, ringVars, peerVars
  <2>2. StreamInv'
    BY <1>1, <2>1 DEF StreamInv, Special
  <2>. QED  BY <2>1, <2>2 DEF Hears
<1>8. CASE WriteFails
  <2>1. /\ progress = "submitted" /\ progress' = "completed" /\ result' = -1
        /\ state' = state /\ ended' = ended
        /\ said' = said /\ head' = head /\ coro' = coro /\ awaits' = awaits
        /\ request' = request /\ heard' = heard /\ intact' = intact
    BY <1>8 DEF WriteFails, Complete, bufferVars, senderVars, peerVars
  <2>2. StreamInv'
    BY <1>1, <2>1 DEF StreamInv, Special, TypeOK
  <2>. QED  BY <2>1, <2>2 DEF Hears
<1>9. ASSUME NEW n \in 1 .. MaxSaid, Writes(n) PROVE StreamInv' /\ Hears
  <2>1. /\ progress = "submitted" /\ progress' = "completed" /\ result' = n
        /\ n <= request.len /\ ~ended /\ n \in Nat \ {0}
        /\ state' = state /\ ended' = ended
        /\ said' = said /\ head' = head /\ coro' = coro /\ awaits' = awaits
        /\ request' = request
        /\ IF request.special THEN heard' = heard /\ intact' = intact
           ELSE heard' = heard + n /\ intact' = (intact /\ request.from = heard)
    BY <1>9, LengthsAssumption DEF Writes, Complete, bufferVars, senderVars, peerVars
  <2>2. CASE request.special
    <3>1. StreamInv'
      BY <1>1, <2>1, <2>2 DEF StreamInv, Special, TypeOK
    <3>. QED  BY <2>1, <2>2, <3>1 DEF Hears
  <2>3. CASE ~request.special
    <3>1. request.from = head /\ request.len = said - head /\ heard = head /\ intact
      BY <2>1, <2>3 DEF StreamInv
    <3>2. heard' = head + n /\ heard' > heard /\ heard' <= said
      BY <1>1, <2>1, <2>3, <3>1 DEF TypeOK
    <3>2a. intact'
      BY <2>1, <2>3, <3>1
    <3>3. StreamInv'
      BY <1>1, <2>1, <2>3, <3>1, <3>2, <3>2a DEF StreamInv, Special, TypeOK
    <3>4. Stream!Hear
      BY <2>1, <3>1, <3>2, <3>2a DEF Stream!Hear
    <3>. QED  BY <3>3, <3>4 DEF Hears
  <2>. QED  BY <2>2, <2>3
<1>10. CASE UNCHANGED vars
  <2>1. /\ state' = state /\ ended' = ended
        /\ said' = said /\ head' = head /\ coro' = coro /\ awaits' = awaits
        /\ progress' = progress /\ request' = request /\ result' = result
        /\ heard' = heard /\ intact' = intact
    BY <1>10 DEF vars, bufferVars, senderVars, ringVars, peerVars
  <2>2. StreamInv'
    BY <1>1, <2>1 DEF StreamInv, Special
  <2>. QED  BY <2>1, <2>2 DEF Hears
<1>. QED
  BY <1>2, <1>3, <1>4, <1>5, <1>6, <1>7, <1>8, <1>9, <1>10 DEF Next, Completion, Kernel

LEMMA StreamInit == Init => StreamInv
BY TypeInit DEF Init, StreamInv

\* For any strategies, marks, lengths and faults the peer hears what was appended, in
\* order and nothing twice, and the end only after all of it.
THEOREM SendPathImplementsByteStream == Spec => ImplementsByteStream
<1>1. Init => Stream!StreamInit
  BY DEF Init, Stream!StreamInit
<1>. QED
  BY <1>1, StreamInit, StreamStep, PTL
     DEF Spec, Hears, ImplementsByteStream, Stream!StreamSpec

-----------------------------------------------------------------------------
(* The half-close                                                           *)
(*                                                                          *)
(* pendingSpecialWriteCount_ tells a special write in flight, because a sender *)
(* that would write a file never finds the buffer full (WaterInv), and a plain *)
(* write in flight keeps its bytes in the buffer.                            *)

PendingInv ==
    /\ state # "disconnected" =>
           /\ pending = IF Special THEN 1 ELSE 0
           /\ coro = "blocked" => awaits = "plain"
    /\ progress = "submitted" /\ ~request.special => head < said

FinInv == StreamInv /\ WaterInv /\ PendingInv

NoCut == ~ended /\ ended' => progress' # "submitted"

\* What a suspension does to the count of special writes.
LEMMA SuspendPending ==
    ASSUME FinInv, NEW kind \in Awaitables, coro = "running", Suspend(kind), head' = head,
           strategy' = strategy, said \in Nat, said' \in Nat, head \in 0 .. said,
           kind = "plain" => said' > said,
           kind # "plain" => said' = said,
           state' = "disconnected" <=> state = "disconnected"
    PROVE  PendingInv'
<1>1. pending = 0 \/ state = "disconnected"
  BY DEF FinInv, PendingInv, Special
<1>2. kind # "plain" /\ Blocks(kind) => state = "disconnected"
  <2>. SUFFICES ASSUME kind # "plain", Blocks(kind), state # "disconnected" PROVE FALSE
    OBVIOUS
  <2>1. strategy = "block" /\ said - head >= High
    BY DEF Blocks
  <2>2. said - head < High
    BY <2>1 DEF FinInv, WaterInv, LevelInv, Readable
  <2>3. said - head \in Int /\ High \in Int
    BY MarksAssumption
  <2>. QED  BY ONLY <2>1, <2>2, <2>3
<1>3. awaits' = kind /\ coro' \in {"waiting", "blocked"}
  BY DEF Suspend
<1>4. state' # "disconnected" =>
          /\ pending' = IF Special' THEN 1 ELSE 0
          /\ coro' = "blocked" => awaits' = "plain"
  BY <1>1, <1>2, <1>3 DEF Suspend, Special
<1>5. progress' = "submitted" /\ ~request'.special => head' < said'
  <2>1. CASE kind = "plain"
    BY <2>1
  <2>2. CASE kind # "plain" /\ Blocks(kind)
    BY <2>2, MarksAssumption DEF Blocks
  <2>3. CASE kind # "plain" /\ ~Blocks(kind)
    <3>1. SubmitSpecial
      BY <2>3 DEF Suspend
    <3>2. progress' = "none" \/ request' = [special |-> TRUE, from |-> 0, len |-> 1]
      BY <3>1 DEF SubmitSpecial, Submit
    <3>. QED  BY <3>2
  <2>. QED  BY <2>1, <2>2, <2>3
<1>. QED  BY <1>4, <1>5 DEF PendingInv

LEMMA FinStep ==
    ASSUME "write_error" \notin Faults
    PROVE  FinInv /\ [Next]_vars => FinInv' /\ NoCut
<1>. SUFFICES ASSUME FinInv, [Next]_vars PROVE PendingInv' /\ NoCut
  BY StreamStep, WaterStep DEF FinInv
<1>1. TypeOK /\ StreamInv /\ PendingInv /\ TypeOK'
  BY TypeStep DEF FinInv, StreamInv
<1>2. ASSUME NEW len \in 1 .. MaxMessage, strategy' = strategy, AsyncSend(len)
      PROVE  PendingInv' /\ NoCut
  <2>1. /\ coro = "running" /\ said' = said + len /\ head' = head /\ ended' = ended
        /\ Suspend("plain") /\ "plain" \in Awaitables
        /\ state' = "disconnected" <=> state = "disconnected"
    BY <1>2 DEF AsyncSend, Awaitables
  <2>2. said \in Nat /\ said' \in Nat /\ head \in 0 .. said /\ said' > said
    BY <1>1, <2>1, LengthsAssumption DEF TypeOK
  <2>3. PendingInv'
    BY <1>2, <2>1, <2>2, SuspendPending
  <2>. QED  BY <2>1, <2>3 DEF NoCut
<1>3. ASSUME NEW kind \in {"regbuf", "sendfile"}, strategy' = strategy,
             AsyncSendSpecial(kind)
      PROVE  PendingInv' /\ NoCut
  <2>1. /\ coro = "running" /\ said' = said /\ head' = head /\ ended' = ended
        /\ Suspend(kind) /\ kind \in Awaitables /\ state' = state
        /\ said \in Nat /\ head \in 0 .. said
    BY <1>1, <1>3 DEF AsyncSendSpecial, bufferVars, Awaitables, TypeOK
  <2>2. PendingInv'
    BY <1>3, <2>1, SuspendPending
  <2>. QED  BY <2>1, <2>2 DEF NoCut
<1>4. CASE WriteCompletion \/ BlockedResumes
  <2>1. /\ progress = "completed" /\ coro \in {"waiting", "blocked"} /\ state' = state
        /\ awaits' = awaits /\ progress' = "none"
        /\ pending' = IF awaits = "plain" THEN pending ELSE pending - 1
        /\ coro' \in {"running", "done"}
    BY <1>4 DEF WriteCompletion, BlockedResumes, Resume
  <2>2. PendingInv'
    BY <1>1, <2>1 DEF PendingInv, Special
  <2>. QED  BY <2>1, <2>2 DEF NoCut
<1>5. CASE BlockedContinues
  <2>1. /\ said' = said /\ said - head' > Low /\ head' \in head .. said
    BY <1>1, <1>5, BlockedContinuesType
  <2>2. /\ coro' = coro /\ awaits' = awaits /\ pending' = pending /\ state' = state
        /\ ended' = ended
    BY <1>5 DEF BlockedContinues
  <2>3. head' < said'
    <3>1. said \in Int /\ head \in Int /\ Low \in Nat
      BY <1>1, MarksAssumption DEF TypeOK
    <3>2. head' \in Int
      BY ONLY <2>1, <3>1
    <3>3. \A s, h \in Int : \A l \in Nat : s - h > l => h < s
      OBVIOUS
    <3>4. head' < said
      BY <2>1, <3>1, <3>2, <3>3, Zenon
    <3>. QED  BY <2>1, <3>4, Zenon
  <2>4. PendingInv'
    BY <1>1, <2>2, <2>3 DEF PendingInv, Special
  <2>. QED  BY <2>2, <2>4 DEF NoCut
<1>6. CASE Shutdown
  <2>1. /\ state = "connected" /\ state' = "disconnecting"
        /\ ended' = (Readable = 0 /\ pending <= 0)
        /\ said' = said /\ head' = head /\ coro' = coro /\ awaits' = awaits
        /\ progress' = progress /\ request' = request /\ pending' = pending
    BY <1>6 DEF Shutdown, bufferVars, senderVars, ringVars
  <2>2. PendingInv'
    BY <1>1, <2>1 DEF PendingInv, Special
  <2>3. ASSUME ended', progress = "submitted" PROVE FALSE
    <3>1. said - head = 0 /\ pending <= 0
      BY <2>1, <2>3 DEF Readable
    <3>2. ~Special
      BY <1>1, <2>1, <3>1 DEF PendingInv
    <3>3. ~request.special
      BY <1>1, <2>3, <3>2 DEF StreamInv
    <3>4. head < said
      BY <1>1, <2>3, <3>3 DEF PendingInv
    <3>. QED  BY <1>1, <3>1, <3>4 DEF TypeOK
  <2>. QED  BY <2>1, <2>2, <2>3 DEF NoCut
<1>7. CASE Destroy
  <2>1. /\ state' = "disconnected" /\ ended' = ended /\ progress' = progress
        /\ request' = request /\ said' = said /\ head' = head
    BY <1>7 DEF Destroy, bufferVars, ringVars
  <2>. QED  BY <1>1, <2>1 DEF PendingInv, NoCut
<1>8. CASE Kernel
  <2>1. /\ progress' = "completed" /\ state' = state /\ ended' = ended
        /\ coro' = coro /\ awaits' = awaits /\ pending' = pending
    BY <1>8 DEF Kernel, WriteFails, Writes, Complete, senderVars
  <2>. QED  BY <1>1, <2>1 DEF PendingInv, Special, NoCut
<1>9. CASE UNCHANGED vars
  <2>1. /\ state' = state /\ ended' = ended /\ pending' = pending
        /\ said' = said /\ head' = head /\ coro' = coro /\ awaits' = awaits
        /\ progress' = progress /\ request' = request
    BY <1>9 DEF vars, bufferVars, senderVars, ringVars
  <2>. QED  BY <1>1, <2>1 DEF PendingInv, Special, NoCut
<1>. QED
  BY <1>2, <1>3, <1>4, <1>5, <1>6, <1>7, <1>8, <1>9 DEF Next, Completion

\* For any strategies, marks and lengths, and as long as no write fails on an open
\* connection, shutdown and the completions close the write side only when no write
\* is in flight.
THEOREM HalfCloseCutsNothing ==
    ASSUME "write_error" \notin Faults
    PROVE  Spec => FinCutsNothing
<1>1. Init => FinInv
  BY StreamInit, WaterInit DEF FinInv, PendingInv, Special, Init
<1>2. FinInv /\ [Next]_vars => FinInv' /\ NoCut
  BY FinStep
<1>. QED  BY <1>1, <1>2, PTL DEF Spec, NoCut, FinCutsNothing
==============================================================================

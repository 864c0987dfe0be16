------------------------- MODULE TcpConnectionProofs -------------------------
(***************************************************************************)
(* Proofs about TcpConnection for any number of connections, buffers and   *)
(* queue entries, with or without a read timeout and under every fault, as   *)
(* long as every read finds a buffer: a connection is closed once, no       *)
(* request or completion outlives it, no registered buffer is lost, and it  *)
(* lives the life Session describes.                                        *)
(***************************************************************************)
EXTENDS TcpConnection, SequenceTheorems, FiniteSetTheorems, TLAPS

-----------------------------------------------------------------------------
(* The inductive invariant                                                  *)

\* The functors of a kind the I/O loop still has to run for a connection, the
\* removals the main loop has to make, and the completions the I/O loop has to
\* handle.
InLoop(kind, c) == Times(ioQ, <<kind, c>>) + Times(batch, <<kind, c>>)
Removals(c) == Times(mainQ, c)
Posted(kind, c, res) == Times(cq, <<kind, c, res>>)

Reads(c) == Posted("read", c, "data") + Posted("read", c, "end")
            + Posted("read", c, "canceled")
Writes(c) == Posted("write", c, "ok") + Posted("write", c, "error")
Expiries(c) == Posted("timeout", c, "time") + Posted("timeout", c, "late")
Timeouts(c) == Posted("timeout", c, "canceled") + Expiries(c)

\* The functors under way say in which state their connection is, and closing it is
\* the business of one of them at a time.
FunctorInv(c) ==
    /\ InLoop("close", c) + Removals(c) + InLoop("destroyed", c)
       + (IF sock[c] = "closed" THEN 1 ELSE 0) <= 1
    /\ InLoop("established", c) <= 1
    /\ InLoop("established", c) > 0 => state[c] = "connecting"
    /\ InLoop("close", c) > 0 => state[c] = "disconnecting" /\ ~invoked[c]
    /\ Removals(c) > 0 => invoked[c]
    /\ InLoop("destroyed", c) > 0 => invoked[c] /\ c \notin connections

\* A connection leaves the list of the server only after its close callback.
LifeInv(c) ==
    /\ state[c] = "none" => c \notin connections
    /\ state[c] # "none" /\ ~invoked[c] => c \in connections
    /\ invoked[c] => state[c] \in {"disconnecting", "disconnected"}
    /\ sock[c] = "closed" =>
           invoked[c] /\ c \notin connections /\ state[c] = "disconnected"
    /\ coro[c] # "none" => state[c] \notin {"none", "connecting"}

\* A request, and then its completion, is what a suspended coroutine waits for.
RequestInv(c) ==
    /\ (IF rd[c] # "none" THEN 1 ELSE 0) + Reads(c) <= 1
    /\ rd[c] # "none" \/ Reads(c) > 0 => coro[c] = "reading"
    /\ (IF wr[c] # "none" THEN 1 ELSE 0) + Writes(c) <= 1
    /\ wr[c] # "none" \/ Writes(c) > 0 => coro[c] = "writing"

\* The timeout is linked to a read of a connected connection; its completion finds
\* the connection before its close callback; and once it has expired the coroutine
\* makes no other request before the expiry is handled.
TimeoutInv(c) ==
    /\ tm[c] # "none" => tm[c] = rd[c] /\ state[c] = "connected" /\ Expiries(c) = 0
    /\ Timeouts(c) > 0 => state[c] # "none" /\ ~invoked[c]
    /\ Timeouts(c) > 0 /\ phase # "cqe" => state[c] = "connected"
    /\ Posted("timeout", c, "late") > 0 => coro[c] = "reading"
    /\ Posted("timeout", c, "time") > 0 =>
           /\ coro[c] \in {"reading", "close", "done"}
           /\ rd[c] = "none"
           /\ Posted("read", c, "data") = 0 /\ Posted("read", c, "end") = 0

\* A timeout that expires late is handled before the read it did not cancel.
LateInv(c) ==
    \A i, j \in 1 .. Len(cq) :
        /\ cq[i] = <<"timeout", c, "late">>
        /\ cq[j][1] = "read" /\ cq[j][2] = c
        => i < j

\* A coroutine holds a buffer from the request until it has consumed the data.
BufferInv(c) == idx[c] # NoBuffer => coro[c] \in {"reading", "got"}

\* Where the coroutine of a connection may be in each phase of the loop.
PhaseInv(c) ==
    /\ phase \in {"submit", "wait"} => coro[c] \notin Running
    /\ phase = "run" => coro[c] \notin Running \ {"read"}

ConnInv(c) ==
    /\ FunctorInv(c) /\ LifeInv(c) /\ RequestInv(c) /\ TimeoutInv(c) /\ LateInv(c)
    /\ BufferInv(c) /\ PhaseInv(c)

BufferCountInv == \A b \in Buffers : Times(free, b) + Cardinality(Holders(b)) = 1

IInv ==
    /\ TypeOK
    /\ BufferCountInv
    /\ phase # "run" => batch = <<>>
    /\ \A c \in Conns : ConnInv(c)

-----------------------------------------------------------------------------
(* Counting the occurrences in a queue                                      *)

\* A count is a number, zero for what is not in the queue.
LEMMA TimesType ==
    ASSUME NEW S, NEW q \in Seq(S), NEW x
    PROVE  /\ Times(q, x) \in Nat
           /\ Times(q, x) = 0 <=> \A i \in 1 .. Len(q) : q[i] # x
<1>. DEFINE I == {i \in 1 .. Len(q) : q[i] = x}
<1>1. IsFiniteSet(1 .. Len(q))
  BY FS_Interval, LenProperties
<1>2. IsFiniteSet(I)
  BY <1>1, FS_Subset
<1>3. Cardinality(I) \in Nat
  BY <1>2, FS_CardinalityType
<1>4. Cardinality(I) = 0 <=> I = {}
  BY <1>2, FS_EmptySet
<1>. QED  BY <1>3, <1>4 DEF Times

LEMMA TimesEmpty == \A x : Times(<<>>, x) = 0
<1>. SUFFICES ASSUME NEW x PROVE Times(<<>>, x) = 0
  OBVIOUS
<1>1. {i \in 1 .. Len(<<>>) : <<>>[i] = x} = {}
  OBVIOUS
<1>. QED  BY <1>1, FS_EmptySet DEF Times

LEMMA TimesAppend ==
    ASSUME NEW S, NEW q \in Seq(S), NEW e \in S, NEW x
    PROVE  Times(Append(q, e), x) = Times(q, x) + (IF e = x THEN 1 ELSE 0)
<1>. DEFINE I == {i \in 1 .. Len(q) : q[i] = x}
            J == {i \in 1 .. Len(Append(q, e)) : Append(q, e)[i] = x}
            n == Len(q) + 1
<1>1. /\ Len(Append(q, e)) = n /\ Len(q) \in Nat
      /\ \A i \in 1 .. Len(q) : Append(q, e)[i] = q[i]
      /\ Append(q, e)[n] = e
  BY AppendProperties, LenProperties
<1>2. IsFiniteSet(I)
  <2>1. IsFiniteSet(1 .. Len(q)) /\ I \in SUBSET (1 .. Len(q))
    BY <1>1, FS_Interval
  <2>. QED  BY <2>1, FS_Subset
<1>3. n \notin I
  BY <1>1
<1>4. \A i : i \in 1 .. n <=> i \in 1 .. Len(q) \/ i = n
  BY <1>1
<1>5. J = IF e = x THEN I \cup {n} ELSE I
  <2>. HIDE DEF n
  <2>. QED  BY <1>1, <1>4
<1>6. Cardinality(I \cup {n}) = Cardinality(I) + 1
  BY <1>2, <1>3, FS_AddElement
<1>7. Cardinality(I) \in Nat
  BY <1>2, FS_CardinalityType
<1>8. Cardinality(J) = Cardinality(I) + (IF e = x THEN 1 ELSE 0)
  <2>. HIDE DEF I, J, n
  <2>. QED  BY <1>5, <1>6, <1>7
<1>. QED  BY <1>8 DEF Times

\* What is left in a queue when its first element is taken.
LEMMA TimesTail ==
    ASSUME NEW S, NEW q \in Seq(S), q # <<>>, NEW x
    PROVE  Times(q, x) = Times(Tail(q), x) + (IF Head(q) = x THEN 1 ELSE 0)
<1>. DEFINE I == {i \in 1 .. Len(Tail(q)) : Tail(q)[i] = x}
            K == {i \in 2 .. Len(q) : q[i] = x}
            J == {i \in 1 .. Len(q) : q[i] = x}
            f == [i \in I |-> i + 1]
<1>1. /\ Tail(q) \in Seq(S) /\ Len(Tail(q)) = Len(q) - 1
      /\ \A i \in 1 .. Len(Tail(q)) : Tail(q)[i] = q[i + 1]
      /\ Len(q) \in Nat \ {0} /\ Head(q) = q[1]
  BY HeadTailProperties, LenProperties, EmptySeq
<1>2. IsFiniteSet(I) /\ IsFiniteSet(K)
  <2>1. /\ IsFiniteSet(1 .. Len(Tail(q))) /\ I \in SUBSET (1 .. Len(Tail(q)))
        /\ IsFiniteSet(2 .. Len(q)) /\ K \in SUBSET (2 .. Len(q))
    BY <1>1, FS_Interval
  <2>. QED  BY <2>1, FS_Subset
<1>3. f \in Bijection(I, K)
  <2>1. \A i \in 1 .. Len(Tail(q)) : i + 1 \in 2 .. Len(q)
    BY <1>1
  <2>2. f \in [I -> K]
    BY <1>1, <2>1
  <2>3. \A i, j \in I : f[i] = f[j] => i = j
    BY <1>1
  <2>4. ASSUME NEW k \in K PROVE \E i \in I : f[i] = k
    <3>1. k - 1 \in 1 .. Len(Tail(q)) /\ (k - 1) + 1 = k
      BY <1>1
    <3>2. k - 1 \in I
      BY <1>1, <3>1
    <3>. QED  BY <3>1, <3>2
  <2>5. f \in Injection(I, K)
    BY <2>2, <2>3 DEF Injection, IsInjective
  <2>6. f \in Surjection(I, K)
    BY <2>2, <2>4 DEF Surjection
  <2>. QED  BY <2>5, <2>6 DEF Bijection
<1>4. Cardinality(K) = Cardinality(I)
  BY <1>2, <1>3, FS_Bijection DEF ExistsBijection
<1>5. \A i : i \in 1 .. Len(q) <=> i \in 2 .. Len(q) \/ i = 1
  BY <1>1
<1>6. J = IF Head(q) = x THEN K \cup {1} ELSE K
  BY <1>1, <1>5
<1>7. 1 \notin K
  OBVIOUS
<1>8. Cardinality(K \cup {1}) = Cardinality(K) + 1
  BY <1>2, <1>7, FS_AddElement
<1>9. Cardinality(K) \in Nat
  BY <1>2, FS_CardinalityType
<1>10. Cardinality(J) = Cardinality(I) + (IF Head(q) = x THEN 1 ELSE 0)
  <2>. HIDE DEF I, J, K
  <2>. QED  BY <1>4, <1>6, <1>8, <1>9
<1>. QED  BY <1>10 DEF Times

\* The same at the other end: a list of free buffers is a stack.
LEMMA FrontLast ==
    ASSUME NEW S, NEW q \in Seq(S), q # <<>>
    PROVE  /\ Front(q) \in Seq(S) /\ Last(q) \in S
           /\ \A x : Times(q, x) = Times(Front(q), x) + (IF Last(q) = x THEN 1 ELSE 0)
<1>1. Len(q) \in Nat \ {0}
  BY EmptySeq
<1>2. /\ \A i \in 1 .. Len(q) : q[i] \in S
      /\ Len(q) \in 1 .. Len(q)
  BY <1>1, ElementOfSeq
<1>3. Last(q) \in S
  BY <1>2 DEF Last
<1>4. /\ Front(q) \in Seq(S) /\ Len(Front(q)) = Len(q) - 1
      /\ \A i \in 1 .. Len(q) - 1 : Front(q)[i] = q[i]
  <2>1. \A i \in 1 .. Len(q) - 1 : q[i] \in S
    BY <1>1, <1>2
  <2>2. Len(q) - 1 \in Int
    BY <1>1
  <2>3. /\ SubSeq(q, 1, Len(q) - 1) \in Seq(S)
        /\ Len(SubSeq(q, 1, Len(q) - 1)) =
             IF 1 <= Len(q) - 1 THEN (Len(q) - 1) - 1 + 1 ELSE 0
        /\ \A i \in 1 .. (Len(q) - 1) - 1 + 1 :
               SubSeq(q, 1, Len(q) - 1)[i] = q[1 + i - 1]
    BY <2>1, <2>2, SubSeqProperties
  <2>4. \A i \in 1 .. Len(q) - 1 : i \in 1 .. (Len(q) - 1) - 1 + 1 /\ 1 + i - 1 = i
    BY <1>1
  <2>5. Len(q) - 1 = IF 1 <= Len(q) - 1 THEN (Len(q) - 1) - 1 + 1 ELSE 0
    <3>1. \A n \in Nat \ {0} : n - 1 = IF 1 <= n - 1 THEN (n - 1) - 1 + 1 ELSE 0
      OBVIOUS
    <3>. QED  BY <1>1, <3>1
  <2>. QED  BY <2>3, <2>4, <2>5 DEF Front
<1>5. q = Append(Front(q), Last(q))
  <2>1. /\ Append(Front(q), Last(q)) \in Seq(S)
        /\ Len(Append(Front(q), Last(q))) = Len(Front(q)) + 1
        /\ \A i \in 1 .. Len(Front(q)) : Append(Front(q), Last(q))[i] = Front(q)[i]
        /\ Append(Front(q), Last(q))[Len(Front(q)) + 1] = Last(q)
    BY <1>3, <1>4, AppendProperties
  <2>2. Len(Append(Front(q), Last(q))) = Len(q)
    BY <1>1, <1>4, <2>1
  <2>3. \A i \in 1 .. Len(q) : i \in 1 .. Len(q) - 1 \/ i = Len(q)
    BY <1>1
  <2>4. \A i \in 1 .. Len(q) : q[i] = Append(Front(q), Last(q))[i]
    BY <1>1, <1>4, <2>1, <2>3 DEF Last
  <2>. QED  BY <2>1, <2>2, <2>4, SeqEqual
<1>6. \A x : Times(Append(Front(q), Last(q)), x) = Times(Front(q), x)
                                              + (IF Last(q) = x THEN 1 ELSE 0)
  BY <1>3, <1>4, TimesAppend
<1>. QED  BY <1>3, <1>4, <1>5, <1>6

-----------------------------------------------------------------------------
(* What the steps do to the counts                                          *)

Kinds == {"established", "close", "destroyed"}

\* What the queues hold, apart from the types of the other variables.
QueuesOK ==
    /\ cq \in Seq(Completions)
    /\ mainQ \in Seq(Conns) /\ ioQ \in Seq(Tasks) /\ batch \in Seq(Tasks)

LEMMA QueuesTyped == TypeOK => QueuesOK
BY DEF TypeOK, QueuesOK

LEMMA CountsAreNat ==
    ASSUME QueuesOK
    PROVE  \A c \in Conns :
               /\ \A kind \in Kinds : InLoop(kind, c) \in Nat
               /\ Removals(c) \in Nat
               /\ \A kind, res : Posted(kind, c, res) \in Nat
<1>. SUFFICES ASSUME NEW c \in Conns
              PROVE  /\ \A kind \in Kinds : InLoop(kind, c) \in Nat
                     /\ Removals(c) \in Nat
                     /\ \A kind, res : Posted(kind, c, res) \in Nat
  OBVIOUS
<1>1. \A x : Times(ioQ, x) \in Nat /\ Times(batch, x) \in Nat /\ Times(mainQ, x) \in Nat
             /\ Times(cq, x) \in Nat
  BY TimesType DEF QueuesOK
<1>. QED  BY <1>1 DEF InLoop, Removals, Posted

\* queueInLoop of the I/O loop: one more functor, or the queue is full.
LEMMA QueueTask ==
    ASSUME QueuesOK, NEW kind \in Kinds, NEW c \in Conns,
           ioQ' = Queued(ioQ, <<kind, c>>), batch' = batch
    PROVE  /\ ioQ' \in Seq(Tasks)
           /\ \E n \in {0, 1} : \A k \in Kinds, d \in Conns :
                  InLoop(k, d)' = InLoop(k, d) + (IF k = kind /\ d = c THEN n ELSE 0)
<1>. DEFINE t == <<kind, c>>
<1>1. t \in Tasks
  BY DEF Tasks, Kinds
<1>2. \A k \in Kinds, d \in Conns : t = <<k, d>> <=> k = kind /\ d = c
  OBVIOUS
<1>3. \A x : Times(ioQ, x) \in Nat /\ Times(batch, x) \in Nat
  BY TimesType DEF QueuesOK
<1>4. CASE ioQ' = ioQ
  <2>1. \A k \in Kinds, d \in Conns : InLoop(k, d)' = InLoop(k, d)
    BY <1>4 DEF InLoop
  <2>2. \A k \in Kinds, d \in Conns : InLoop(k, d) \in Nat
    BY <1>3 DEF InLoop
  <2>. QED  BY <1>4, <2>1, <2>2 DEF QueuesOK
<1>5. CASE ioQ' = Append(ioQ, t)
  <2>1. /\ ioQ' \in Seq(Tasks)
        /\ \A x : Times(ioQ', x) = Times(ioQ, x) + (IF t = x THEN 1 ELSE 0)
    <3>. HIDE DEF t
    <3>1. ioQ \in Seq(Tasks)
      BY DEF QueuesOK
    <3>. QED  BY ONLY <1>1, <1>5, <3>1, TimesAppend, AppendProperties
  <2>2. \A k \in Kinds, d \in Conns :
            InLoop(k, d)' = InLoop(k, d) + (IF k = kind /\ d = c THEN 1 ELSE 0)
    <3>. SUFFICES ASSUME NEW k \in Kinds, NEW d \in Conns
                  PROVE  InLoop(k, d)' = InLoop(k, d)
                                         + (IF k = kind /\ d = c THEN 1 ELSE 0)
      OBVIOUS
    <3>1. Times(ioQ', <<k, d>>) = Times(ioQ, <<k, d>>)
                                  + (IF k = kind /\ d = c THEN 1 ELSE 0)
      BY <1>2, <2>1
    <3>. QED  BY <1>3, <3>1 DEF InLoop
  <2>. QED  BY <2>1, <2>2
<1>. QED  BY <1>4, <1>5 DEF Queued

\* doPendingFunctors takes the queue of the loop, whose batch is empty.
LEMMA TakeTasks ==
    ASSUME QueuesOK, batch = <<>>, batch' = ioQ, ioQ' = <<>>
    PROVE  \A k \in Kinds, d \in Conns : InLoop(k, d)' = InLoop(k, d)
<1>1. \A x : Times(ioQ, x) \in Nat
  BY TimesType DEF QueuesOK
<1>. QED  BY <1>1, TimesEmpty DEF InLoop

\* It runs the next functor of its batch.
LEMMA RunTask ==
    ASSUME QueuesOK, NEW kind \in Kinds, NEW c \in Conns, Runs(kind, c), ioQ' = ioQ
    PROVE  /\ batch' \in Seq(Tasks)
           /\ InLoop(kind, c) > 0
           /\ \A k \in Kinds, d \in Conns :
                  InLoop(k, d)' = InLoop(k, d) - (IF k = kind /\ d = c THEN 1 ELSE 0)
<1>. DEFINE t == <<kind, c>>
<1>1. batch # <<>> /\ Head(batch) = t /\ batch' = Tail(batch)
  BY DEF Runs
<1>2. \A k \in Kinds, d \in Conns : t = <<k, d>> <=> k = kind /\ d = c
  OBVIOUS
<1>3. batch' \in Seq(Tasks)
  BY <1>1, HeadTailProperties DEF QueuesOK
<1>4. \A x : Times(ioQ, x) \in Nat /\ Times(batch, x) \in Nat /\ Times(batch', x) \in Nat
  BY <1>3, TimesType DEF QueuesOK
<1>5. \A x : Times(batch, x) = Times(batch', x) + (IF t = x THEN 1 ELSE 0)
  BY <1>1, TimesTail DEF QueuesOK
<1>6. InLoop(kind, c) > 0
  <2>1. Times(batch, t) = Times(batch', t) + 1
    BY <1>5
  <2>. QED  BY <1>4, <2>1 DEF InLoop
<1>7. \A k \in Kinds, d \in Conns :
          InLoop(k, d)' = InLoop(k, d) - (IF k = kind /\ d = c THEN 1 ELSE 0)
  <2>. SUFFICES ASSUME NEW k \in Kinds, NEW d \in Conns
                PROVE  InLoop(k, d)' = InLoop(k, d) - (IF k = kind /\ d = c THEN 1 ELSE 0)
    OBVIOUS
  <2>1. Times(batch, <<k, d>>) = Times(batch', <<k, d>>)
                                 + (IF k = kind /\ d = c THEN 1 ELSE 0)
    BY <1>2, <1>5
  <2>. QED  BY <1>4, <2>1 DEF InLoop
<1>. QED  BY <1>3, <1>6, <1>7

\* The close callback queues a removal, or the queue of the main loop is full.
LEMMA QueueRemoval ==
    ASSUME QueuesOK, NEW c \in Conns, mainQ' = Queued(mainQ, c)
    PROVE  /\ mainQ' \in Seq(Conns)
           /\ \E n \in {0, 1} : \A d \in Conns :
                  Removals(d)' = Removals(d) + (IF d = c THEN n ELSE 0)
<1>1. \A x : Times(mainQ, x) \in Nat
  BY TimesType DEF QueuesOK
<1>2. CASE mainQ' = mainQ
  BY <1>1, <1>2 DEF Removals, QueuesOK
<1>3. CASE mainQ' = Append(mainQ, c)
  <2>1. \A x : Times(mainQ', x) = Times(mainQ, x) + (IF c = x THEN 1 ELSE 0)
    BY <1>3, TimesAppend DEF QueuesOK
  <2>2. mainQ' \in Seq(Conns)
    BY <1>3, AppendProperties DEF QueuesOK
  <2>. QED  BY <2>1, <2>2 DEF Removals
<1>. QED  BY <1>2, <1>3 DEF Queued

\* The main loop runs the next removal.
LEMMA RunRemoval ==
    ASSUME QueuesOK, mainQ # <<>>, mainQ' = Tail(mainQ)
    PROVE  /\ mainQ' \in Seq(Conns) /\ Head(mainQ) \in Conns
           /\ Removals(Head(mainQ)) > 0
           /\ \A d \in Conns :
                  Removals(d)' = Removals(d) - (IF d = Head(mainQ) THEN 1 ELSE 0)
<1>1. mainQ' \in Seq(Conns) /\ Head(mainQ) \in Conns
  BY HeadTailProperties DEF QueuesOK
<1>2. \A x : Times(mainQ, x) \in Nat /\ Times(mainQ', x) \in Nat
  BY <1>1, TimesType DEF QueuesOK
<1>3. \A x : Times(mainQ, x) = Times(mainQ', x) + (IF Head(mainQ) = x THEN 1 ELSE 0)
  BY TimesTail DEF QueuesOK
<1>. QED  BY <1>1, <1>2, <1>3 DEF Removals

\* One completion is posted.
LEMMA PostOne ==
    ASSUME QueuesOK, NEW kind, NEW c, NEW res, <<kind, c, res>> \in Completions,
           cq' = Append(cq, <<kind, c, res>>)
    PROVE  /\ cq' \in Seq(Completions)
           /\ \A k, d, r : Posted(k, d, r)' = Posted(k, d, r)
                               + (IF k = kind /\ d = c /\ r = res THEN 1 ELSE 0)
<1>. DEFINE e == <<kind, c, res>>
<1>1. cq \in Seq(Completions) /\ e \in Completions /\ cq' = Append(cq, e)
  BY DEF QueuesOK
<1>2. \A k, d, r : e = <<k, d, r>> <=> k = kind /\ d = c /\ r = res
  OBVIOUS
<1>. HIDE DEF e
<1>3. /\ cq' \in Seq(Completions)
      /\ \A x : Times(cq', x) = Times(cq, x) + (IF e = x THEN 1 ELSE 0)
  BY ONLY <1>1, TimesAppend, AppendProperties
<1>. QED  BY <1>2, <1>3 DEF Posted

\* Two completions are posted together, in either order.
LEMMA GrowTwo ==
    ASSUME NEW S, NEW q \in Seq(S), NEW a \in S, NEW b \in S
    PROVE  /\ q \o <<a, b>> \in Seq(S)
           /\ \A x : Times(q \o <<a, b>>, x) = Times(q, x) + (IF a = x THEN 1 ELSE 0)
                                                       + (IF b = x THEN 1 ELSE 0)
<1>1. q \o <<a, b>> = Append(Append(q, a), b)
  OBVIOUS
<1>2. Append(q, a) \in Seq(S)
  BY AppendProperties
<1>3. \A x : Times(Append(q, a), x) = Times(q, x) + (IF a = x THEN 1 ELSE 0)
  BY ONLY q \in Seq(S), a \in S, TimesAppend
<1>5. /\ Append(Append(q, a), b) \in Seq(S)
      /\ \A x : Times(Append(Append(q, a), b), x) = Times(Append(q, a), x)
                                                  + (IF b = x THEN 1 ELSE 0)
  BY ONLY ZenonT(60), <1>2, b \in S, TimesAppend, AppendProperties
<1>6. \A x : Times(Append(Append(q, a), b), x) = Times(q, x)
                          + (IF a = x THEN 1 ELSE 0) + (IF b = x THEN 1 ELSE 0)
  BY ONLY <1>3, <1>5
<1>. QED  BY <1>1, <1>5, <1>6

LEMMA PostTwo ==
    ASSUME QueuesOK, NEW kind1, NEW c, NEW res1, <<kind1, c, res1>> \in Completions,
           NEW kind2, NEW res2, <<kind2, c, res2>> \in Completions,
           Post(<<kind1, c, res1>>, <<kind2, c, res2>>)
    PROVE  /\ cq' \in Seq(Completions)
           /\ \A k, d, r : Posted(k, d, r)' = Posted(k, d, r)
                               + (IF k = kind1 /\ d = c /\ r = res1 THEN 1 ELSE 0)
                               + (IF k = kind2 /\ d = c /\ r = res2 THEN 1 ELSE 0)
<1>. DEFINE e == <<kind1, c, res1>>
            f == <<kind2, c, res2>>
<1>1. cq \in Seq(Completions) /\ e \in Completions /\ f \in Completions
  BY DEF QueuesOK
<1>2. \A k, d, r : /\ e = <<k, d, r>> <=> k = kind1 /\ d = c /\ r = res1
                   /\ f = <<k, d, r>> <=> k = kind2 /\ d = c /\ r = res2
  OBVIOUS
<1>3. cq' = cq \o <<e, f>> \/ cq' = cq \o <<f, e>>
  BY DEF Post
<1>. HIDE DEF e, f
<1>4. \A x : Times(cq, x) \in Nat
  BY <1>1, TimesType
<1>5. /\ cq' \in Seq(Completions)
      /\ \A x : Times(cq', x) = Times(cq, x) + (IF e = x THEN 1 ELSE 0)
                                             + (IF f = x THEN 1 ELSE 0)
  <2>1. CASE cq' = cq \o <<e, f>>
    <3>1. /\ cq \o <<e, f>> \in Seq(Completions)
          /\ \A x : Times(cq \o <<e, f>>, x) = Times(cq, x) + (IF e = x THEN 1 ELSE 0)
                                                          + (IF f = x THEN 1 ELSE 0)
      BY ONLY <1>1, GrowTwo
    <3>. QED  BY ONLY <2>1, <3>1
  <2>2. CASE cq' = cq \o <<f, e>>
    <3>1. /\ cq \o <<f, e>> \in Seq(Completions)
          /\ \A x : Times(cq \o <<f, e>>, x) = Times(cq, x) + (IF f = x THEN 1 ELSE 0)
                                                          + (IF e = x THEN 1 ELSE 0)
      BY ONLY <1>1, GrowTwo
    <3>2. \A x : Times(cq \o <<f, e>>, x) = Times(cq, x) + (IF e = x THEN 1 ELSE 0)
                                                        + (IF f = x THEN 1 ELSE 0)
      BY ONLY <1>4, <3>1
    <3>. QED  BY ONLY <2>2, <3>1, <3>2
  <2>. QED  BY <1>3, <2>1, <2>2
<1>6. ASSUME NEW k, NEW d, NEW r
      PROVE  Times(cq', <<k, d, r>>) = Times(cq, <<k, d, r>>)
                               + (IF k = kind1 /\ d = c /\ r = res1 THEN 1 ELSE 0)
                               + (IF k = kind2 /\ d = c /\ r = res2 THEN 1 ELSE 0)
  <2>1. Times(cq', <<k, d, r>>) = Times(cq, <<k, d, r>>)
                                  + (IF e = <<k, d, r>> THEN 1 ELSE 0)
                                  + (IF f = <<k, d, r>> THEN 1 ELSE 0)
    BY ONLY <1>5, Zenon
  <2>2. /\ e = <<k, d, r>> <=> k = kind1 /\ d = c /\ r = res1
        /\ f = <<k, d, r>> <=> k = kind2 /\ d = c /\ r = res2
    BY ONLY <1>2, Zenon
  <2>. QED  BY ONLY <2>1, <2>2
<1>. QED  BY ONLY <1>5, <1>6 DEF Posted

\* The loop handles the first completion.
LEMMA HandleOne ==
    ASSUME QueuesOK, NEW kind, NEW c \in Conns, NEW res, Handles(kind, c, res)
    PROVE  /\ cq' \in Seq(Completions)
           /\ Posted(kind, c, res) > 0
           /\ \A k, r : \A d \in Conns :
                  Posted(k, d, r)' = Posted(k, d, r)
                                     - (IF k = kind /\ d = c /\ r = res THEN 1 ELSE 0)
<1>. DEFINE e == <<kind, c, res>>
<1>1. cq \in Seq(Completions) /\ cq # <<>> /\ Head(cq) = e /\ cq' = Tail(cq)
  BY DEF QueuesOK, Handles
<1>2. \A k, d, r : e = <<k, d, r>> <=> k = kind /\ d = c /\ r = res
  OBVIOUS
<1>3. Posted(kind, c, res) = Times(cq, e)
  BY DEF Posted
<1>. HIDE DEF e
<1>4. cq' \in Seq(Completions)
  BY <1>1, HeadTailProperties
<1>5. \A x : Times(cq, x) \in Nat /\ Times(cq', x) \in Nat
  BY <1>1, <1>4, TimesType
<1>6. \A x : Times(cq, x) = Times(cq', x) + (IF e = x THEN 1 ELSE 0)
  BY <1>1, TimesTail
<1>7. Posted(kind, c, res) > 0
  <2>1. Times(cq, e) = Times(cq', e) + 1
    BY <1>6
  <2>. QED  BY <1>3, <1>5, <2>1
<1>8. ASSUME NEW k, NEW r, NEW d \in Conns
      PROVE  Posted(k, d, r)' = Posted(k, d, r)
                                - (IF k = kind /\ d = c /\ r = res THEN 1 ELSE 0)
  <2>1. Times(cq, <<k, d, r>>) = Times(cq', <<k, d, r>>)
                                 + (IF k = kind /\ d = c /\ r = res THEN 1 ELSE 0)
    BY <1>2, <1>6
  <2>. QED  BY <1>5, <2>1 DEF Posted
<1>. QED  BY <1>4, <1>7, <1>8

-----------------------------------------------------------------------------
(* The order of a late timeout and the read it did not cancel               *)

IsLate(e, c) == e = <<"timeout", c, "late">>
IsRead(e, c) == e[1] = "read" /\ e[2] = c

\* Handling a completion keeps the order of the others.
LEMMA LateTail ==
    ASSUME QueuesOK, NEW c, LateInv(c), cq # <<>>, cq' = Tail(cq)
    PROVE  LateInv(c)'
<1>1. /\ Len(Tail(cq)) = Len(cq) - 1
      /\ \A i \in 1 .. Len(Tail(cq)) : Tail(cq)[i] = cq[i + 1]
      /\ Len(cq) \in Nat \ {0}
  BY HeadTailProperties, EmptySeq DEF QueuesOK
<1>2. \A i \in 1 .. Len(Tail(cq)) : i + 1 \in 1 .. Len(cq)
  BY <1>1
<1>3. \A i, j \in 1 .. Len(Tail(cq)) : i + 1 < j + 1 => i < j
  OBVIOUS
<1>. QED  BY <1>1, <1>2, <1>3 DEF LateInv

\* A completion at the end keeps the order unless it is a late timeout that finds
\* a read before it.
LEMMA LateAppend ==
    ASSUME NEW q \in Seq(Completions), NEW q2, NEW e \in Completions, q2 = Append(q, e), NEW c,
           \A i, j \in 1 .. Len(q) : IsLate(q[i], c) /\ IsRead(q[j], c) => i < j,
           IsLate(e, c) => \A j \in 1 .. Len(q) : ~IsRead(q[j], c)
    PROVE  \A i, j \in 1 .. Len(q2) : IsLate(q2[i], c) /\ IsRead(q2[j], c) => i < j
<1>1. /\ Len(q2) = Len(q) + 1 /\ Len(q) \in Nat
      /\ \A i \in 1 .. Len(q) : q2[i] = q[i]
      /\ q2[Len(q) + 1] = e
  BY AppendProperties, LenProperties
<1>2. \A i \in 1 .. Len(q2) : i \in 1 .. Len(q) \/ i = Len(q) + 1
  BY <1>1
<1>3. \A i \in 1 .. Len(q) : i < Len(q) + 1
  BY <1>1
<1>4. ~(IsLate(e, c) /\ IsRead(e, c))
  BY DEF IsLate, IsRead
<1>. QED  BY <1>1, <1>2, <1>3, <1>4

LEMMA LateInvIs ==
    \A c : LateInv(c) <=> \A i, j \in 1 .. Len(cq) :
                              IsLate(cq[i], c) /\ IsRead(cq[j], c) => i < j
BY DEF LateInv, IsLate, IsRead

\* No read completion is in the queue when none is counted.
LEMMA NoReads ==
    ASSUME QueuesOK, NEW c \in Conns, Reads(c) = 0
    PROVE  \A j \in 1 .. Len(cq) : ~IsRead(cq[j], c)
<1>. SUFFICES ASSUME NEW j \in 1 .. Len(cq), IsRead(cq[j], c) PROVE FALSE
  OBVIOUS
<1>. DEFINE r == cq[j][3]
<1>1. cq \in Seq(Completions)
  BY DEF QueuesOK
<1>2. cq[j] \in Completions
  BY <1>1, ElementOfSeq
<1>3. cq[j] = <<"read", c, r>>
  BY <1>2 DEF Completions, IsRead
<1>4. Times(cq, <<"read", c, r>>) # 0
  <2>. DEFINE x == <<"read", c, r>>
  <2>1. ~ \A i \in 1 .. Len(cq) : cq[i] # x
    BY <1>3
  <2>2. \A y : Times(cq, y) = 0 <=> \A i \in 1 .. Len(cq) : cq[i] # y
    BY ONLY <1>1, TimesType
  <2>. HIDE DEF x
  <2>3. Times(cq, x) # 0
    BY ONLY <2>1, <2>2, Zenon
  <2>. QED  BY <2>3 DEF x
<1>5. \A res : Posted("read", c, res) \in Nat
  BY CountsAreNat
<1>6. Posted("read", c, r) > 0
  BY <1>4, <1>5 DEF Posted
<1>7. r \in {"data", "end", "canceled"}
  BY <1>2, <1>3 DEF Completions
<1>. HIDE DEF r
<1>. QED  BY <1>5, <1>6, <1>7 DEF Reads

-----------------------------------------------------------------------------
(* The registered buffers                                                   *)

LEMMA HoldersFinite ==
    ASSUME NEW b PROVE IsFiniteSet(Holders(b)) /\ Cardinality(Holders(b)) \in Nat
<1>1. Holders(b) \in SUBSET Conns
  BY DEF Holders
<1>2. IsFiniteSet(Conns)
  BY ConstantsAssumption
<1>. QED  BY <1>1, <1>2, FS_Subset, FS_CardinalityType

\* A connection without a buffer takes the last free one.
LEMMA TakeBuffer ==
    ASSUME TypeOK, BufferCountInv, NEW c \in Conns, idx[c] = NoBuffer, free # <<>>,
           idx' = [idx EXCEPT ![c] = Last(free)], free' = Front(free)
    PROVE  /\ BufferCountInv'
           /\ free' \in Seq(Buffers) /\ idx' \in [Conns -> Buffers \cup {NoBuffer}]
<1>1. /\ free \in Seq(Buffers) /\ idx \in [Conns -> Buffers \cup {NoBuffer}]
      /\ NoBuffer \notin Buffers
  BY DEF TypeOK, Buffers, NoBuffer
<1>2. /\ free' \in Seq(Buffers) /\ Last(free) \in Buffers
      /\ \A b : Times(free, b) = Times(free', b) + (IF Last(free) = b THEN 1 ELSE 0)
  BY <1>1, FrontLast
<1>3. \A b : Times(free, b) \in Nat /\ Times(free', b) \in Nat
  BY <1>1, <1>2, TimesType
<1>4. ASSUME NEW b \in Buffers
      PROVE  Times(free', b) + Cardinality(Holders(b))' = 1
  <2>1. Times(free, b) + Cardinality(Holders(b)) = 1
    BY DEF BufferCountInv
  <2>2. Cardinality(Holders(b)) \in Nat /\ IsFiniteSet(Holders(b))
    BY HoldersFinite
  <2>3. CASE Last(free) = b
    <3>1. c \notin Holders(b) /\ Holders(b)' = Holders(b) \cup {c}
      BY <1>1, <2>3 DEF Holders
    <3>2. Cardinality(Holders(b)') = Cardinality(Holders(b)) + 1
      BY <2>2, <3>1, FS_AddElement
    <3>3. Times(free, b) = Times(free', b) + 1
      BY <1>2, <2>3
    <3>. QED  BY <1>3, <2>1, <2>2, <3>2, <3>3
  <2>4. CASE Last(free) # b
    <3>1. Holders(b)' = Holders(b)
      BY <1>1, <2>4 DEF Holders
    <3>2. Times(free, b) = Times(free', b)
      BY <1>2, <1>3, <2>4
    <3>. QED  BY <2>1, <3>1, <3>2
  <2>. QED  BY <2>3, <2>4
<1>. QED  BY <1>1, <1>2, <1>4 DEF BufferCountInv

\* releaseCurReadBuffer gives a buffer back once.
LEMMA GiveBuffer ==
    ASSUME TypeOK, BufferCountInv, NEW c \in Conns, ReleaseBuffer(c)
    PROVE  /\ BufferCountInv'
           /\ free' \in Seq(Buffers) /\ idx' \in [Conns -> Buffers \cup {NoBuffer}]
           /\ idx' = [idx EXCEPT ![c] = NoBuffer]
<1>1. /\ free \in Seq(Buffers) /\ idx \in [Conns -> Buffers \cup {NoBuffer}]
      /\ NoBuffer \notin Buffers
  BY DEF TypeOK, Buffers, NoBuffer
<1>2. idx' = [idx EXCEPT ![c] = NoBuffer]
  BY DEF ReleaseBuffer
<1>3. CASE idx[c] = NoBuffer
  <2>1. free' = free /\ idx' = idx
    BY <1>1, <1>2, <1>3 DEF ReleaseBuffer
  <2>. QED  BY <1>1, <1>2, <2>1 DEF BufferCountInv, Holders
<1>4. CASE idx[c] # NoBuffer
  <2>1. idx[c] \in Buffers /\ free' = Append(free, idx[c])
    BY <1>1, <1>4 DEF ReleaseBuffer
  <2>2. /\ free' \in Seq(Buffers)
        /\ \A b : Times(free', b) = Times(free, b) + (IF idx[c] = b THEN 1 ELSE 0)
    BY ONLY <1>1, <2>1, TimesAppend, AppendProperties
  <2>3. \A b : Times(free, b) \in Nat
    BY <1>1, TimesType
  <2>4. ASSUME NEW b \in Buffers
        PROVE  Times(free', b) + Cardinality(Holders(b))' = 1
    <3>1. Times(free, b) + Cardinality(Holders(b)) = 1
      BY DEF BufferCountInv
    <3>2. Cardinality(Holders(b)) \in Nat /\ IsFiniteSet(Holders(b))
      BY HoldersFinite
    <3>3. CASE idx[c] = b
      <4>1. c \in Holders(b) /\ Holders(b)' = Holders(b) \ {c}
        BY <1>1, <1>2, <3>3 DEF Holders
      <4>2. Cardinality(Holders(b)') = Cardinality(Holders(b)) - 1
        BY <3>2, <4>1, FS_RemoveElement
      <4>3. Times(free', b) = Times(free, b) + 1
        BY <2>2, <3>3
      <4>. QED  BY <2>3, <3>1, <3>2, <4>2, <4>3
    <3>4. CASE idx[c] # b
      <4>1. Holders(b)' = Holders(b)
        BY <1>1, <1>2, <3>4 DEF Holders
      <4>2. Times(free', b) = Times(free, b)
        BY <2>2, <2>3, <3>4
      <4>. QED  BY <3>1, <4>1, <4>2
    <3>. QED  BY <3>3, <3>4
  <2>. QED  BY <1>1, <1>2, <2>2, <2>4 DEF BufferCountInv
<1>. QED  BY <1>3, <1>4

LEMMA KeepBuffers ==
    ASSUME BufferCountInv, UNCHANGED bufferVars
    PROVE  BufferCountInv'
BY DEF BufferCountInv, Holders, bufferVars

-----------------------------------------------------------------------------
(* The first state, and the steps of the main loop                          *)

\* Nothing of a connection that has not been accepted is under way.
LEMMA InitHolds == Init => IInv
<1>. SUFFICES ASSUME Init PROVE IInv
  OBVIOUS
<1>1. TypeOK
  <2>1. [i \in 1 .. BufferCount |-> i - 1] \in Seq(Buffers)
    <3>1. \A i \in 1 .. BufferCount : i - 1 \in Buffers
      BY ConstantsAssumption DEF Buffers
    <3>. QED  BY <3>1, ConstantsAssumption, IsASeq
  <2>. QED  BY <2>1 DEF Init, TypeOK, Buffers
<1>2. BufferCountInv
  <2>. SUFFICES ASSUME NEW b \in Buffers
                PROVE  Times(free, b) + Cardinality(Holders(b)) = 1
    BY DEF BufferCountInv
  <2>1. Holders(b) = {}
    BY DEF Init, Holders, Buffers, NoBuffer
  <2>2. {i \in 1 .. Len(free) : free[i] = b} = {b + 1}
    BY ConstantsAssumption DEF Init, Buffers
  <2>3. Cardinality({b + 1}) = 1
    BY FS_Singleton
  <2>4. Times(free, b) = 1
    BY <2>2, <2>3 DEF Times
  <2>5. Cardinality(Holders(b)) = 0
    BY <2>1, FS_EmptySet
  <2>. QED  BY <2>4, <2>5
<1>3. ASSUME NEW c \in Conns PROVE ConnInv(c)
  <2>1. \A kind \in Kinds : InLoop(kind, c) = 0
    BY TimesEmpty DEF InLoop, Init
  <2>2. Removals(c) = 0 /\ \A kind, res : Posted(kind, c, res) = 0
    BY TimesEmpty DEF Removals, Posted, Init
  <2>3. FunctorInv(c)
    BY <2>1, <2>2 DEF FunctorInv, Init, Kinds
  <2>4. LifeInv(c) /\ BufferInv(c) /\ PhaseInv(c) /\ LateInv(c)
    BY DEF LifeInv, BufferInv, PhaseInv, LateInv, Init, Running
  <2>5. RequestInv(c) /\ TimeoutInv(c)
    BY <2>2 DEF RequestInv, TimeoutInv, Init, Reads, Writes, Timeouts, Expiries
  <2>. QED  BY <2>3, <2>4, <2>5 DEF ConnInv
<1>. QED  BY <1>1, <1>2, <1>3 DEF IInv, Init

\* What the counts of a connection are made of, for steps that do not touch cq.
LEMMA KeepPosted ==
    ASSUME cq' = cq
    PROVE  \A c : /\ \A k, r : Posted(k, c, r)' = Posted(k, c, r)
                  /\ Reads(c)' = Reads(c) /\ Writes(c)' = Writes(c)
                  /\ Expiries(c)' = Expiries(c) /\ Timeouts(c)' = Timeouts(c)
                  /\ LateInv(c) => LateInv(c)'
<1>1. \A c, k, r : Posted(k, c, r)' = Posted(k, c, r)
  BY DEF Posted
<1>2. \A c : /\ Reads(c)' = Reads(c) /\ Writes(c)' = Writes(c)
             /\ Expiries(c)' = Expiries(c) /\ Timeouts(c)' = Timeouts(c)
  BY DEF Posted, Reads, Writes, Expiries, Timeouts
<1>3. \A c : LateInv(c) => LateInv(c)'
  BY DEF LateInv
<1>. QED  BY <1>1, <1>2, <1>3

LEMMA KeepFunctors ==
    ASSUME ioQ' = ioQ, batch' = batch
    PROVE  \A c : \A k \in Kinds : InLoop(k, c)' = InLoop(k, c)
BY DEF InLoop

LEMMA KeepRemovals ==
    ASSUME mainQ' = mainQ
    PROVE  \A c : Removals(c)' = Removals(c)
BY DEF Removals

\* A step that touches neither a connection nor what is under way for it.
Untouched(d) ==
    /\ state'[d] = state[d] /\ invoked'[d] = invoked[d] /\ sock'[d] = sock[d]
    /\ coro'[d] = coro[d] /\ idx'[d] = idx[d]
    /\ rd'[d] = rd[d] /\ tm'[d] = tm[d] /\ wr'[d] = wr[d]
    /\ d \in connections' <=> d \in connections
    /\ phase' = phase
    /\ \A k \in Kinds : InLoop(k, d)' = InLoop(k, d)
    /\ Removals(d)' = Removals(d)
    /\ \A k, r : Posted(k, d, r)' = Posted(k, d, r)

LEMMA OthersKeep ==
    ASSUME NEW d \in Conns, ConnInv(d), Untouched(d), LateInv(d)'
    PROVE  ConnInv(d)'
<1>1. /\ state'[d] = state[d] /\ invoked'[d] = invoked[d] /\ sock'[d] = sock[d]
      /\ coro'[d] = coro[d] /\ idx'[d] = idx[d]
      /\ rd'[d] = rd[d] /\ tm'[d] = tm[d] /\ wr'[d] = wr[d]
      /\ d \in connections' <=> d \in connections
      /\ phase' = phase
  BY DEF Untouched
<1>2. /\ InLoop("established", d)' = InLoop("established", d)
      /\ InLoop("close", d)' = InLoop("close", d)
      /\ InLoop("destroyed", d)' = InLoop("destroyed", d)
      /\ Removals(d)' = Removals(d)
  BY DEF Untouched, Kinds
<1>3. \A k, r : Posted(k, d, r)' = Posted(k, d, r)
  BY DEF Untouched
<1>4. /\ Reads(d)' = Reads(d) /\ Writes(d)' = Writes(d)
      /\ Expiries(d)' = Expiries(d) /\ Timeouts(d)' = Timeouts(d)
  BY <1>3 DEF Reads, Writes, Expiries, Timeouts
<1>5. FunctorInv(d)'
  BY <1>1, <1>2 DEF FunctorInv, ConnInv
<1>6. LifeInv(d)' /\ BufferInv(d)' /\ PhaseInv(d)'
  BY <1>1 DEF LifeInv, BufferInv, PhaseInv, ConnInv
<1>7. RequestInv(d)'
  BY <1>1, <1>4 DEF RequestInv, ConnInv
<1>8. TimeoutInv(d)'
  BY <1>1, <1>3, <1>4 DEF TimeoutInv, ConnInv
<1>. QED  BY <1>5, <1>6, <1>7, <1>8 DEF ConnInv

-----------------------------------------------------------------------------
(* The steps of the main loop                                               *)

\* An accepted connection has nothing under way but the functor that establishes it.
LEMMA NewConnectionKeeps ==
    ASSUME IInv, NEW c \in Conns, NewConnection(c)
    PROVE  IInv'
<1>1. TypeOK /\ QueuesOK /\ BufferCountInv /\ \A d \in Conns : ConnInv(d)
  BY QueuesTyped DEF IInv
<1>2. /\ FunctorInv(c) /\ LifeInv(c) /\ RequestInv(c) /\ TimeoutInv(c)
      /\ BufferInv(c) /\ PhaseInv(c)
  BY <1>1 DEF ConnInv
<1>3. /\ state[c] = "none"
      /\ state' = [state EXCEPT ![c] = "connecting"]
      /\ connections' = connections \cup {c}
      /\ ioQ' = Queued(ioQ, <<"established", c>>)
      /\ invoked' = invoked /\ sock' = sock /\ coro' = coro /\ idx' = idx
      /\ free' = free /\ rd' = rd /\ tm' = tm /\ wr' = wr /\ cq' = cq
      /\ peer' = peer /\ mainQ' = mainQ /\ batch' = batch /\ phase' = phase
  BY DEF NewConnection, bufferVars, ringVars
<1>4. /\ ioQ' \in Seq(Tasks)
      /\ \A d \in Conns : /\ d # c => \A k \in Kinds : InLoop(k, d)' = InLoop(k, d)
                          /\ Removals(d)' = Removals(d)
                          /\ \A k, r : Posted(k, d, r)' = Posted(k, d, r)
                          /\ LateInv(d)'
      /\ \A k \in Kinds \ {"established"} : InLoop(k, c)' = InLoop(k, c)
      /\ InLoop("established", c)' \in {InLoop("established", c), InLoop("established", c) + 1}
  <2>1. "established" \in Kinds
    BY DEF Kinds
  <2>2. /\ ioQ' \in Seq(Tasks)
        /\ \E n \in {0, 1} : \A k \in Kinds, d \in Conns :
               InLoop(k, d)' = InLoop(k, d) + (IF k = "established" /\ d = c THEN n ELSE 0)
    BY <1>1, <1>3, <2>1, QueueTask
  <2>3. \A k \in Kinds, d \in Conns : InLoop(k, d) \in Nat
    BY <1>1, CountsAreNat
  <2>4. /\ \A d \in Conns : d # c => \A k \in Kinds : InLoop(k, d)' = InLoop(k, d)
        /\ \A k \in Kinds \ {"established"} : InLoop(k, c)' = InLoop(k, c)
        /\ InLoop("established", c)' \in {InLoop("established", c), InLoop("established", c) + 1}
    BY <2>1, <2>2, <2>3
  <2>. QED  BY <1>1, <1>3, <2>2, <2>4, KeepPosted, KeepRemovals DEF ConnInv
<1>5. BufferCountInv'
  BY <1>1, <1>3, KeepBuffers DEF bufferVars
<1>6. TypeOK'
  BY <1>1, <1>3, <1>4 DEF TypeOK
<1>7. ASSUME NEW d \in Conns, d # c PROVE ConnInv(d)'
  <2>1. Untouched(d)
    BY <1>1, <1>3, <1>4, <1>7 DEF Untouched, TypeOK
  <2>. QED  BY <1>1, <1>4, <2>1, OthersKeep DEF ConnInv
<1>8. /\ InLoop("established", c) \in Nat /\ InLoop("close", c) \in Nat
      /\ InLoop("destroyed", c) \in Nat /\ Removals(c) \in Nat
      /\ \A k, r : Posted(k, c, r) \in Nat
  BY <1>1, CountsAreNat DEF Kinds
<1>9. /\ Posted("timeout", c, "time")' = Posted("timeout", c, "time")
      /\ Posted("timeout", c, "late")' = Posted("timeout", c, "late")
      /\ Posted("read", c, "data")' = Posted("read", c, "data")
      /\ Posted("read", c, "end")' = Posted("read", c, "end")
      /\ Reads(c)' = Reads(c) /\ Writes(c)' = Writes(c)
      /\ Expiries(c)' = Expiries(c) /\ Timeouts(c)' = Timeouts(c)
      /\ Reads(c) \in Nat /\ Writes(c) \in Nat /\ Expiries(c) \in Nat
      /\ Timeouts(c) \in Nat
  <2>1. /\ Posted("read", c, "data")' = Posted("read", c, "data")
        /\ Posted("read", c, "end")' = Posted("read", c, "end")
        /\ Posted("read", c, "canceled")' = Posted("read", c, "canceled")
        /\ Posted("write", c, "ok")' = Posted("write", c, "ok")
        /\ Posted("write", c, "error")' = Posted("write", c, "error")
        /\ Posted("timeout", c, "canceled")' = Posted("timeout", c, "canceled")
        /\ Posted("timeout", c, "time")' = Posted("timeout", c, "time")
        /\ Posted("timeout", c, "late")' = Posted("timeout", c, "late")
    BY <1>4
  <2>. QED  BY <1>8, <2>1 DEF Reads, Writes, Expiries, Timeouts
<1>10. FunctorInv(c)'
  BY <1>1, <1>2, <1>3, <1>4, <1>8 DEF FunctorInv, LifeInv, TypeOK, Kinds
<1>11. LifeInv(c)'
  BY <1>1, <1>2, <1>3, <1>4, <1>8 DEF FunctorInv, LifeInv, TypeOK, Kinds
<1>12. RequestInv(c)'
  BY <1>1, <1>2, <1>3, <1>9 DEF RequestInv, TypeOK
<1>13. TimeoutInv(c)'
  BY <1>1, <1>2, <1>3, <1>8, <1>9
     DEF RequestInv, TimeoutInv, TypeOK
<1>14. BufferInv(c)' /\ PhaseInv(c)'
  BY <1>1, <1>2, <1>3, <1>8 DEF BufferInv, PhaseInv, TypeOK, Running
<1>. QED
  BY <1>3, <1>4, <1>5, <1>6, <1>7, <1>10, <1>11, <1>12, <1>13, <1>14 DEF IInv, ConnInv

\* What the peer does concerns only the requests to come.
LEMMA PeerLeavesKeeps ==
    ASSUME IInv, NEW c \in Conns, PeerLeaves(c)
    PROVE  IInv'
<1>1. TypeOK /\ QueuesOK /\ BufferCountInv /\ \A d \in Conns : ConnInv(d)
  BY QueuesTyped DEF IInv
<1>2. /\ FunctorInv(c) /\ LifeInv(c) /\ RequestInv(c) /\ TimeoutInv(c)
      /\ BufferInv(c) /\ PhaseInv(c)
  BY <1>1 DEF ConnInv
<1>3. /\ peer' \in [Conns -> {"alive", "closed", "gone"}]
      /\ connections' = connections /\ state' = state /\ invoked' = invoked
      /\ sock' = sock /\ coro' = coro /\ idx' = idx /\ free' = free
      /\ rd' = rd /\ tm' = tm /\ wr' = wr /\ cq' = cq /\ mainQ' = mainQ
      /\ ioQ' = ioQ /\ batch' = batch /\ phase' = phase
  BY <1>1 DEF PeerLeaves, lifeVars, bufferVars, ringVars, taskVars, TypeOK
<1>4. \A d \in Conns : /\ \A k \in Kinds : InLoop(k, d)' = InLoop(k, d)
                       /\ Removals(d)' = Removals(d)
                       /\ \A k, r : Posted(k, d, r)' = Posted(k, d, r)
                       /\ LateInv(d)'
  BY <1>1, <1>3, KeepPosted, KeepFunctors, KeepRemovals DEF ConnInv
<1>5. BufferCountInv'
  BY <1>1, <1>3, KeepBuffers DEF bufferVars
<1>6. TypeOK'
  BY <1>1, <1>3 DEF TypeOK
<1>7. ASSUME NEW d \in Conns, d # c PROVE ConnInv(d)'
  <2>1. Untouched(d)
    BY <1>1, <1>3, <1>4, <1>7 DEF Untouched, TypeOK
  <2>. QED  BY <1>1, <1>4, <2>1, OthersKeep DEF ConnInv
<1>8. /\ InLoop("established", c) \in Nat /\ InLoop("close", c) \in Nat
      /\ InLoop("destroyed", c) \in Nat /\ Removals(c) \in Nat
      /\ \A k, r : Posted(k, c, r) \in Nat
  BY <1>1, CountsAreNat DEF Kinds
<1>9. /\ Posted("timeout", c, "time")' = Posted("timeout", c, "time")
      /\ Posted("timeout", c, "late")' = Posted("timeout", c, "late")
      /\ Posted("read", c, "data")' = Posted("read", c, "data")
      /\ Posted("read", c, "end")' = Posted("read", c, "end")
      /\ Reads(c)' = Reads(c) /\ Writes(c)' = Writes(c)
      /\ Expiries(c)' = Expiries(c) /\ Timeouts(c)' = Timeouts(c)
      /\ Reads(c) \in Nat /\ Writes(c) \in Nat /\ Expiries(c) \in Nat
      /\ Timeouts(c) \in Nat
  <2>1. /\ Posted("read", c, "data")' = Posted("read", c, "data")
        /\ Posted("read", c, "end")' = Posted("read", c, "end")
        /\ Posted("read", c, "canceled")' = Posted("read", c, "canceled")
        /\ Posted("write", c, "ok")' = Posted("write", c, "ok")
        /\ Posted("write", c, "error")' = Posted("write", c, "error")
        /\ Posted("timeout", c, "canceled")' = Posted("timeout", c, "canceled")
        /\ Posted("timeout", c, "time")' = Posted("timeout", c, "time")
        /\ Posted("timeout", c, "late")' = Posted("timeout", c, "late")
    BY <1>4
  <2>. QED  BY <1>8, <2>1 DEF Reads, Writes, Expiries, Timeouts
<1>10. FunctorInv(c)'
  BY <1>1, <1>2, <1>3, <1>4, <1>8 DEF FunctorInv, LifeInv, TypeOK, Kinds
<1>11. LifeInv(c)'
  BY <1>1, <1>2, <1>3, <1>4, <1>8 DEF FunctorInv, LifeInv, TypeOK, Kinds
<1>12. RequestInv(c)'
  BY <1>1, <1>2, <1>3, <1>9 DEF RequestInv, TypeOK
<1>13. TimeoutInv(c)'
  BY <1>1, <1>2, <1>3, <1>8, <1>9
     DEF RequestInv, TimeoutInv, TypeOK
<1>14. BufferInv(c)' /\ PhaseInv(c)'
  BY <1>1, <1>2, <1>3, <1>8 DEF BufferInv, PhaseInv, TypeOK, Running
<1>. QED
  BY <1>3, <1>4, <1>5, <1>6, <1>7, <1>10, <1>11, <1>12, <1>13, <1>14 DEF IInv, ConnInv

-----------------------------------------------------------------------------
(* The steps of the coroutine                                               *)

\* A write is requested by the coroutine that waits for it.
LEMMA AsyncSendKeeps ==
    ASSUME IInv, NEW c \in Conns, AsyncSend(c)
    PROVE  IInv'
<1>1. TypeOK /\ QueuesOK /\ BufferCountInv /\ \A d \in Conns : ConnInv(d)
  BY QueuesTyped DEF IInv
<1>2. /\ FunctorInv(c) /\ LifeInv(c) /\ RequestInv(c) /\ TimeoutInv(c)
      /\ BufferInv(c) /\ PhaseInv(c)
  BY <1>1 DEF ConnInv
<1>3. /\ coro[c] = "send"
      /\ coro' = [coro EXCEPT ![c] = "writing"]
      /\ wr' = wr \/ wr' = [wr EXCEPT ![c] = "prepared"]
      /\ connections' = connections /\ state' = state /\ invoked' = invoked
      /\ sock' = sock /\ idx' = idx /\ free' = free /\ rd' = rd /\ tm' = tm
      /\ cq' = cq /\ peer' = peer /\ mainQ' = mainQ /\ ioQ' = ioQ
      /\ batch' = batch /\ phase' = phase
  BY DEF AsyncSend, SubmitWrite, lifeVars, bufferVars, taskVars
<1>4. \A d \in Conns : /\ \A k \in Kinds : InLoop(k, d)' = InLoop(k, d)
                       /\ Removals(d)' = Removals(d)
                       /\ \A k, r : Posted(k, d, r)' = Posted(k, d, r)
                       /\ LateInv(d)'
  BY <1>1, <1>3, KeepPosted, KeepFunctors, KeepRemovals DEF ConnInv
<1>5. BufferCountInv'
  BY <1>1, <1>3, KeepBuffers DEF bufferVars
<1>6. TypeOK'
  BY <1>1, <1>3 DEF TypeOK, Running, Suspended
<1>7. ASSUME NEW d \in Conns, d # c PROVE ConnInv(d)'
  <2>1. Untouched(d)
    BY <1>1, <1>3, <1>4, <1>7 DEF Untouched, TypeOK
  <2>. QED  BY <1>1, <1>4, <2>1, OthersKeep DEF ConnInv
<1>8. /\ InLoop("established", c) \in Nat /\ InLoop("close", c) \in Nat
      /\ InLoop("destroyed", c) \in Nat /\ Removals(c) \in Nat
      /\ \A k, r : Posted(k, c, r) \in Nat
  BY <1>1, CountsAreNat DEF Kinds
<1>9. /\ Posted("timeout", c, "time")' = Posted("timeout", c, "time")
      /\ Posted("timeout", c, "late")' = Posted("timeout", c, "late")
      /\ Posted("read", c, "data")' = Posted("read", c, "data")
      /\ Posted("read", c, "end")' = Posted("read", c, "end")
      /\ Reads(c)' = Reads(c) /\ Writes(c)' = Writes(c)
      /\ Expiries(c)' = Expiries(c) /\ Timeouts(c)' = Timeouts(c)
      /\ Reads(c) \in Nat /\ Writes(c) \in Nat /\ Expiries(c) \in Nat
      /\ Timeouts(c) \in Nat
  <2>1. /\ Posted("read", c, "data")' = Posted("read", c, "data")
        /\ Posted("read", c, "end")' = Posted("read", c, "end")
        /\ Posted("read", c, "canceled")' = Posted("read", c, "canceled")
        /\ Posted("write", c, "ok")' = Posted("write", c, "ok")
        /\ Posted("write", c, "error")' = Posted("write", c, "error")
        /\ Posted("timeout", c, "canceled")' = Posted("timeout", c, "canceled")
        /\ Posted("timeout", c, "time")' = Posted("timeout", c, "time")
        /\ Posted("timeout", c, "late")' = Posted("timeout", c, "late")
    BY <1>4
  <2>. QED  BY <1>8, <2>1 DEF Reads, Writes, Expiries, Timeouts
<1>10. FunctorInv(c)'
  BY <1>1, <1>2, <1>3, <1>4, <1>8 DEF FunctorInv, LifeInv, TypeOK, Kinds
<1>11. LifeInv(c)'
  BY <1>1, <1>2, <1>3, <1>4, <1>8 DEF FunctorInv, LifeInv, TypeOK, Kinds
<1>12. RequestInv(c)'
  BY <1>1, <1>2, <1>3, <1>9 DEF RequestInv, TypeOK
<1>13. TimeoutInv(c)'
  BY <1>1, <1>2, <1>3, <1>8, <1>9
     DEF RequestInv, TimeoutInv, TypeOK
<1>14. BufferInv(c)' /\ PhaseInv(c)'
  BY <1>1, <1>2, <1>3, <1>8 DEF BufferInv, PhaseInv, TypeOK, Running
<1>. QED
  BY <1>3, <1>4, <1>5, <1>6, <1>7, <1>10, <1>11, <1>12, <1>13, <1>14 DEF IInv, ConnInv

\* A read is requested with a free buffer, its timeout linked to it, or not at all.
LEMMA AsyncReadKeeps ==
    ASSUME IInv, NEW c \in Conns, AsyncRead(c)
    PROVE  IInv'
<1>1. TypeOK /\ QueuesOK /\ BufferCountInv /\ \A d \in Conns : ConnInv(d)
  BY QueuesTyped DEF IInv
<1>2. /\ FunctorInv(c) /\ LifeInv(c) /\ RequestInv(c) /\ TimeoutInv(c)
      /\ BufferInv(c) /\ PhaseInv(c)
  BY <1>1 DEF ConnInv
<1>3. /\ coro[c] = "read"
      /\ coro' = [coro EXCEPT ![c] = "reading"]
      /\ \/ UNCHANGED <<idx, free, rd, tm>>
         \/ /\ state[c] = "connected" /\ free # <<>>
            /\ idx' = [idx EXCEPT ![c] = Last(free)] /\ free' = Front(free)
            /\ rd' = [rd EXCEPT ![c] = "prepared"]
            /\ tm' = tm \/ tm' = [tm EXCEPT ![c] = "prepared"]
      /\ connections' = connections /\ state' = state /\ invoked' = invoked
      /\ sock' = sock /\ wr' = wr /\ cq' = cq /\ peer' = peer
      /\ mainQ' = mainQ /\ ioQ' = ioQ /\ batch' = batch /\ phase' = phase
  BY DEF AsyncRead, SubmitRead, lifeVars, bufferVars, ringVars, taskVars
<1>4. \A d \in Conns : /\ \A k \in Kinds : InLoop(k, d)' = InLoop(k, d)
                       /\ Removals(d)' = Removals(d)
                       /\ \A k, r : Posted(k, d, r)' = Posted(k, d, r)
                       /\ LateInv(d)'
  BY <1>1, <1>3, KeepPosted, KeepFunctors, KeepRemovals DEF ConnInv
<1>4b. /\ rd[c] = "none" /\ tm[c] = "none" /\ Expiries(c) = 0
       /\ Posted("timeout", c, "late") = 0 /\ Posted("timeout", c, "time") = 0
  <2>1. \A k, r : Posted(k, c, r) \in Nat
    BY <1>1, CountsAreNat
  <2>. QED
    BY <1>1, <1>2, <1>3, <2>1 DEF RequestInv, TimeoutInv, TypeOK, Expiries
<1>5. /\ BufferCountInv'
      /\ free' \in Seq(Buffers) /\ idx' \in [Conns -> Buffers \cup {NoBuffer}]
  <2>1. idx[c] = NoBuffer
    BY <1>2, <1>3 DEF BufferInv
  <2>2. CASE UNCHANGED <<idx, free, rd, tm>>
    BY <1>1, <2>2, KeepBuffers DEF bufferVars, TypeOK
  <2>3. CASE /\ free # <<>> /\ free' = Front(free)
             /\ idx' = [idx EXCEPT ![c] = Last(free)]
    BY <1>1, <2>1, <2>3, TakeBuffer
  <2>. QED  BY <1>3, <2>2, <2>3
<1>6. TypeOK'
  BY <1>1, <1>3, <1>5 DEF TypeOK, Running, Suspended
<1>7. ASSUME NEW d \in Conns, d # c PROVE ConnInv(d)'
  <2>1. Untouched(d)
    BY <1>1, <1>3, <1>4, <1>7 DEF Untouched, TypeOK
  <2>. QED  BY <1>1, <1>4, <2>1, OthersKeep DEF ConnInv
<1>8. /\ InLoop("established", c) \in Nat /\ InLoop("close", c) \in Nat
      /\ InLoop("destroyed", c) \in Nat /\ Removals(c) \in Nat
      /\ \A k, r : Posted(k, c, r) \in Nat
  BY <1>1, CountsAreNat DEF Kinds
<1>9. /\ Posted("timeout", c, "time")' = Posted("timeout", c, "time")
      /\ Posted("timeout", c, "late")' = Posted("timeout", c, "late")
      /\ Posted("read", c, "data")' = Posted("read", c, "data")
      /\ Posted("read", c, "end")' = Posted("read", c, "end")
      /\ Reads(c)' = Reads(c) /\ Writes(c)' = Writes(c)
      /\ Expiries(c)' = Expiries(c) /\ Timeouts(c)' = Timeouts(c)
      /\ Reads(c) \in Nat /\ Writes(c) \in Nat /\ Expiries(c) \in Nat
      /\ Timeouts(c) \in Nat
  <2>1. /\ Posted("read", c, "data")' = Posted("read", c, "data")
        /\ Posted("read", c, "end")' = Posted("read", c, "end")
        /\ Posted("read", c, "canceled")' = Posted("read", c, "canceled")
        /\ Posted("write", c, "ok")' = Posted("write", c, "ok")
        /\ Posted("write", c, "error")' = Posted("write", c, "error")
        /\ Posted("timeout", c, "canceled")' = Posted("timeout", c, "canceled")
        /\ Posted("timeout", c, "time")' = Posted("timeout", c, "time")
        /\ Posted("timeout", c, "late")' = Posted("timeout", c, "late")
    BY <1>4
  <2>. QED  BY <1>8, <2>1 DEF Reads, Writes, Expiries, Timeouts
<1>10. FunctorInv(c)'
  BY <1>1, <1>2, <1>3, <1>4, <1>8 DEF FunctorInv, LifeInv, TypeOK, Kinds
<1>11. LifeInv(c)'
  BY <1>1, <1>2, <1>3, <1>4, <1>4b, <1>8 DEF FunctorInv, LifeInv, TypeOK, Kinds
<1>12. RequestInv(c)'
  BY <1>1, <1>2, <1>3, <1>4b, <1>9 DEF RequestInv, TypeOK
<1>13. TimeoutInv(c)'
  BY <1>1, <1>2, <1>3, <1>4b, <1>8, <1>9
     DEF RequestInv, TimeoutInv, TypeOK
<1>14. BufferInv(c)' /\ PhaseInv(c)'
  BY <1>1, <1>2, <1>3, <1>4b, <1>8 DEF BufferInv, PhaseInv, TypeOK, Running
<1>. QED
  BY <1>3, <1>4, <1>5, <1>6, <1>7, <1>10, <1>11, <1>12, <1>13, <1>14 DEF IInv, ConnInv

\* The coroutine has consumed its data and given the buffer back.
LEMMA ConsumeKeeps ==
    ASSUME IInv, NEW c \in Conns, Consume(c)
    PROVE  IInv'
<1>1. TypeOK /\ QueuesOK /\ BufferCountInv /\ \A d \in Conns : ConnInv(d)
  BY QueuesTyped DEF IInv
<1>2. /\ FunctorInv(c) /\ LifeInv(c) /\ RequestInv(c) /\ TimeoutInv(c)
      /\ BufferInv(c) /\ PhaseInv(c)
  BY <1>1 DEF ConnInv
<1>3. /\ coro[c] = "got" /\ ReleaseBuffer(c)
      /\ idx' = [idx EXCEPT ![c] = NoBuffer]
      /\ coro' = [coro EXCEPT ![c] = "read"] \/ coro' = [coro EXCEPT ![c] = "send"]
      /\ connections' = connections /\ state' = state /\ invoked' = invoked
      /\ sock' = sock /\ rd' = rd /\ tm' = tm /\ wr' = wr /\ cq' = cq
      /\ peer' = peer /\ mainQ' = mainQ /\ ioQ' = ioQ /\ batch' = batch
      /\ phase' = phase
  BY DEF Consume, ReleaseBuffer, lifeVars, ringVars, taskVars
<1>4. \A d \in Conns : /\ \A k \in Kinds : InLoop(k, d)' = InLoop(k, d)
                       /\ Removals(d)' = Removals(d)
                       /\ \A k, r : Posted(k, d, r)' = Posted(k, d, r)
                       /\ LateInv(d)'
  BY <1>1, <1>3, KeepPosted, KeepFunctors, KeepRemovals DEF ConnInv
<1>5. /\ BufferCountInv'
      /\ free' \in Seq(Buffers) /\ idx' \in [Conns -> Buffers \cup {NoBuffer}]
  BY <1>1, <1>3, GiveBuffer
<1>6. TypeOK'
  BY <1>1, <1>3, <1>5 DEF TypeOK, Running, Suspended
<1>7. ASSUME NEW d \in Conns, d # c PROVE ConnInv(d)'
  <2>1. Untouched(d)
    BY <1>1, <1>3, <1>4, <1>7 DEF Untouched, TypeOK
  <2>. QED  BY <1>1, <1>4, <2>1, OthersKeep DEF ConnInv
<1>8. /\ InLoop("established", c) \in Nat /\ InLoop("close", c) \in Nat
      /\ InLoop("destroyed", c) \in Nat /\ Removals(c) \in Nat
      /\ \A k, r : Posted(k, c, r) \in Nat
  BY <1>1, CountsAreNat DEF Kinds
<1>9. /\ Posted("timeout", c, "time")' = Posted("timeout", c, "time")
      /\ Posted("timeout", c, "late")' = Posted("timeout", c, "late")
      /\ Posted("read", c, "data")' = Posted("read", c, "data")
      /\ Posted("read", c, "end")' = Posted("read", c, "end")
      /\ Reads(c)' = Reads(c) /\ Writes(c)' = Writes(c)
      /\ Expiries(c)' = Expiries(c) /\ Timeouts(c)' = Timeouts(c)
      /\ Reads(c) \in Nat /\ Writes(c) \in Nat /\ Expiries(c) \in Nat
      /\ Timeouts(c) \in Nat
  <2>1. /\ Posted("read", c, "data")' = Posted("read", c, "data")
        /\ Posted("read", c, "end")' = Posted("read", c, "end")
        /\ Posted("read", c, "canceled")' = Posted("read", c, "canceled")
        /\ Posted("write", c, "ok")' = Posted("write", c, "ok")
        /\ Posted("write", c, "error")' = Posted("write", c, "error")
        /\ Posted("timeout", c, "canceled")' = Posted("timeout", c, "canceled")
        /\ Posted("timeout", c, "time")' = Posted("timeout", c, "time")
        /\ Posted("timeout", c, "late")' = Posted("timeout", c, "late")
    BY <1>4
  <2>. QED  BY <1>8, <2>1 DEF Reads, Writes, Expiries, Timeouts
<1>10. FunctorInv(c)'
  BY <1>1, <1>2, <1>3, <1>4, <1>8 DEF FunctorInv, LifeInv, TypeOK, Kinds
<1>11. LifeInv(c)'
  BY <1>1, <1>2, <1>3, <1>4, <1>8 DEF FunctorInv, LifeInv, TypeOK, Kinds
<1>12. RequestInv(c)'
  BY <1>1, <1>2, <1>3, <1>9 DEF RequestInv, TypeOK
<1>13. TimeoutInv(c)'
  BY <1>1, <1>2, <1>3, <1>8, <1>9
     DEF RequestInv, TimeoutInv, TypeOK
<1>14. BufferInv(c)' /\ PhaseInv(c)'
  BY <1>1, <1>2, <1>3, <1>8 DEF BufferInv, PhaseInv, TypeOK, Running
<1>. QED
  BY <1>3, <1>4, <1>5, <1>6, <1>7, <1>10, <1>11, <1>12, <1>13, <1>14 DEF IInv, ConnInv

\* forceClose queues handleClose for a connected connection.
LEMMA ForceCloseQueues ==
    ASSUME QueuesOK, NEW c \in Conns, ForceClose(c), batch' = batch
    PROVE  /\ ioQ' \in Seq(Tasks)
           /\ \A d \in Conns : d # c => \A k \in Kinds : InLoop(k, d)' = InLoop(k, d)
           /\ \A k \in Kinds \ {"close"} : InLoop(k, c)' = InLoop(k, c)
           /\ InLoop("close", c)' \in {InLoop("close", c), InLoop("close", c) + 1}
           /\ state[c] # "connected" => InLoop("close", c)' = InLoop("close", c)
<1>1. CASE state[c] = "connected"
  <2>1. "close" \in Kinds /\ ioQ' = Queued(ioQ, <<"close", c>>)
    BY <1>1 DEF Kinds, ForceClose
  <2>2. /\ ioQ' \in Seq(Tasks)
        /\ \E n \in {0, 1} : \A k \in Kinds, d \in Conns :
               InLoop(k, d)' = InLoop(k, d) + (IF k = "close" /\ d = c THEN n ELSE 0)
    BY <2>1, QueueTask
  <2>3. \A k \in Kinds, d \in Conns : InLoop(k, d) \in Nat
    BY CountsAreNat
  <2>. QED  BY <1>1, <2>1, <2>2, <2>3
<1>2. CASE state[c] # "connected"
  <2>1. ioQ' = ioQ
    BY <1>2 DEF ForceClose
  <2>2. \A d \in Conns : \A k \in Kinds : InLoop(k, d)' = InLoop(k, d)
    BY <2>1, KeepFunctors
  <2>. QED  BY <1>2, <2>1, <2>2 DEF QueuesOK, Kinds
<1>. QED  BY <1>1, <1>2

\* A connected connection has no closing functor yet: forceClose queues the only one.
LEMMA CloseKeeps ==
    ASSUME IInv, NEW c \in Conns, Close(c)
    PROVE  IInv'
<1>1. TypeOK /\ QueuesOK /\ BufferCountInv /\ \A d \in Conns : ConnInv(d)
  BY QueuesTyped DEF IInv
<1>2. /\ FunctorInv(c) /\ LifeInv(c) /\ RequestInv(c) /\ TimeoutInv(c)
      /\ BufferInv(c) /\ PhaseInv(c)
  BY <1>1 DEF ConnInv
<1>3. /\ coro[c] = "close"
      /\ coro' = [coro EXCEPT ![c] = "done"]
      /\ ForceClose(c)
      /\ state' = [state EXCEPT ![c] = IF @ = "connected" THEN "disconnecting" ELSE @]
      /\ connections' = connections /\ invoked' = invoked /\ sock' = sock
      /\ idx' = idx /\ free' = free /\ rd' = rd /\ tm' = tm /\ wr' = wr
      /\ cq' = cq /\ peer' = peer /\ mainQ' = mainQ /\ batch' = batch
      /\ phase' = phase
  BY <1>1 DEF Close, ForceClose, TypeOK, bufferVars, ringVars
<1>4. /\ ioQ' \in Seq(Tasks)
      /\ \A d \in Conns : /\ d # c => \A k \in Kinds : InLoop(k, d)' = InLoop(k, d)
                          /\ Removals(d)' = Removals(d)
                          /\ \A k, r : Posted(k, d, r)' = Posted(k, d, r)
                          /\ LateInv(d)'
      /\ \A k \in Kinds \ {"close"} : InLoop(k, c)' = InLoop(k, c)
      /\ InLoop("close", c)' \in {InLoop("close", c), InLoop("close", c) + 1}
      /\ state[c] # "connected" => InLoop("close", c)' = InLoop("close", c)
  <2>1. /\ ioQ' \in Seq(Tasks)
        /\ \A d \in Conns : d # c => \A k \in Kinds : InLoop(k, d)' = InLoop(k, d)
        /\ \A k \in Kinds \ {"close"} : InLoop(k, c)' = InLoop(k, c)
        /\ InLoop("close", c)' \in {InLoop("close", c), InLoop("close", c) + 1}
        /\ state[c] # "connected" => InLoop("close", c)' = InLoop("close", c)
    BY <1>1, <1>3, ForceCloseQueues
  <2>. QED  BY <1>1, <1>3, <2>1, KeepPosted, KeepRemovals DEF ConnInv
<1>5. BufferCountInv'
  BY <1>1, <1>3, KeepBuffers DEF bufferVars
<1>6. TypeOK'
  BY <1>1, <1>3, <1>4 DEF TypeOK, Running, Suspended
<1>7. ASSUME NEW d \in Conns, d # c PROVE ConnInv(d)'
  <2>1. Untouched(d)
    BY <1>1, <1>3, <1>4, <1>7 DEF Untouched, TypeOK
  <2>. QED  BY <1>1, <1>4, <2>1, OthersKeep DEF ConnInv
<1>8. /\ InLoop("established", c) \in Nat /\ InLoop("close", c) \in Nat
      /\ InLoop("destroyed", c) \in Nat /\ Removals(c) \in Nat
      /\ \A k, r : Posted(k, c, r) \in Nat
  BY <1>1, CountsAreNat DEF Kinds
<1>9. /\ Posted("timeout", c, "time")' = Posted("timeout", c, "time")
      /\ Posted("timeout", c, "late")' = Posted("timeout", c, "late")
      /\ Posted("read", c, "data")' = Posted("read", c, "data")
      /\ Posted("read", c, "end")' = Posted("read", c, "end")
      /\ Reads(c)' = Reads(c) /\ Writes(c)' = Writes(c)
      /\ Expiries(c)' = Expiries(c) /\ Timeouts(c)' = Timeouts(c)
      /\ Reads(c) \in Nat /\ Writes(c) \in Nat /\ Expiries(c) \in Nat
      /\ Timeouts(c) \in Nat
  <2>1. /\ Posted("read", c, "data")' = Posted("read", c, "data")
        /\ Posted("read", c, "end")' = Posted("read", c, "end")
        /\ Posted("read", c, "canceled")' = Posted("read", c, "canceled")
        /\ Posted("write", c, "ok")' = Posted("write", c, "ok")
        /\ Posted("write", c, "error")' = Posted("write", c, "error")
        /\ Posted("timeout", c, "canceled")' = Posted("timeout", c, "canceled")
        /\ Posted("timeout", c, "time")' = Posted("timeout", c, "time")
        /\ Posted("timeout", c, "late")' = Posted("timeout", c, "late")
    BY <1>4
  <2>. QED  BY <1>8, <2>1 DEF Reads, Writes, Expiries, Timeouts
<1>10. FunctorInv(c)'
  BY SMTT(60), <1>1, <1>2, <1>3, <1>4, <1>8 DEF FunctorInv, LifeInv, TypeOK, Kinds
<1>11. LifeInv(c)'
  BY <1>1, <1>2, <1>3, <1>4, <1>8 DEF FunctorInv, LifeInv, TypeOK, Kinds
<1>12. RequestInv(c)'
  BY <1>1, <1>2, <1>3, <1>9 DEF RequestInv, TypeOK
<1>13. TimeoutInv(c)'
  BY <1>1, <1>2, <1>3, <1>8, <1>9
     DEF RequestInv, TimeoutInv, TypeOK, PhaseInv, Running
<1>14. BufferInv(c)' /\ PhaseInv(c)'
  BY <1>1, <1>2, <1>3, <1>8 DEF BufferInv, PhaseInv, TypeOK, Running
<1>. QED
  BY <1>3, <1>4, <1>5, <1>6, <1>7, <1>10, <1>11, <1>12, <1>13, <1>14 DEF IInv, ConnInv

\* A half-closing coroutine has no request in the ring.
LEMMA ShutdownKeeps ==
    ASSUME IInv, NEW c \in Conns, Shutdown(c)
    PROVE  IInv'
<1>1. TypeOK /\ QueuesOK /\ BufferCountInv /\ \A d \in Conns : ConnInv(d)
  BY QueuesTyped DEF IInv
<1>2. /\ FunctorInv(c) /\ LifeInv(c) /\ RequestInv(c) /\ TimeoutInv(c)
      /\ BufferInv(c) /\ PhaseInv(c)
  BY <1>1 DEF ConnInv
<1>3. /\ coro[c] = "half"
      /\ coro' = [coro EXCEPT ![c] = "read"]
      /\ state' = [state EXCEPT ![c] = IF @ = "connected" THEN "disconnecting" ELSE @]
      /\ connections' = connections /\ invoked' = invoked /\ sock' = sock
      /\ idx' = idx /\ free' = free /\ rd' = rd /\ tm' = tm /\ wr' = wr
      /\ cq' = cq /\ peer' = peer /\ mainQ' = mainQ /\ ioQ' = ioQ
      /\ batch' = batch /\ phase' = phase
  BY DEF Shutdown, bufferVars, ringVars, taskVars
<1>4. \A d \in Conns : /\ \A k \in Kinds : InLoop(k, d)' = InLoop(k, d)
                       /\ Removals(d)' = Removals(d)
                       /\ \A k, r : Posted(k, d, r)' = Posted(k, d, r)
                       /\ LateInv(d)'
  BY <1>1, <1>3, KeepPosted, KeepFunctors, KeepRemovals DEF ConnInv
<1>5. BufferCountInv'
  BY <1>1, <1>3, KeepBuffers DEF bufferVars
<1>6. TypeOK'
  BY <1>1, <1>3 DEF TypeOK, Running, Suspended
<1>7. ASSUME NEW d \in Conns, d # c PROVE ConnInv(d)'
  <2>1. Untouched(d)
    BY <1>1, <1>3, <1>4, <1>7 DEF Untouched, TypeOK
  <2>. QED  BY <1>1, <1>4, <2>1, OthersKeep DEF ConnInv
<1>8. /\ InLoop("established", c) \in Nat /\ InLoop("close", c) \in Nat
      /\ InLoop("destroyed", c) \in Nat /\ Removals(c) \in Nat
      /\ \A k, r : Posted(k, c, r) \in Nat
  BY <1>1, CountsAreNat DEF Kinds
<1>9. /\ Posted("timeout", c, "time")' = Posted("timeout", c, "time")
      /\ Posted("timeout", c, "late")' = Posted("timeout", c, "late")
      /\ Posted("read", c, "data")' = Posted("read", c, "data")
      /\ Posted("read", c, "end")' = Posted("read", c, "end")
      /\ Reads(c)' = Reads(c) /\ Writes(c)' = Writes(c)
      /\ Expiries(c)' = Expiries(c) /\ Timeouts(c)' = Timeouts(c)
      /\ Reads(c) \in Nat /\ Writes(c) \in Nat /\ Expiries(c) \in Nat
      /\ Timeouts(c) \in Nat
  <2>1. /\ Posted("read", c, "data")' = Posted("read", c, "data")
        /\ Posted("read", c, "end")' = Posted("read", c, "end")
        /\ Posted("read", c, "canceled")' = Posted("read", c, "canceled")
        /\ Posted("write", c, "ok")' = Posted("write", c, "ok")
        /\ Posted("write", c, "error")' = Posted("write", c, "error")
        /\ Posted("timeout", c, "canceled")' = Posted("timeout", c, "canceled")
        /\ Posted("timeout", c, "time")' = Posted("timeout", c, "time")
        /\ Posted("timeout", c, "late")' = Posted("timeout", c, "late")
    BY <1>4
  <2>. QED  BY <1>8, <2>1 DEF Reads, Writes, Expiries, Timeouts
<1>10. FunctorInv(c)'
  BY <1>1, <1>2, <1>3, <1>4, <1>8 DEF FunctorInv, LifeInv, TypeOK, Kinds
<1>11. LifeInv(c)'
  BY <1>1, <1>2, <1>3, <1>4, <1>8 DEF FunctorInv, LifeInv, TypeOK, Kinds
<1>12. RequestInv(c)'
  BY <1>1, <1>2, <1>3, <1>9 DEF RequestInv, TypeOK
<1>13. TimeoutInv(c)'
  BY <1>1, <1>2, <1>3, <1>8, <1>9
     DEF RequestInv, TimeoutInv, TypeOK, Expiries, PhaseInv, Running
<1>14. BufferInv(c)' /\ PhaseInv(c)'
  BY <1>1, <1>2, <1>3, <1>8 DEF BufferInv, PhaseInv, TypeOK, Running
<1>. QED
  BY <1>3, <1>4, <1>5, <1>6, <1>7, <1>10, <1>11, <1>12, <1>13, <1>14 DEF IInv, ConnInv

\* removeConnection in the main loop hands the connection on to be destroyed.
LEMMA RemoveConnectionKeeps ==
    ASSUME IInv, NEW c \in Conns, RemoveConnection, c = Head(mainQ)
    PROVE  IInv'
<1>1. TypeOK /\ QueuesOK /\ BufferCountInv /\ \A d \in Conns : ConnInv(d)
  BY QueuesTyped DEF IInv
<1>2. /\ FunctorInv(c) /\ LifeInv(c) /\ RequestInv(c) /\ TimeoutInv(c)
      /\ BufferInv(c) /\ PhaseInv(c)
  BY <1>1 DEF ConnInv
<1>3. /\ mainQ # <<>> /\ c = Head(mainQ) /\ mainQ' = Tail(mainQ)
      /\ connections' = connections \ {c}
      /\ ioQ' = Queued(ioQ, <<"destroyed", c>>)
      /\ state' = state /\ invoked' = invoked /\ sock' = sock
      /\ coro' = coro /\ idx' = idx /\ free' = free /\ rd' = rd /\ tm' = tm
      /\ wr' = wr /\ cq' = cq /\ peer' = peer /\ batch' = batch
      /\ phase' = phase
  BY DEF RemoveConnection, lifeVars, bufferVars, ringVars
<1>4. /\ ioQ' \in Seq(Tasks) /\ mainQ' \in Seq(Conns) /\ Removals(c) > 0
      /\ \A d \in Conns : /\ d # c => \A k \in Kinds : InLoop(k, d)' = InLoop(k, d)
                          /\ d # c => Removals(d)' = Removals(d)
                          /\ \A k, r : Posted(k, d, r)' = Posted(k, d, r)
                          /\ LateInv(d)'
      /\ \A k \in Kinds \ {"destroyed"} : InLoop(k, c)' = InLoop(k, c)
      /\ InLoop("destroyed", c)' \in {InLoop("destroyed", c), InLoop("destroyed", c) + 1}
      /\ Removals(c)' = Removals(c) - 1
  <2>1. "destroyed" \in Kinds
    BY DEF Kinds
  <2>2. /\ ioQ' \in Seq(Tasks)
        /\ \E n \in {0, 1} : \A k \in Kinds, d \in Conns :
               InLoop(k, d)' = InLoop(k, d) + (IF k = "destroyed" /\ d = c THEN n ELSE 0)
    BY <1>1, <1>3, <2>1, QueueTask
  <2>3. \A d \in Conns : Removals(d) \in Nat /\ \A k \in Kinds : InLoop(k, d) \in Nat
    BY <1>1, CountsAreNat
  <2>4. /\ \A d \in Conns : d # c => \A k \in Kinds : InLoop(k, d)' = InLoop(k, d)
        /\ \A k \in Kinds \ {"destroyed"} : InLoop(k, c)' = InLoop(k, c)
        /\ InLoop("destroyed", c)' \in {InLoop("destroyed", c), InLoop("destroyed", c) + 1}
    BY <2>1, <2>2, <2>3
  <2>5. /\ mainQ' \in Seq(Conns) /\ Removals(c) > 0
        /\ \A d \in Conns : Removals(d)' = Removals(d) - (IF d = c THEN 1 ELSE 0)
    BY <1>1, <1>3, RunRemoval
  <2>6. /\ \A d \in Conns : d # c => Removals(d)' = Removals(d)
        /\ Removals(c)' = Removals(c) - 1
    BY <2>3, <2>5
  <2>. QED  BY <1>1, <1>3, <2>2, <2>4, <2>5, <2>6, KeepPosted DEF ConnInv
<1>5. BufferCountInv'
  BY <1>1, <1>3, KeepBuffers DEF bufferVars
<1>6. TypeOK'
  BY <1>1, <1>3, <1>4 DEF TypeOK
<1>7. ASSUME NEW d \in Conns, d # c PROVE ConnInv(d)'
  <2>1. Untouched(d)
    BY <1>1, <1>3, <1>4, <1>7 DEF Untouched, TypeOK
  <2>. QED  BY <1>1, <1>4, <2>1, OthersKeep DEF ConnInv
<1>8. /\ InLoop("established", c) \in Nat /\ InLoop("close", c) \in Nat
      /\ InLoop("destroyed", c) \in Nat /\ Removals(c) \in Nat
      /\ \A k, r : Posted(k, c, r) \in Nat
  BY <1>1, CountsAreNat DEF Kinds
<1>9. /\ Posted("timeout", c, "time")' = Posted("timeout", c, "time")
      /\ Posted("timeout", c, "late")' = Posted("timeout", c, "late")
      /\ Posted("read", c, "data")' = Posted("read", c, "data")
      /\ Posted("read", c, "end")' = Posted("read", c, "end")
      /\ Reads(c)' = Reads(c) /\ Writes(c)' = Writes(c)
      /\ Expiries(c)' = Expiries(c) /\ Timeouts(c)' = Timeouts(c)
      /\ Reads(c) \in Nat /\ Writes(c) \in Nat /\ Expiries(c) \in Nat
      /\ Timeouts(c) \in Nat
  <2>1. /\ Posted("read", c, "data")' = Posted("read", c, "data")
        /\ Posted("read", c, "end")' = Posted("read", c, "end")
        /\ Posted("read", c, "canceled")' = Posted("read", c, "canceled")
        /\ Posted("write", c, "ok")' = Posted("write", c, "ok")
        /\ Posted("write", c, "error")' = Posted("write", c, "error")
        /\ Posted("timeout", c, "canceled")' = Posted("timeout", c, "canceled")
        /\ Posted("timeout", c, "time")' = Posted("timeout", c, "time")
        /\ Posted("timeout", c, "late")' = Posted("timeout", c, "late")
    BY <1>4
  <2>. QED  BY <1>8, <2>1 DEF Reads, Writes, Expiries, Timeouts
<1>10. FunctorInv(c)'
  BY SMTT(60), <1>1, <1>2, <1>3, <1>4, <1>8 DEF FunctorInv, LifeInv, TypeOK, Kinds
<1>11. LifeInv(c)'
  BY <1>1, <1>2, <1>3, <1>4, <1>8 DEF FunctorInv, LifeInv, TypeOK, Kinds
<1>12. RequestInv(c)'
  BY <1>1, <1>2, <1>3, <1>9 DEF RequestInv, TypeOK
<1>13. TimeoutInv(c)'
  BY <1>1, <1>2, <1>3, <1>8, <1>9
     DEF RequestInv, TimeoutInv, TypeOK
<1>14. BufferInv(c)' /\ PhaseInv(c)'
  BY <1>1, <1>2, <1>3, <1>8 DEF BufferInv, PhaseInv, TypeOK, Running
<1>. QED
  BY <1>3, <1>4, <1>5, <1>6, <1>7, <1>10, <1>11, <1>12, <1>13, <1>14 DEF IInv, ConnInv

-----------------------------------------------------------------------------
(* The completions the I/O loop handles                                     *)

\* When a read is handled no late timeout of its connection is behind it.
LEMMA ReadIsLast ==
    ASSUME QueuesOK, NEW c \in Conns, LateInv(c), NEW res, Handles("read", c, res)
    PROVE  Posted("timeout", c, "late") = 0
<1>. DEFINE x == <<"timeout", c, "late">>
<1>1. cq \in Seq(Completions) /\ cq # <<>> /\ Head(cq) = <<"read", c, res>>
  BY DEF QueuesOK, Handles
<1>2. Len(cq) \in Nat \ {0} /\ cq[1] = Head(cq)
  BY <1>1, EmptySeq
<1>3. cq[1][1] = "read" /\ cq[1][2] = c
  BY <1>1, <1>2
<1>4. \A i \in 1 .. Len(cq) : cq[i] # x
  <2>. SUFFICES ASSUME NEW i \in 1 .. Len(cq), cq[i] = x PROVE FALSE
    OBVIOUS
  <2>1. 1 \in 1 .. Len(cq)
    BY <1>2
  <2>2. i < 1
    BY <1>3, <2>1 DEF LateInv
  <2>. QED  BY <2>2
<1>5. \A y : Times(cq, y) = 0 <=> \A i \in 1 .. Len(cq) : cq[i] # y
  BY ONLY <1>1, TimesType
<1>. HIDE DEF x
<1>6. Times(cq, x) = 0
  BY ONLY <1>4, <1>5, Zenon
<1>. QED  BY <1>6 DEF Posted, x

\* A completed read hands its data, and its buffer, to the coroutine.
LEMMA ReadDoneKeeps ==
    ASSUME IInv, NEW c \in Conns, ReadDone(c)
    PROVE  IInv'
<1>1. TypeOK /\ QueuesOK /\ BufferCountInv /\ \A d \in Conns : ConnInv(d)
  BY QueuesTyped DEF IInv
<1>2. /\ FunctorInv(c) /\ LifeInv(c) /\ RequestInv(c) /\ TimeoutInv(c)
      /\ BufferInv(c) /\ PhaseInv(c)
  BY <1>1 DEF ConnInv
<1>3. /\ Handles("read", c, "data") /\ phase = "cqe"
      /\ cq # <<>> /\ cq' = Tail(cq)
      /\ coro' = [coro EXCEPT ![c] = "got"]
      /\ connections' = connections /\ state' = state /\ invoked' = invoked
      /\ sock' = sock /\ idx' = idx /\ free' = free /\ rd' = rd /\ tm' = tm
      /\ wr' = wr /\ peer' = peer /\ mainQ' = mainQ /\ ioQ' = ioQ
      /\ batch' = batch /\ phase' = phase
  BY DEF ReadDone, Handles, lifeVars, bufferVars, ringVars, taskVars
<1>4. /\ cq' \in Seq(Completions) /\ Posted("read", c, "data") > 0
      /\ \A d \in Conns : /\ \A k \in Kinds : InLoop(k, d)' = InLoop(k, d)
                          /\ Removals(d)' = Removals(d)
                          /\ d # c => \A k, r : Posted(k, d, r)' = Posted(k, d, r)
                          /\ LateInv(d)'
      /\ \A k, r : Posted(k, c, r)' = Posted(k, c, r)
                                      - (IF k = "read" /\ r = "data" THEN 1 ELSE 0)
  <2>1. /\ cq' \in Seq(Completions) /\ Posted("read", c, "data") > 0
        /\ \A k, r : \A d \in Conns :
               Posted(k, d, r)' = Posted(k, d, r)
                                  - (IF k = "read" /\ d = c /\ r = "data" THEN 1 ELSE 0)
    BY <1>1, <1>3, HandleOne
  <2>2. \A d \in Conns : LateInv(d)'
    BY <1>1, <1>3, LateTail DEF ConnInv, Handles
  <2>3. \A d \in Conns : \A k, r : Posted(k, d, r) \in Nat
    BY <1>1, CountsAreNat
  <2>. QED  BY <1>3, <2>1, <2>2, <2>3, KeepFunctors, KeepRemovals
<1>4a. Posted("timeout", c, "late") = 0
  BY <1>1, <1>3, ReadIsLast DEF ConnInv
<1>4b. coro[c] = "reading" /\ rd[c] = "none" /\ tm[c] = "none"
  <2>1. \A r : Posted("read", c, r) \in Nat
    BY <1>1, CountsAreNat
  <2>2. Posted("read", c, "data") > 0
    BY <1>4
  <2>. QED
    BY <1>1, <1>2, <2>1, <2>2
       DEF RequestInv, TimeoutInv, TypeOK, Reads, Writes, Timeouts, Expiries
<1>4c. Posted("timeout", c, "time") = 0
  <2>1. \A k, r : Posted(k, c, r) \in Nat
    BY <1>1, CountsAreNat
  <2>. QED  BY <1>2, <1>4, <2>1 DEF TimeoutInv
<1>5. BufferCountInv'
  BY <1>1, <1>3, KeepBuffers DEF bufferVars
<1>6. TypeOK'
  BY <1>1, <1>3, <1>4, <1>5 DEF TypeOK, Running, Suspended
<1>7. ASSUME NEW d \in Conns, d # c PROVE ConnInv(d)'
  <2>1. Untouched(d)
    BY <1>1, <1>3, <1>4, <1>7 DEF Untouched, TypeOK
  <2>. QED  BY <1>1, <1>4, <2>1, OthersKeep DEF ConnInv
<1>8. /\ InLoop("established", c) \in Nat /\ InLoop("close", c) \in Nat
      /\ InLoop("destroyed", c) \in Nat /\ Removals(c) \in Nat
      /\ \A k, r : Posted(k, c, r) \in Nat
  BY <1>1, CountsAreNat DEF Kinds
<1>9. /\ Posted("timeout", c, "time")' = Posted("timeout", c, "time")
      /\ Posted("timeout", c, "late")' = Posted("timeout", c, "late")
      /\ Posted("read", c, "data")' = Posted("read", c, "data") - 1
      /\ Posted("read", c, "end")' = Posted("read", c, "end")
      /\ Reads(c)' = Reads(c) - 1 /\ Writes(c)' = Writes(c)
      /\ Expiries(c)' = Expiries(c) /\ Timeouts(c)' = Timeouts(c)
      /\ Reads(c) \in Nat /\ Writes(c) \in Nat /\ Expiries(c) \in Nat
      /\ Timeouts(c) \in Nat
  <2>1. /\ Posted("read", c, "data")' = Posted("read", c, "data") - 1
        /\ Posted("read", c, "end")' = Posted("read", c, "end")
        /\ Posted("read", c, "canceled")' = Posted("read", c, "canceled")
        /\ Posted("write", c, "ok")' = Posted("write", c, "ok")
        /\ Posted("write", c, "error")' = Posted("write", c, "error")
        /\ Posted("timeout", c, "canceled")' = Posted("timeout", c, "canceled")
        /\ Posted("timeout", c, "time")' = Posted("timeout", c, "time")
        /\ Posted("timeout", c, "late")' = Posted("timeout", c, "late")
    BY <1>4, <1>8
  <2>. QED  BY <1>8, <2>1 DEF Reads, Writes, Expiries, Timeouts
<1>10. FunctorInv(c)'
  BY <1>1, <1>2, <1>3, <1>4, <1>8 DEF FunctorInv, LifeInv, TypeOK, Kinds
<1>11. LifeInv(c)'
  BY <1>1, <1>2, <1>3, <1>4, <1>4b, <1>8 DEF FunctorInv, LifeInv, TypeOK, Kinds
<1>12. RequestInv(c)'
  BY <1>1, <1>2, <1>3, <1>4b, <1>9 DEF RequestInv, TypeOK
<1>13. TimeoutInv(c)'
  BY <1>1, <1>2, <1>3, <1>4a, <1>4b, <1>4c, <1>8, <1>9
     DEF RequestInv, TimeoutInv, TypeOK
<1>14. BufferInv(c)' /\ PhaseInv(c)'
  BY <1>1, <1>2, <1>3, <1>4b, <1>8 DEF BufferInv, PhaseInv, TypeOK, Running
<1>. QED
  BY <1>3, <1>4, <1>5, <1>6, <1>7, <1>10, <1>11, <1>12, <1>13, <1>14 DEF IInv, ConnInv

\* A read that ended or was cancelled gives its buffer back at once.
LEMMA ReadFailedKeeps ==
    ASSUME IInv, NEW c \in Conns, NEW res \in {"end", "canceled"}, ReadFailed(c, res)
    PROVE  IInv'
<1>1. TypeOK /\ QueuesOK /\ BufferCountInv /\ \A d \in Conns : ConnInv(d)
  BY QueuesTyped DEF IInv
<1>2. /\ FunctorInv(c) /\ LifeInv(c) /\ RequestInv(c) /\ TimeoutInv(c)
      /\ BufferInv(c) /\ PhaseInv(c)
  BY <1>1 DEF ConnInv
<1>3. /\ Handles("read", c, res) /\ phase = "cqe"
      /\ cq # <<>> /\ cq' = Tail(cq)
      /\ coro' = [coro EXCEPT ![c] = "close"]
      /\ ReleaseBuffer(c) /\ idx' = [idx EXCEPT ![c] = NoBuffer]
      /\ connections' = connections /\ state' = state /\ invoked' = invoked
      /\ sock' = sock /\ rd' = rd /\ tm' = tm /\ wr' = wr /\ peer' = peer
      /\ mainQ' = mainQ /\ ioQ' = ioQ /\ batch' = batch /\ phase' = phase
  BY DEF ReadFailed, ReleaseBuffer, Handles, lifeVars, ringVars, taskVars
<1>4. /\ cq' \in Seq(Completions) /\ Posted("read", c, res) > 0
      /\ \A d \in Conns : /\ \A k \in Kinds : InLoop(k, d)' = InLoop(k, d)
                          /\ Removals(d)' = Removals(d)
                          /\ d # c => \A k, r : Posted(k, d, r)' = Posted(k, d, r)
                          /\ LateInv(d)'
      /\ \A k, r : Posted(k, c, r)' = Posted(k, c, r)
                                      - (IF k = "read" /\ r = res THEN 1 ELSE 0)
  <2>1. /\ cq' \in Seq(Completions) /\ Posted("read", c, res) > 0
        /\ \A k, r : \A d \in Conns :
               Posted(k, d, r)' = Posted(k, d, r)
                                  - (IF k = "read" /\ d = c /\ r = res THEN 1 ELSE 0)
    BY <1>1, <1>3, HandleOne
  <2>2. \A d \in Conns : LateInv(d)'
    BY <1>1, <1>3, LateTail DEF ConnInv, Handles
  <2>3. \A d \in Conns : \A k, r : Posted(k, d, r) \in Nat
    BY <1>1, CountsAreNat
  <2>. QED  BY <1>3, <2>1, <2>2, <2>3, KeepFunctors, KeepRemovals
<1>4a. Posted("timeout", c, "late") = 0
  BY <1>1, <1>3, ReadIsLast DEF ConnInv
<1>4b. coro[c] = "reading" /\ rd[c] = "none" /\ tm[c] = "none"
  <2>1. \A r : Posted("read", c, r) \in Nat
    BY <1>1, CountsAreNat
  <2>2. Posted("read", c, res) > 0
    BY <1>4
  <2>. QED
    BY <1>1, <1>2, <2>1, <2>2
       DEF RequestInv, TimeoutInv, TypeOK, Reads, Writes, Timeouts, Expiries
<1>4c. Posted("timeout", c, "time") > 0 => res = "canceled"
  <2>1. \A k, r : Posted(k, c, r) \in Nat
    BY <1>1, CountsAreNat
  <2>. QED  BY <1>2, <1>4, <2>1 DEF TimeoutInv
<1>5. /\ BufferCountInv'
      /\ free' \in Seq(Buffers) /\ idx' \in [Conns -> Buffers \cup {NoBuffer}]
  BY <1>1, <1>3, GiveBuffer
<1>6. TypeOK'
  BY <1>1, <1>3, <1>4, <1>5 DEF TypeOK, Running, Suspended
<1>7. ASSUME NEW d \in Conns, d # c PROVE ConnInv(d)'
  <2>1. Untouched(d)
    BY <1>1, <1>3, <1>4, <1>7 DEF Untouched, TypeOK
  <2>. QED  BY <1>1, <1>4, <2>1, OthersKeep DEF ConnInv
<1>8. /\ InLoop("established", c) \in Nat /\ InLoop("close", c) \in Nat
      /\ InLoop("destroyed", c) \in Nat /\ Removals(c) \in Nat
      /\ \A k, r : Posted(k, c, r) \in Nat
  BY <1>1, CountsAreNat DEF Kinds
<1>9. /\ Posted("timeout", c, "time")' = Posted("timeout", c, "time")
      /\ Posted("timeout", c, "late")' = Posted("timeout", c, "late")
      /\ Posted("read", c, "data")' = Posted("read", c, "data")
      /\ Posted("read", c, "end")' = Posted("read", c, "end") - (IF res = "end" THEN 1 ELSE 0)
      /\ Reads(c)' = Reads(c) - 1 /\ Writes(c)' = Writes(c)
      /\ Expiries(c)' = Expiries(c) /\ Timeouts(c)' = Timeouts(c)
      /\ Reads(c) \in Nat /\ Writes(c) \in Nat /\ Expiries(c) \in Nat
      /\ Timeouts(c) \in Nat
  <2>1. /\ Posted("read", c, "data")' = Posted("read", c, "data")
        /\ Posted("read", c, "end")' = Posted("read", c, "end") - (IF res = "end" THEN 1 ELSE 0)
        /\ Posted("read", c, "canceled")' = Posted("read", c, "canceled")
                                            - (IF res = "canceled" THEN 1 ELSE 0)
        /\ Posted("write", c, "ok")' = Posted("write", c, "ok")
        /\ Posted("write", c, "error")' = Posted("write", c, "error")
        /\ Posted("timeout", c, "canceled")' = Posted("timeout", c, "canceled")
        /\ Posted("timeout", c, "time")' = Posted("timeout", c, "time")
        /\ Posted("timeout", c, "late")' = Posted("timeout", c, "late")
    BY SMTT(60), <1>4, <1>8
  <2>. QED  BY <1>8, <2>1 DEF Reads, Writes, Expiries, Timeouts
<1>10. FunctorInv(c)'
  BY <1>1, <1>2, <1>3, <1>4, <1>8 DEF FunctorInv, LifeInv, TypeOK, Kinds
<1>11. LifeInv(c)'
  BY <1>1, <1>2, <1>3, <1>4, <1>4b, <1>8 DEF FunctorInv, LifeInv, TypeOK, Kinds
<1>12. RequestInv(c)'
  BY <1>1, <1>2, <1>3, <1>4b, <1>9 DEF RequestInv, TypeOK
<1>13. TimeoutInv(c)'
  BY SMTT(60), <1>1, <1>2, <1>3, <1>4a, <1>4b, <1>4c, <1>8, <1>9
     DEF RequestInv, TimeoutInv, TypeOK
<1>14. BufferInv(c)' /\ PhaseInv(c)'
  BY <1>1, <1>2, <1>3, <1>4b, <1>8 DEF BufferInv, PhaseInv, TypeOK, Running
<1>. QED
  BY <1>3, <1>4, <1>5, <1>6, <1>7, <1>10, <1>11, <1>12, <1>13, <1>14 DEF IInv, ConnInv

\* After an answer the coroutine has no request in the ring.
LEMMA WriteDoneKeeps ==
    ASSUME IInv, NEW c \in Conns, WriteDone(c)
    PROVE  IInv'
<1>1. TypeOK /\ QueuesOK /\ BufferCountInv /\ \A d \in Conns : ConnInv(d)
  BY QueuesTyped DEF IInv
<1>2. /\ FunctorInv(c) /\ LifeInv(c) /\ RequestInv(c) /\ TimeoutInv(c)
      /\ BufferInv(c) /\ PhaseInv(c)
  BY <1>1 DEF ConnInv
<1>3. /\ Handles("write", c, "ok") /\ phase = "cqe"
      /\ cq # <<>> /\ cq' = Tail(cq)
      /\ \E next \in {"send", "read", "close", "half"} :
             coro' = [coro EXCEPT ![c] = next]
      /\ connections' = connections /\ state' = state /\ invoked' = invoked
      /\ sock' = sock /\ idx' = idx /\ free' = free /\ rd' = rd /\ tm' = tm
      /\ wr' = wr /\ peer' = peer /\ mainQ' = mainQ /\ ioQ' = ioQ
      /\ batch' = batch /\ phase' = phase
  BY DEF WriteDone, Handles, lifeVars, bufferVars, ringVars, taskVars
<1>4. /\ cq' \in Seq(Completions) /\ Posted("write", c, "ok") > 0
      /\ \A d \in Conns : /\ \A k \in Kinds : InLoop(k, d)' = InLoop(k, d)
                          /\ Removals(d)' = Removals(d)
                          /\ d # c => \A k, r : Posted(k, d, r)' = Posted(k, d, r)
                          /\ LateInv(d)'
      /\ \A k, r : Posted(k, c, r)' = Posted(k, c, r)
                                      - (IF k = "write" /\ r = "ok" THEN 1 ELSE 0)
  <2>1. /\ cq' \in Seq(Completions) /\ Posted("write", c, "ok") > 0
        /\ \A k, r : \A d \in Conns :
               Posted(k, d, r)' = Posted(k, d, r)
                                  - (IF k = "write" /\ d = c /\ r = "ok" THEN 1 ELSE 0)
    BY <1>1, <1>3, HandleOne
  <2>2. \A d \in Conns : LateInv(d)'
    BY <1>1, <1>3, LateTail DEF ConnInv, Handles
  <2>3. \A d \in Conns : \A k, r : Posted(k, d, r) \in Nat
    BY <1>1, CountsAreNat
  <2>. QED  BY <1>3, <2>1, <2>2, <2>3, KeepFunctors, KeepRemovals
<1>4b. coro[c] = "writing" /\ rd[c] = "none" /\ tm[c] = "none" /\ wr[c] = "none"
  <2>1. \A r : Posted("write", c, r) \in Nat
    BY <1>1, CountsAreNat
  <2>2. Posted("write", c, "ok") > 0
    BY <1>4
  <2>. QED
    BY <1>1, <1>2, <2>1, <2>2
       DEF RequestInv, TimeoutInv, TypeOK, Reads, Writes, Timeouts, Expiries
<1>5. BufferCountInv'
  BY <1>1, <1>3, KeepBuffers DEF bufferVars
<1>6. TypeOK'
  BY <1>1, <1>3, <1>4, <1>5 DEF TypeOK, Running, Suspended
<1>7. ASSUME NEW d \in Conns, d # c PROVE ConnInv(d)'
  <2>1. Untouched(d)
    BY <1>1, <1>3, <1>4, <1>7 DEF Untouched, TypeOK
  <2>. QED  BY <1>1, <1>4, <2>1, OthersKeep DEF ConnInv
<1>8. /\ InLoop("established", c) \in Nat /\ InLoop("close", c) \in Nat
      /\ InLoop("destroyed", c) \in Nat /\ Removals(c) \in Nat
      /\ \A k, r : Posted(k, c, r) \in Nat
  BY <1>1, CountsAreNat DEF Kinds
<1>9. /\ Posted("timeout", c, "time")' = Posted("timeout", c, "time")
      /\ Posted("timeout", c, "late")' = Posted("timeout", c, "late")
      /\ Posted("read", c, "data")' = Posted("read", c, "data")
      /\ Posted("read", c, "end")' = Posted("read", c, "end")
      /\ Reads(c)' = Reads(c) /\ Writes(c)' = Writes(c) - 1
      /\ Expiries(c)' = Expiries(c) /\ Timeouts(c)' = Timeouts(c)
      /\ Reads(c) \in Nat /\ Writes(c) \in Nat /\ Expiries(c) \in Nat
      /\ Timeouts(c) \in Nat
  <2>1. /\ Posted("read", c, "data")' = Posted("read", c, "data")
        /\ Posted("read", c, "end")' = Posted("read", c, "end")
        /\ Posted("read", c, "canceled")' = Posted("read", c, "canceled")
        /\ Posted("write", c, "ok")' = Posted("write", c, "ok") - 1
        /\ Posted("write", c, "error")' = Posted("write", c, "error")
        /\ Posted("timeout", c, "canceled")' = Posted("timeout", c, "canceled")
        /\ Posted("timeout", c, "time")' = Posted("timeout", c, "time")
        /\ Posted("timeout", c, "late")' = Posted("timeout", c, "late")
    BY SMTT(60), <1>4, <1>8
  <2>. QED  BY <1>8, <2>1 DEF Reads, Writes, Expiries, Timeouts
<1>10. FunctorInv(c)'
  BY <1>1, <1>2, <1>3, <1>4, <1>8 DEF FunctorInv, LifeInv, TypeOK, Kinds
<1>11. LifeInv(c)'
  BY <1>1, <1>2, <1>3, <1>4, <1>4b, <1>8 DEF FunctorInv, LifeInv, TypeOK, Kinds
<1>12. RequestInv(c)'
  BY <1>1, <1>2, <1>3, <1>4b, <1>9 DEF RequestInv, TypeOK
<1>13. TimeoutInv(c)'
  BY <1>1, <1>2, <1>3, <1>4b, <1>8, <1>9
     DEF RequestInv, TimeoutInv, TypeOK
<1>14. BufferInv(c)' /\ PhaseInv(c)'
  BY <1>1, <1>2, <1>3, <1>4b, <1>8 DEF BufferInv, PhaseInv, TypeOK, Running
<1>. QED
  BY <1>3, <1>4, <1>5, <1>6, <1>7, <1>10, <1>11, <1>12, <1>13, <1>14 DEF IInv, ConnInv

\* The coroutine that fails to write ends, its connection still listed.
LEMMA WriteFailedKeeps ==
    ASSUME IInv, NEW c \in Conns, WriteFailed(c)
    PROVE  IInv'
<1>1. TypeOK /\ QueuesOK /\ BufferCountInv /\ \A d \in Conns : ConnInv(d)
  BY QueuesTyped DEF IInv
<1>2. /\ FunctorInv(c) /\ LifeInv(c) /\ RequestInv(c) /\ TimeoutInv(c)
      /\ BufferInv(c) /\ PhaseInv(c)
  BY <1>1 DEF ConnInv
<1>3. /\ Handles("write", c, "error") /\ phase = "cqe"
      /\ cq # <<>> /\ cq' = Tail(cq)
      /\ coro' = [coro EXCEPT ![c] = "done"]
      /\ connections' = connections /\ state' = state /\ invoked' = invoked
      /\ sock' = sock /\ idx' = idx /\ free' = free /\ rd' = rd /\ tm' = tm
      /\ wr' = wr /\ peer' = peer /\ mainQ' = mainQ /\ ioQ' = ioQ
      /\ batch' = batch /\ phase' = phase
  BY DEF WriteFailed, Handles, lifeVars, bufferVars, ringVars, taskVars
<1>4. /\ cq' \in Seq(Completions) /\ Posted("write", c, "error") > 0
      /\ \A d \in Conns : /\ \A k \in Kinds : InLoop(k, d)' = InLoop(k, d)
                          /\ Removals(d)' = Removals(d)
                          /\ d # c => \A k, r : Posted(k, d, r)' = Posted(k, d, r)
                          /\ LateInv(d)'
      /\ \A k, r : Posted(k, c, r)' = Posted(k, c, r)
                                      - (IF k = "write" /\ r = "error" THEN 1 ELSE 0)
  <2>1. /\ cq' \in Seq(Completions) /\ Posted("write", c, "error") > 0
        /\ \A k, r : \A d \in Conns :
               Posted(k, d, r)' = Posted(k, d, r)
                                  - (IF k = "write" /\ d = c /\ r = "error" THEN 1 ELSE 0)
    BY <1>1, <1>3, HandleOne
  <2>2. \A d \in Conns : LateInv(d)'
    BY <1>1, <1>3, LateTail DEF ConnInv, Handles
  <2>3. \A d \in Conns : \A k, r : Posted(k, d, r) \in Nat
    BY <1>1, CountsAreNat
  <2>. QED  BY <1>3, <2>1, <2>2, <2>3, KeepFunctors, KeepRemovals
<1>4b. coro[c] = "writing" /\ rd[c] = "none" /\ tm[c] = "none" /\ wr[c] = "none"
  <2>1. \A r : Posted("write", c, r) \in Nat
    BY <1>1, CountsAreNat
  <2>2. Posted("write", c, "error") > 0
    BY <1>4
  <2>. QED
    BY <1>1, <1>2, <2>1, <2>2
       DEF RequestInv, TimeoutInv, TypeOK, Reads, Writes, Timeouts, Expiries
<1>5. BufferCountInv'
  BY <1>1, <1>3, KeepBuffers DEF bufferVars
<1>6. TypeOK'
  BY <1>1, <1>3, <1>4, <1>5 DEF TypeOK, Running, Suspended
<1>7. ASSUME NEW d \in Conns, d # c PROVE ConnInv(d)'
  <2>1. Untouched(d)
    BY <1>1, <1>3, <1>4, <1>7 DEF Untouched, TypeOK
  <2>. QED  BY <1>1, <1>4, <2>1, OthersKeep DEF ConnInv
<1>8. /\ InLoop("established", c) \in Nat /\ InLoop("close", c) \in Nat
      /\ InLoop("destroyed", c) \in Nat /\ Removals(c) \in Nat
      /\ \A k, r : Posted(k, c, r) \in Nat
  BY <1>1, CountsAreNat DEF Kinds
<1>9. /\ Posted("timeout", c, "time")' = Posted("timeout", c, "time")
      /\ Posted("timeout", c, "late")' = Posted("timeout", c, "late")
      /\ Posted("read", c, "data")' = Posted("read", c, "data")
      /\ Posted("read", c, "end")' = Posted("read", c, "end")
      /\ Reads(c)' = Reads(c) /\ Writes(c)' = Writes(c) - 1
      /\ Expiries(c)' = Expiries(c) /\ Timeouts(c)' = Timeouts(c)
      /\ Reads(c) \in Nat /\ Writes(c) \in Nat /\ Expiries(c) \in Nat
      /\ Timeouts(c) \in Nat
  <2>1. /\ Posted("read", c, "data")' = Posted("read", c, "data")
        /\ Posted("read", c, "end")' = Posted("read", c, "end")
        /\ Posted("read", c, "canceled")' = Posted("read", c, "canceled")
        /\ Posted("write", c, "ok")' = Posted("write", c, "ok")
        /\ Posted("write", c, "error")' = Posted("write", c, "error") - 1
        /\ Posted("timeout", c, "canceled")' = Posted("timeout", c, "canceled")
        /\ Posted("timeout", c, "time")' = Posted("timeout", c, "time")
        /\ Posted("timeout", c, "late")' = Posted("timeout", c, "late")
    BY <1>4, <1>8
  <2>. QED  BY <1>8, <2>1 DEF Reads, Writes, Expiries, Timeouts
<1>10. FunctorInv(c)'
  BY <1>1, <1>2, <1>3, <1>4, <1>8 DEF FunctorInv, LifeInv, TypeOK, Kinds
<1>11. LifeInv(c)'
  BY <1>1, <1>2, <1>3, <1>4, <1>4b, <1>8 DEF FunctorInv, LifeInv, TypeOK, Kinds
<1>12. RequestInv(c)'
  BY <1>1, <1>2, <1>3, <1>4b, <1>9 DEF RequestInv, TypeOK
<1>13. TimeoutInv(c)'
  BY <1>1, <1>2, <1>3, <1>4b, <1>8, <1>9
     DEF RequestInv, TimeoutInv, TypeOK
<1>14. BufferInv(c)' /\ PhaseInv(c)'
  BY <1>1, <1>2, <1>3, <1>4b, <1>8 DEF BufferInv, PhaseInv, TypeOK, Running
<1>. QED
  BY <1>3, <1>4, <1>5, <1>6, <1>7, <1>10, <1>11, <1>12, <1>13, <1>14 DEF IInv, ConnInv

\* A cancelled timeout does nothing.
LEMMA TimeoutCanceledKeeps ==
    ASSUME IInv, NEW c \in Conns, Timeout(c, "canceled")
    PROVE  IInv'
<1>1. TypeOK /\ QueuesOK /\ BufferCountInv /\ \A d \in Conns : ConnInv(d)
  BY QueuesTyped DEF IInv
<1>2. /\ FunctorInv(c) /\ LifeInv(c) /\ RequestInv(c) /\ TimeoutInv(c)
      /\ BufferInv(c) /\ PhaseInv(c)
  BY <1>1 DEF ConnInv
<1>3. /\ Handles("timeout", c, "canceled") /\ phase = "cqe"
      /\ cq # <<>> /\ cq' = Tail(cq)
      /\ connections' = connections /\ state' = state /\ invoked' = invoked
      /\ sock' = sock /\ coro' = coro /\ idx' = idx /\ free' = free
      /\ rd' = rd /\ tm' = tm /\ wr' = wr /\ peer' = peer /\ mainQ' = mainQ
      /\ ioQ' = ioQ /\ batch' = batch /\ phase' = phase
  BY DEF Timeout, Handles, bufferVars, ringVars
<1>4. /\ cq' \in Seq(Completions) /\ Posted("timeout", c, "canceled") > 0
      /\ \A d \in Conns : /\ \A k \in Kinds : InLoop(k, d)' = InLoop(k, d)
                          /\ Removals(d)' = Removals(d)
                          /\ d # c => \A k, r : Posted(k, d, r)' = Posted(k, d, r)
                          /\ LateInv(d)'
      /\ \A k, r : Posted(k, c, r)' = Posted(k, c, r)
                                      - (IF k = "timeout" /\ r = "canceled" THEN 1 ELSE 0)
  <2>1. /\ cq' \in Seq(Completions) /\ Posted("timeout", c, "canceled") > 0
        /\ \A k, r : \A d \in Conns :
               Posted(k, d, r)' = Posted(k, d, r)
                                  - (IF k = "timeout" /\ d = c /\ r = "canceled" THEN 1 ELSE 0)
    BY <1>1, <1>3, HandleOne
  <2>2. \A d \in Conns : LateInv(d)'
    BY <1>1, <1>3, LateTail DEF ConnInv, Handles
  <2>3. \A d \in Conns : \A k, r : Posted(k, d, r) \in Nat
    BY <1>1, CountsAreNat
  <2>. QED  BY <1>3, <2>1, <2>2, <2>3, KeepFunctors, KeepRemovals
<1>4b. Timeouts(c) > 0 /\ state[c] # "none" /\ ~invoked[c]
  <2>1. \A r : Posted("timeout", c, r) \in Nat
    BY <1>1, CountsAreNat
  <2>2. Posted("timeout", c, "canceled") > 0
    BY <1>4
  <2>. QED
    BY <1>1, <1>2, <2>1, <2>2
       DEF RequestInv, TimeoutInv, TypeOK, Reads, Writes, Timeouts, Expiries
<1>5. BufferCountInv'
  BY <1>1, <1>3, KeepBuffers DEF bufferVars
<1>6. TypeOK'
  BY <1>1, <1>3, <1>4, <1>5 DEF TypeOK
<1>7. ASSUME NEW d \in Conns, d # c PROVE ConnInv(d)'
  <2>1. Untouched(d)
    BY <1>1, <1>3, <1>4, <1>7 DEF Untouched, TypeOK
  <2>. QED  BY <1>1, <1>4, <2>1, OthersKeep DEF ConnInv
<1>8. /\ InLoop("established", c) \in Nat /\ InLoop("close", c) \in Nat
      /\ InLoop("destroyed", c) \in Nat /\ Removals(c) \in Nat
      /\ \A k, r : Posted(k, c, r) \in Nat
  BY <1>1, CountsAreNat DEF Kinds
<1>9. /\ Posted("timeout", c, "time")' = Posted("timeout", c, "time")
      /\ Posted("timeout", c, "late")' = Posted("timeout", c, "late")
      /\ Posted("read", c, "data")' = Posted("read", c, "data")
      /\ Posted("read", c, "end")' = Posted("read", c, "end")
      /\ Reads(c)' = Reads(c) /\ Writes(c)' = Writes(c)
      /\ Expiries(c)' = Expiries(c) /\ Timeouts(c)' = Timeouts(c) - 1
      /\ Reads(c) \in Nat /\ Writes(c) \in Nat /\ Expiries(c) \in Nat
      /\ Timeouts(c) \in Nat
  <2>1. /\ Posted("read", c, "data")' = Posted("read", c, "data")
        /\ Posted("read", c, "end")' = Posted("read", c, "end")
        /\ Posted("read", c, "canceled")' = Posted("read", c, "canceled")
        /\ Posted("write", c, "ok")' = Posted("write", c, "ok")
        /\ Posted("write", c, "error")' = Posted("write", c, "error")
        /\ Posted("timeout", c, "canceled")' = Posted("timeout", c, "canceled") - 1
        /\ Posted("timeout", c, "time")' = Posted("timeout", c, "time")
        /\ Posted("timeout", c, "late")' = Posted("timeout", c, "late")
    BY <1>4, <1>8
  <2>. QED  BY <1>8, <2>1 DEF Reads, Writes, Expiries, Timeouts
<1>10. FunctorInv(c)'
  BY <1>1, <1>2, <1>3, <1>4, <1>8 DEF FunctorInv, LifeInv, TypeOK, Kinds
<1>11. LifeInv(c)'
  BY <1>1, <1>2, <1>3, <1>4, <1>4b, <1>8 DEF FunctorInv, LifeInv, TypeOK, Kinds
<1>12. RequestInv(c)'
  BY <1>1, <1>2, <1>3, <1>4b, <1>9 DEF RequestInv, TypeOK
<1>13. TimeoutInv(c)'
  BY <1>1, <1>2, <1>3, <1>4b, <1>8, <1>9
     DEF RequestInv, TimeoutInv, TypeOK
<1>14. BufferInv(c)' /\ PhaseInv(c)'
  BY <1>1, <1>2, <1>3, <1>4b, <1>8 DEF BufferInv, PhaseInv, TypeOK, Running
<1>. QED
  BY <1>3, <1>4, <1>5, <1>6, <1>7, <1>10, <1>11, <1>12, <1>13, <1>14 DEF IInv, ConnInv

\* An expired timeout closes the connection, whose next request is not made.
LEMMA TimeoutExpiredKeeps ==
    ASSUME IInv, NEW c \in Conns, NEW res \in {"time", "late"}, Timeout(c, res)
    PROVE  IInv'
<1>1. TypeOK /\ QueuesOK /\ BufferCountInv /\ \A d \in Conns : ConnInv(d)
  BY QueuesTyped DEF IInv
<1>2. /\ FunctorInv(c) /\ LifeInv(c) /\ RequestInv(c) /\ TimeoutInv(c)
      /\ BufferInv(c) /\ PhaseInv(c)
  BY <1>1 DEF ConnInv
<1>3. /\ Handles("timeout", c, res) /\ phase = "cqe"
      /\ cq # <<>> /\ cq' = Tail(cq)
      /\ ForceClose(c)
      /\ state' = [state EXCEPT ![c] = IF @ = "connected" THEN "disconnecting" ELSE @]
      /\ connections' = connections /\ invoked' = invoked /\ sock' = sock
      /\ coro' = coro /\ idx' = idx /\ free' = free /\ rd' = rd /\ tm' = tm
      /\ wr' = wr /\ peer' = peer /\ mainQ' = mainQ /\ batch' = batch
      /\ phase' = phase
  BY <1>1 DEF Timeout, Handles, ForceClose, TypeOK, bufferVars, ringVars
<1>4. /\ cq' \in Seq(Completions) /\ Posted("timeout", c, res) > 0
      /\ \A d \in Conns : /\ d # c => \A k \in Kinds : InLoop(k, d)' = InLoop(k, d)
                          /\ Removals(d)' = Removals(d)
                          /\ d # c => \A k, r : Posted(k, d, r)' = Posted(k, d, r)
                          /\ LateInv(d)'
      /\ \A k, r : Posted(k, c, r)' = Posted(k, c, r)
                                      - (IF k = "timeout" /\ r = res THEN 1 ELSE 0)
      /\ ioQ' \in Seq(Tasks)
      /\ \A k \in Kinds \ {"close"} : InLoop(k, c)' = InLoop(k, c)
      /\ InLoop("close", c)' \in {InLoop("close", c), InLoop("close", c) + 1}
      /\ state[c] # "connected" => InLoop("close", c)' = InLoop("close", c)
  <2>1. /\ cq' \in Seq(Completions) /\ Posted("timeout", c, res) > 0
        /\ \A k, r : \A d \in Conns :
               Posted(k, d, r)' = Posted(k, d, r)
                                  - (IF k = "timeout" /\ d = c /\ r = res THEN 1 ELSE 0)
    BY <1>1, <1>3, HandleOne
  <2>2. \A d \in Conns : LateInv(d)'
    BY <1>1, <1>3, LateTail DEF ConnInv, Handles
  <2>3. \A d \in Conns : \A k, r : Posted(k, d, r) \in Nat
    BY <1>1, CountsAreNat
  <2>4. /\ ioQ' \in Seq(Tasks)
        /\ \A d \in Conns : d # c => \A k \in Kinds : InLoop(k, d)' = InLoop(k, d)
        /\ \A k \in Kinds \ {"close"} : InLoop(k, c)' = InLoop(k, c)
        /\ InLoop("close", c)' \in {InLoop("close", c), InLoop("close", c) + 1}
        /\ state[c] # "connected" => InLoop("close", c)' = InLoop("close", c)
    BY <1>1, <1>3, ForceCloseQueues
  <2>. QED  BY <1>3, <2>1, <2>2, <2>3, <2>4, KeepRemovals
<1>4b. Timeouts(c) > 0 /\ state[c] # "none" /\ ~invoked[c]
  <2>1. \A r : Posted("timeout", c, r) \in Nat
    BY <1>1, CountsAreNat
  <2>2. Posted("timeout", c, res) > 0
    BY <1>4
  <2>. QED
    BY <1>1, <1>2, <2>1, <2>2
       DEF RequestInv, TimeoutInv, TypeOK, Reads, Writes, Timeouts, Expiries
<1>4c. tm[c] = "none" /\ Posted("timeout", c, res) > 0
  <2>1. \A k, r : Posted(k, c, r) \in Nat
    BY <1>1, CountsAreNat
  <2>. QED  BY <1>1, <1>2, <1>4, <2>1 DEF TimeoutInv, Expiries, TypeOK
<1>4d. /\ state'[c] = IF state[c] = "connected" THEN "disconnecting" ELSE state[c]
       /\ InLoop("established", c)' = InLoop("established", c)
       /\ InLoop("destroyed", c)' = InLoop("destroyed", c)
       /\ InLoop("close", c)' \in {InLoop("close", c), InLoop("close", c) + 1}
       /\ state[c] # "connected" => InLoop("close", c)' = InLoop("close", c)
       /\ Removals(c)' = Removals(c)
  BY <1>1, <1>3, <1>4 DEF TypeOK, Kinds
<1>4e. \A r : Posted("timeout", c, r)' > 0 => Posted("timeout", c, r) > 0
  <2>1. \A k, r : Posted(k, c, r) \in Nat
    BY <1>1, CountsAreNat
  <2>2. \A r : Posted("timeout", c, r)' = Posted("timeout", c, r)
                                          - (IF r = res THEN 1 ELSE 0)
    BY <1>4
  <2>. QED  BY <2>1, <2>2
<1>5. BufferCountInv'
  BY <1>1, <1>3, KeepBuffers DEF bufferVars
<1>6. TypeOK'
  BY <1>1, <1>3, <1>4, <1>5 DEF TypeOK
<1>7. ASSUME NEW d \in Conns, d # c PROVE ConnInv(d)'
  <2>1. Untouched(d)
    BY <1>1, <1>3, <1>4, <1>7 DEF Untouched, TypeOK
  <2>. QED  BY <1>1, <1>4, <2>1, OthersKeep DEF ConnInv
<1>8. /\ InLoop("established", c) \in Nat /\ InLoop("close", c) \in Nat
      /\ InLoop("destroyed", c) \in Nat /\ Removals(c) \in Nat
      /\ \A k, r : Posted(k, c, r) \in Nat
  BY <1>1, CountsAreNat DEF Kinds
<1>9. /\ Posted("timeout", c, "time")' = Posted("timeout", c, "time") - (IF res = "time" THEN 1 ELSE 0)
      /\ Posted("timeout", c, "late")' = Posted("timeout", c, "late")
                                             - (IF res = "late" THEN 1 ELSE 0)
      /\ Posted("read", c, "data")' = Posted("read", c, "data")
      /\ Posted("read", c, "end")' = Posted("read", c, "end")
      /\ Reads(c)' = Reads(c) /\ Writes(c)' = Writes(c)
      /\ Expiries(c)' = Expiries(c) - 1 /\ Timeouts(c)' = Timeouts(c) - 1
      /\ Reads(c) \in Nat /\ Writes(c) \in Nat /\ Expiries(c) \in Nat
      /\ Timeouts(c) \in Nat
  <2>1. /\ Posted("read", c, "data")' = Posted("read", c, "data")
        /\ Posted("read", c, "end")' = Posted("read", c, "end")
        /\ Posted("read", c, "canceled")' = Posted("read", c, "canceled")
        /\ Posted("write", c, "ok")' = Posted("write", c, "ok")
        /\ Posted("write", c, "error")' = Posted("write", c, "error")
        /\ Posted("timeout", c, "canceled")' = Posted("timeout", c, "canceled")
        /\ Posted("timeout", c, "time")' = Posted("timeout", c, "time") - (IF res = "time" THEN 1 ELSE 0)
        /\ Posted("timeout", c, "late")' = Posted("timeout", c, "late")
                                             - (IF res = "late" THEN 1 ELSE 0)
    BY SMTT(60), <1>4, <1>8
  <2>. QED  BY <1>8, <2>1 DEF Reads, Writes, Expiries, Timeouts
<1>10. FunctorInv(c)'
  BY SMTT(60), <1>1, <1>2, <1>3, <1>4d, <1>8 DEF FunctorInv, LifeInv, TypeOK, Kinds
<1>11. LifeInv(c)'
  BY <1>1, <1>2, <1>3, <1>4, <1>4b, <1>8 DEF FunctorInv, LifeInv, TypeOK, Kinds
<1>12. RequestInv(c)'
  BY <1>1, <1>2, <1>3, <1>4b, <1>9 DEF RequestInv, TypeOK
<1>13. TimeoutInv(c)'
  BY <1>1, <1>2, <1>3, <1>4b, <1>4c, <1>4d, <1>4e, <1>9
     DEF RequestInv, TimeoutInv, TypeOK
<1>14. BufferInv(c)' /\ PhaseInv(c)'
  BY <1>1, <1>2, <1>3, <1>4b, <1>8 DEF BufferInv, PhaseInv, TypeOK, Running
<1>. QED
  BY <1>3, <1>4, <1>5, <1>6, <1>7, <1>10, <1>11, <1>12, <1>13, <1>14 DEF IInv, ConnInv

-----------------------------------------------------------------------------
(* The functors the I/O loop runs                                           *)

\* A connection is established once, before anything else happens to it.
LEMMA ConnectEstablishedKeeps ==
    ASSUME IInv, NEW c \in Conns, ConnectEstablished(c)
    PROVE  IInv'
<1>1. TypeOK /\ QueuesOK /\ BufferCountInv /\ \A d \in Conns : ConnInv(d)
  BY QueuesTyped DEF IInv
<1>2. /\ FunctorInv(c) /\ LifeInv(c) /\ RequestInv(c) /\ TimeoutInv(c)
      /\ BufferInv(c) /\ PhaseInv(c)
  BY <1>1 DEF ConnInv
<1>3. /\ Runs("established", c) /\ phase = "run" /\ LoopThreadFree
      /\ state' = [state EXCEPT ![c] = "connected"]
      /\ coro' = [coro EXCEPT ![c] = "read"]
      /\ connections' = connections /\ invoked' = invoked /\ sock' = sock
      /\ idx' = idx /\ free' = free /\ rd' = rd /\ tm' = tm /\ wr' = wr
      /\ cq' = cq /\ peer' = peer /\ mainQ' = mainQ /\ ioQ' = ioQ
      /\ phase' = phase
  BY DEF ConnectEstablished, Runs, bufferVars, ringVars, taskVars
<1>4. /\ batch' \in Seq(Tasks) /\ InLoop("established", c) > 0
      /\ \A d \in Conns : /\ d # c => \A k \in Kinds : InLoop(k, d)' = InLoop(k, d)
                          /\ Removals(d)' = Removals(d)
                          /\ \A k, r : Posted(k, d, r)' = Posted(k, d, r)
                          /\ LateInv(d)'
      /\ \A k \in Kinds \ {"established"} : InLoop(k, c)' = InLoop(k, c)
      /\ InLoop("established", c)' = InLoop("established", c) - 1
  <2>1. "established" \in Kinds
    BY DEF Kinds
  <2>2. /\ batch' \in Seq(Tasks) /\ InLoop("established", c) > 0
        /\ \A k \in Kinds, d \in Conns :
               InLoop(k, d)' = InLoop(k, d) - (IF k = "established" /\ d = c THEN 1 ELSE 0)
    BY <1>1, <1>3, <2>1, RunTask
  <2>3. \A d \in Conns : Removals(d) \in Nat /\ \A k \in Kinds : InLoop(k, d) \in Nat
    BY <1>1, CountsAreNat
  <2>4. /\ \A d \in Conns : d # c => \A k \in Kinds : InLoop(k, d)' = InLoop(k, d)
        /\ \A k \in Kinds \ {"established"} : InLoop(k, c)' = InLoop(k, c)
        /\ InLoop("established", c)' = InLoop("established", c) - 1
    BY <2>1, <2>2, <2>3
  <2>. QED  BY <1>1, <1>3, <2>2, <2>4, KeepPosted, KeepRemovals DEF ConnInv
<1>4b. state[c] = "connecting" /\ coro[c] = "none"
  BY <1>1, <1>2, <1>4 DEF FunctorInv, LifeInv, TypeOK
<1>5. BufferCountInv'
  BY <1>1, <1>3, KeepBuffers DEF bufferVars
<1>6. TypeOK'
  BY <1>1, <1>3, <1>4 DEF TypeOK, Running, Suspended
<1>7. ASSUME NEW d \in Conns, d # c PROVE ConnInv(d)'
  <2>1. Untouched(d)
    BY <1>1, <1>3, <1>4, <1>7 DEF Untouched, TypeOK
  <2>. QED  BY <1>1, <1>4, <2>1, OthersKeep DEF ConnInv
<1>8. /\ InLoop("established", c) \in Nat /\ InLoop("close", c) \in Nat
      /\ InLoop("destroyed", c) \in Nat /\ Removals(c) \in Nat
      /\ \A k, r : Posted(k, c, r) \in Nat
  BY <1>1, CountsAreNat DEF Kinds
<1>9. /\ Posted("timeout", c, "time")' = Posted("timeout", c, "time")
      /\ Posted("timeout", c, "late")' = Posted("timeout", c, "late")
      /\ Posted("read", c, "data")' = Posted("read", c, "data")
      /\ Posted("read", c, "end")' = Posted("read", c, "end")
      /\ Reads(c)' = Reads(c) /\ Writes(c)' = Writes(c)
      /\ Expiries(c)' = Expiries(c) /\ Timeouts(c)' = Timeouts(c)
      /\ Reads(c) \in Nat /\ Writes(c) \in Nat /\ Expiries(c) \in Nat
      /\ Timeouts(c) \in Nat
  <2>1. /\ Posted("read", c, "data")' = Posted("read", c, "data")
        /\ Posted("read", c, "end")' = Posted("read", c, "end")
        /\ Posted("read", c, "canceled")' = Posted("read", c, "canceled")
        /\ Posted("write", c, "ok")' = Posted("write", c, "ok")
        /\ Posted("write", c, "error")' = Posted("write", c, "error")
        /\ Posted("timeout", c, "canceled")' = Posted("timeout", c, "canceled")
        /\ Posted("timeout", c, "time")' = Posted("timeout", c, "time")
        /\ Posted("timeout", c, "late")' = Posted("timeout", c, "late")
    BY <1>4
  <2>. QED  BY <1>8, <2>1 DEF Reads, Writes, Expiries, Timeouts
<1>10. FunctorInv(c)'
  BY <1>1, <1>2, <1>3, <1>4, <1>8 DEF FunctorInv, LifeInv, TypeOK, Kinds
<1>11. LifeInv(c)'
  BY <1>1, <1>2, <1>3, <1>4, <1>4b, <1>8 DEF FunctorInv, LifeInv, TypeOK, Kinds
<1>12. RequestInv(c)'
  BY <1>1, <1>2, <1>3, <1>4b, <1>9 DEF RequestInv, TypeOK
<1>13. TimeoutInv(c)'
  BY <1>1, <1>2, <1>3, <1>4b, <1>8, <1>9
     DEF RequestInv, TimeoutInv, TypeOK
<1>14. BufferInv(c)' /\ PhaseInv(c)'
  BY <1>1, <1>2, <1>3, <1>4b, <1>8 DEF BufferInv, PhaseInv, TypeOK, Running
<1>. QED
  BY <1>3, <1>4, <1>5, <1>6, <1>7, <1>10, <1>11, <1>12, <1>13, <1>14 DEF IInv, ConnInv

\* handleClose passes the business of closing on to the main loop, or loses it.
LEMMA HandleCloseKeeps ==
    ASSUME IInv, NEW c \in Conns, HandleClose(c)
    PROVE  IInv'
<1>1. TypeOK /\ QueuesOK /\ BufferCountInv /\ \A d \in Conns : ConnInv(d)
  BY QueuesTyped DEF IInv
<1>2. /\ FunctorInv(c) /\ LifeInv(c) /\ RequestInv(c) /\ TimeoutInv(c)
      /\ BufferInv(c) /\ PhaseInv(c)
  BY <1>1 DEF ConnInv
<1>3. /\ Runs("close", c) /\ phase = "run" /\ LoopThreadFree
      /\ \/ UNCHANGED <<state, invoked, mainQ>> /\ state[c] = "disconnected"
         \/ /\ state' = [state EXCEPT ![c] = "disconnecting"]
            /\ invoked' = [invoked EXCEPT ![c] = TRUE]
            /\ mainQ' = mainQ \/ mainQ' = Queued(mainQ, c)
      /\ connections' = connections /\ sock' = sock /\ coro' = coro
      /\ idx' = idx /\ free' = free /\ rd' = rd /\ tm' = tm /\ wr' = wr
      /\ cq' = cq /\ peer' = peer /\ ioQ' = ioQ /\ phase' = phase
  BY DEF HandleClose, Runs, bufferVars, ringVars, taskVars
<1>4. /\ batch' \in Seq(Tasks) /\ InLoop("close", c) > 0
      /\ \A d \in Conns : /\ d # c => \A k \in Kinds : InLoop(k, d)' = InLoop(k, d)
                          /\ d # c => Removals(d)' = Removals(d)
                          /\ \A k, r : Posted(k, d, r)' = Posted(k, d, r)
                          /\ LateInv(d)'
      /\ \A k \in Kinds \ {"close"} : InLoop(k, c)' = InLoop(k, c)
      /\ InLoop("close", c)' = InLoop("close", c) - 1
      /\ mainQ' \in Seq(Conns)
      /\ Removals(c)' \in {Removals(c), Removals(c) + 1}
      /\ mainQ' = mainQ => Removals(c)' = Removals(c)
  <2>1. "close" \in Kinds
    BY DEF Kinds
  <2>2. /\ batch' \in Seq(Tasks) /\ InLoop("close", c) > 0
        /\ \A k \in Kinds, d \in Conns :
               InLoop(k, d)' = InLoop(k, d) - (IF k = "close" /\ d = c THEN 1 ELSE 0)
    BY <1>1, <1>3, <2>1, RunTask
  <2>3. \A d \in Conns : Removals(d) \in Nat /\ \A k \in Kinds : InLoop(k, d) \in Nat
    BY <1>1, CountsAreNat
  <2>4. /\ \A d \in Conns : d # c => \A k \in Kinds : InLoop(k, d)' = InLoop(k, d)
        /\ \A k \in Kinds \ {"close"} : InLoop(k, c)' = InLoop(k, c)
        /\ InLoop("close", c)' = InLoop("close", c) - 1
    BY <2>1, <2>2, <2>3
  <2>5. /\ mainQ' \in Seq(Conns)
        /\ \A d \in Conns : d # c => Removals(d)' = Removals(d)
        /\ Removals(c)' \in {Removals(c), Removals(c) + 1}
        /\ mainQ' = mainQ => Removals(c)' = Removals(c)
    <3>1. CASE mainQ' = mainQ
      BY <1>1, <3>1, KeepRemovals DEF QueuesOK
    <3>2. CASE mainQ' # mainQ
      <4>1. /\ mainQ' \in Seq(Conns)
            /\ \E n \in {0, 1} : \A d \in Conns :
                   Removals(d)' = Removals(d) + (IF d = c THEN n ELSE 0)
        BY <1>1, <1>3, <3>2, QueueRemoval
      <4>. QED  BY <2>3, <3>2, <4>1
    <3>. QED  BY <3>1, <3>2
  <2>. QED  BY <1>1, <1>3, <2>2, <2>4, <2>5, KeepPosted DEF ConnInv
<1>4b. state[c] = "disconnecting" /\ Timeouts(c) = 0
  <2>1. Timeouts(c) \in Nat
    BY <1>1, CountsAreNat DEF Timeouts, Expiries
  <2>. QED  BY <1>2, <1>3, <1>4, <2>1 DEF FunctorInv, TimeoutInv
<1>5. BufferCountInv'
  BY <1>1, <1>3, KeepBuffers DEF bufferVars
<1>6. TypeOK'
  BY <1>1, <1>3, <1>4 DEF TypeOK
<1>7. ASSUME NEW d \in Conns, d # c PROVE ConnInv(d)'
  <2>1. Untouched(d)
    BY <1>1, <1>3, <1>4, <1>7 DEF Untouched, TypeOK
  <2>. QED  BY <1>1, <1>4, <2>1, OthersKeep DEF ConnInv
<1>8. /\ InLoop("established", c) \in Nat /\ InLoop("close", c) \in Nat
      /\ InLoop("destroyed", c) \in Nat /\ Removals(c) \in Nat
      /\ \A k, r : Posted(k, c, r) \in Nat
  BY <1>1, CountsAreNat DEF Kinds
<1>9. /\ Posted("timeout", c, "time")' = Posted("timeout", c, "time")
      /\ Posted("timeout", c, "late")' = Posted("timeout", c, "late")
      /\ Posted("read", c, "data")' = Posted("read", c, "data")
      /\ Posted("read", c, "end")' = Posted("read", c, "end")
      /\ Reads(c)' = Reads(c) /\ Writes(c)' = Writes(c)
      /\ Expiries(c)' = Expiries(c) /\ Timeouts(c)' = Timeouts(c)
      /\ Reads(c) \in Nat /\ Writes(c) \in Nat /\ Expiries(c) \in Nat
      /\ Timeouts(c) \in Nat
  <2>1. /\ Posted("read", c, "data")' = Posted("read", c, "data")
        /\ Posted("read", c, "end")' = Posted("read", c, "end")
        /\ Posted("read", c, "canceled")' = Posted("read", c, "canceled")
        /\ Posted("write", c, "ok")' = Posted("write", c, "ok")
        /\ Posted("write", c, "error")' = Posted("write", c, "error")
        /\ Posted("timeout", c, "canceled")' = Posted("timeout", c, "canceled")
        /\ Posted("timeout", c, "time")' = Posted("timeout", c, "time")
        /\ Posted("timeout", c, "late")' = Posted("timeout", c, "late")
    BY <1>4
  <2>. QED  BY <1>8, <2>1 DEF Reads, Writes, Expiries, Timeouts
<1>10. FunctorInv(c)'
  BY <1>1, <1>2, <1>3, <1>4, <1>8 DEF FunctorInv, LifeInv, TypeOK, Kinds
<1>11. LifeInv(c)'
  BY <1>1, <1>2, <1>3, <1>4, <1>4b, <1>8 DEF FunctorInv, LifeInv, TypeOK, Kinds
<1>12. RequestInv(c)'
  BY <1>1, <1>2, <1>3, <1>4b, <1>9 DEF RequestInv, TypeOK
<1>13. TimeoutInv(c)'
  BY <1>1, <1>2, <1>3, <1>4b, <1>8, <1>9
     DEF RequestInv, TimeoutInv, TypeOK
<1>14. BufferInv(c)' /\ PhaseInv(c)'
  BY <1>1, <1>2, <1>3, <1>4b, <1>8 DEF BufferInv, PhaseInv, TypeOK, Running
<1>. QED
  BY <1>3, <1>4, <1>5, <1>6, <1>7, <1>10, <1>11, <1>12, <1>13, <1>14 DEF IInv, ConnInv

\* connectDestroyed finds a connection that is closed and not in the list.
LEMMA ConnectDestroyedKeeps ==
    ASSUME IInv, NEW c \in Conns, ConnectDestroyed(c)
    PROVE  IInv'
<1>1. TypeOK /\ QueuesOK /\ BufferCountInv /\ \A d \in Conns : ConnInv(d)
  BY QueuesTyped DEF IInv
<1>2. /\ FunctorInv(c) /\ LifeInv(c) /\ RequestInv(c) /\ TimeoutInv(c)
      /\ BufferInv(c) /\ PhaseInv(c)
  BY <1>1 DEF ConnInv
<1>3. /\ Runs("destroyed", c) /\ phase = "run" /\ LoopThreadFree
      /\ state' = [state EXCEPT ![c] = IF @ \in {"connected", "disconnecting"}
                                     THEN "disconnected" ELSE @]
      /\ invoked' = [invoked EXCEPT ![c] = TRUE]
      /\ sock' = [sock EXCEPT ![c] = "closed"]
      /\ connections' = connections /\ coro' = coro /\ idx' = idx
      /\ free' = free /\ rd' = rd /\ tm' = tm /\ wr' = wr /\ cq' = cq
      /\ peer' = peer /\ mainQ' = mainQ /\ ioQ' = ioQ /\ phase' = phase
  BY DEF ConnectDestroyed, Runs, bufferVars, ringVars, taskVars
<1>4. /\ batch' \in Seq(Tasks) /\ InLoop("destroyed", c) > 0
      /\ \A d \in Conns : /\ d # c => \A k \in Kinds : InLoop(k, d)' = InLoop(k, d)
                          /\ Removals(d)' = Removals(d)
                          /\ \A k, r : Posted(k, d, r)' = Posted(k, d, r)
                          /\ LateInv(d)'
      /\ \A k \in Kinds \ {"destroyed"} : InLoop(k, c)' = InLoop(k, c)
      /\ InLoop("destroyed", c)' = InLoop("destroyed", c) - 1
  <2>1. "destroyed" \in Kinds
    BY DEF Kinds
  <2>2. /\ batch' \in Seq(Tasks) /\ InLoop("destroyed", c) > 0
        /\ \A k \in Kinds, d \in Conns :
               InLoop(k, d)' = InLoop(k, d) - (IF k = "destroyed" /\ d = c THEN 1 ELSE 0)
    BY <1>1, <1>3, <2>1, RunTask
  <2>3. \A d \in Conns : Removals(d) \in Nat /\ \A k \in Kinds : InLoop(k, d) \in Nat
    BY <1>1, CountsAreNat
  <2>4. /\ \A d \in Conns : d # c => \A k \in Kinds : InLoop(k, d)' = InLoop(k, d)
        /\ \A k \in Kinds \ {"destroyed"} : InLoop(k, c)' = InLoop(k, c)
        /\ InLoop("destroyed", c)' = InLoop("destroyed", c) - 1
    BY <2>1, <2>2, <2>3
  <2>. QED  BY <1>1, <1>3, <2>2, <2>4, KeepPosted, KeepRemovals DEF ConnInv
<1>4b. /\ invoked[c] /\ c \notin connections /\ state[c] \in {"disconnecting", "disconnected"}
       /\ Timeouts(c) = 0
  <2>1. Timeouts(c) \in Nat
    BY <1>1, CountsAreNat DEF Timeouts, Expiries
  <2>. QED  BY <1>2, <1>3, <1>4, <2>1 DEF FunctorInv, LifeInv, TimeoutInv
<1>5. BufferCountInv'
  BY <1>1, <1>3, KeepBuffers DEF bufferVars
<1>6. TypeOK'
  BY <1>1, <1>3, <1>4 DEF TypeOK
<1>7. ASSUME NEW d \in Conns, d # c PROVE ConnInv(d)'
  <2>1. Untouched(d)
    BY <1>1, <1>3, <1>4, <1>7 DEF Untouched, TypeOK
  <2>. QED  BY <1>1, <1>4, <2>1, OthersKeep DEF ConnInv
<1>8. /\ InLoop("established", c) \in Nat /\ InLoop("close", c) \in Nat
      /\ InLoop("destroyed", c) \in Nat /\ Removals(c) \in Nat
      /\ \A k, r : Posted(k, c, r) \in Nat
  BY <1>1, CountsAreNat DEF Kinds
<1>9. /\ Posted("timeout", c, "time")' = Posted("timeout", c, "time")
      /\ Posted("timeout", c, "late")' = Posted("timeout", c, "late")
      /\ Posted("read", c, "data")' = Posted("read", c, "data")
      /\ Posted("read", c, "end")' = Posted("read", c, "end")
      /\ Reads(c)' = Reads(c) /\ Writes(c)' = Writes(c)
      /\ Expiries(c)' = Expiries(c) /\ Timeouts(c)' = Timeouts(c)
      /\ Reads(c) \in Nat /\ Writes(c) \in Nat /\ Expiries(c) \in Nat
      /\ Timeouts(c) \in Nat
  <2>1. /\ Posted("read", c, "data")' = Posted("read", c, "data")
        /\ Posted("read", c, "end")' = Posted("read", c, "end")
        /\ Posted("read", c, "canceled")' = Posted("read", c, "canceled")
        /\ Posted("write", c, "ok")' = Posted("write", c, "ok")
        /\ Posted("write", c, "error")' = Posted("write", c, "error")
        /\ Posted("timeout", c, "canceled")' = Posted("timeout", c, "canceled")
        /\ Posted("timeout", c, "time")' = Posted("timeout", c, "time")
        /\ Posted("timeout", c, "late")' = Posted("timeout", c, "late")
    BY <1>4
  <2>. QED  BY <1>8, <2>1 DEF Reads, Writes, Expiries, Timeouts
<1>10. FunctorInv(c)'
  BY <1>1, <1>2, <1>3, <1>4, <1>8 DEF FunctorInv, LifeInv, TypeOK, Kinds
<1>11. LifeInv(c)'
  BY <1>1, <1>2, <1>3, <1>4, <1>4b, <1>8 DEF FunctorInv, LifeInv, TypeOK, Kinds
<1>12. RequestInv(c)'
  BY <1>1, <1>2, <1>3, <1>4b, <1>9 DEF RequestInv, TypeOK
<1>13. TimeoutInv(c)'
  BY <1>1, <1>2, <1>3, <1>4b, <1>8, <1>9
     DEF RequestInv, TimeoutInv, TypeOK
<1>14. BufferInv(c)' /\ PhaseInv(c)'
  BY <1>1, <1>2, <1>3, <1>4b, <1>8 DEF BufferInv, PhaseInv, TypeOK, Running
<1>. QED
  BY <1>3, <1>4, <1>5, <1>6, <1>7, <1>10, <1>11, <1>12, <1>13, <1>14 DEF IInv, ConnInv

-----------------------------------------------------------------------------
(* The completions the kernel posts                                         *)

LEMMA LateOne ==
    ASSUME QueuesOK, NEW d, LateInv(d), NEW e \in Completions, cq' = Append(cq, e),
           IsLate(e, d) => \A j \in 1 .. Len(cq) : ~IsRead(cq[j], d)
    PROVE  LateInv(d)'
<1>1. cq \in Seq(Completions)
  BY DEF QueuesOK
<1>2. \A i, j \in 1 .. Len(cq) : IsLate(cq[i], d) /\ IsRead(cq[j], d) => i < j
  BY LateInvIs
<1>3. \A i, j \in 1 .. Len(cq') : IsLate(cq'[i], d) /\ IsRead(cq'[j], d) => i < j
  BY <1>1, <1>2, LateAppend
<1>. QED  BY <1>3 DEF LateInv, IsLate, IsRead

LEMMA LateTwo ==
    ASSUME QueuesOK, NEW d, LateInv(d), NEW e \in Completions, NEW f \in Completions,
           ~IsLate(e, d), ~IsLate(f, d), Post(e, f)
    PROVE  LateInv(d)'
<1>1. cq \in Seq(Completions)
  BY DEF QueuesOK
<1>2. \A i, j \in 1 .. Len(cq) : IsLate(cq[i], d) /\ IsRead(cq[j], d) => i < j
  BY LateInvIs
<1>3. ASSUME NEW a \in {e, f}, NEW b \in {e, f}, cq' = cq \o <<a, b>>
      PROVE  LateInv(d)'
  <2>1. a \in Completions /\ b \in Completions /\ ~IsLate(a, d) /\ ~IsLate(b, d)
    OBVIOUS
  <2>2. cq' = Append(Append(cq, a), b)
    BY <1>1, <1>3
  <2>3. Append(cq, a) \in Seq(Completions)
    BY <1>1, <2>1, AppendProperties
  <2>. DEFINE q == Append(cq, a)
  <2>4. \A i, j \in 1 .. Len(q) : IsLate(q[i], d) /\ IsRead(q[j], d) => i < j
    BY <1>1, <1>2, <2>1, LateAppend
  <2>5. q \in Seq(Completions) /\ cq' = Append(q, b)
    BY <2>2, <2>3
  <2>. HIDE DEF q
  <2>6. \A i, j \in 1 .. Len(cq') : IsLate(cq'[i], d) /\ IsRead(cq'[j], d) => i < j
    BY <2>1, <2>4, <2>5, LateAppend
  <2>. QED  BY <2>6 DEF LateInv, IsLate, IsRead
<1>. QED  BY <1>3 DEF Post

\* A read without a timeout completes.
LEMMA ReadCompletesAloneKeeps ==
    ASSUME IInv, NEW c \in Conns, NEW res \in {"data", "end"}, ReadCompletes(c),
           tm[c] # "submitted", cq' = Append(cq, <<"read", c, res>>)
    PROVE  IInv'
<1>1. TypeOK /\ QueuesOK /\ BufferCountInv /\ \A d \in Conns : ConnInv(d)
  BY QueuesTyped DEF IInv
<1>2. /\ FunctorInv(c) /\ LifeInv(c) /\ RequestInv(c) /\ TimeoutInv(c)
      /\ BufferInv(c) /\ PhaseInv(c)
  BY <1>1 DEF ConnInv
<1>3. /\ rd[c] = "submitted" /\ tm[c] # "submitted" /\ res \in {"data", "end"}
      /\ rd' = [rd EXCEPT ![c] = "none"] /\ tm' = [tm EXCEPT ![c] = "none"]
      /\ cq' = Append(cq, <<"read", c, res>>)
      /\ connections' = connections /\ state' = state /\ invoked' = invoked
      /\ sock' = sock /\ coro' = coro /\ idx' = idx /\ free' = free
      /\ wr' = wr /\ peer' = peer /\ mainQ' = mainQ /\ ioQ' = ioQ
      /\ batch' = batch /\ phase' = phase
  BY DEF ReadCompletes, lifeVars, bufferVars, taskVars
<1>4. /\ cq' \in Seq(Completions)
      /\ \A d \in Conns : /\ \A k \in Kinds : InLoop(k, d)' = InLoop(k, d)
                          /\ Removals(d)' = Removals(d)
                          /\ d # c => \A k, r : Posted(k, d, r)' = Posted(k, d, r)
                          /\ LateInv(d)'
      /\ \A k, r : Posted(k, c, r)' = Posted(k, c, r)
                                      + (IF k = "read" /\ r = res THEN 1 ELSE 0)
  <2>1. <<"read", c, res>> \in Completions
    BY <1>3 DEF Completions
  <2>2. /\ cq' \in Seq(Completions)
        /\ \A k, d, r : Posted(k, d, r)' = Posted(k, d, r)
                            + (IF k = "read" /\ d = c /\ r = res THEN 1 ELSE 0)
    BY <1>1, <1>3, <2>1, PostOne
  <2>3. \A d \in Conns : LateInv(d)'
    <3>1. \A d \in Conns : ~IsLate(<<"read", c, res>>, d)
      BY <1>3 DEF IsLate
    <3>. QED  BY <1>1, <1>3, <2>1, <3>1, LateOne DEF ConnInv
  <2>4. \A d \in Conns : \A k, r : Posted(k, d, r) \in Nat
    BY <1>1, CountsAreNat
  <2>. QED  BY <1>3, <2>2, <2>3, <2>4, KeepFunctors, KeepRemovals
<1>4b. /\ coro[c] = "reading" /\ Reads(c) = 0
       /\ tm[c] # "none" => state[c] = "connected" /\ ~invoked[c] /\ Expiries(c) = 0
       /\ Posted("timeout", c, "time") = 0
       /\ Posted("read", c, "data") = 0 /\ Posted("read", c, "end") = 0
  <2>1. \A k, r : Posted(k, c, r) \in Nat
    BY <1>1, CountsAreNat
  <2>2. coro[c] = "reading" /\ Reads(c) = 0
    BY <1>2, <1>3, <2>1 DEF RequestInv, Reads
  <2>3. tm[c] # "none" => state[c] = "connected" /\ ~invoked[c] /\ Expiries(c) = 0
    BY <1>2 DEF TimeoutInv, LifeInv
  <2>4. Posted("timeout", c, "time") = 0
    BY <1>2, <1>3, <2>1 DEF TimeoutInv
  <2>. QED  BY <2>1, <2>2, <2>3, <2>4 DEF Reads
<1>5. BufferCountInv'
  BY <1>1, <1>3, KeepBuffers DEF bufferVars
<1>6. TypeOK'
  BY <1>1, <1>3, <1>4, <1>5 DEF TypeOK
<1>7. ASSUME NEW d \in Conns, d # c PROVE ConnInv(d)'
  <2>1. Untouched(d)
    BY <1>1, <1>3, <1>4, <1>7 DEF Untouched, TypeOK
  <2>. QED  BY <1>1, <1>4, <2>1, OthersKeep DEF ConnInv
<1>8. /\ InLoop("established", c) \in Nat /\ InLoop("close", c) \in Nat
      /\ InLoop("destroyed", c) \in Nat /\ Removals(c) \in Nat
      /\ \A k, r : Posted(k, c, r) \in Nat
  BY <1>1, CountsAreNat DEF Kinds
<1>9. /\ Posted("timeout", c, "time")' = Posted("timeout", c, "time")
      /\ Posted("timeout", c, "late")' = Posted("timeout", c, "late")
      /\ Posted("read", c, "data")' = Posted("read", c, "data") + (IF res = "data" THEN 1 ELSE 0)
      /\ Posted("read", c, "end")' = Posted("read", c, "end") + (IF res = "end" THEN 1 ELSE 0)
      /\ Reads(c)' = Reads(c) + 1 /\ Writes(c)' = Writes(c)
      /\ Expiries(c)' = Expiries(c) /\ Timeouts(c)' = Timeouts(c)
      /\ Reads(c) \in Nat /\ Writes(c) \in Nat /\ Expiries(c) \in Nat
      /\ Timeouts(c) \in Nat
  <2>1. /\ Posted("read", c, "data")' = Posted("read", c, "data") + (IF res = "data" THEN 1 ELSE 0)
        /\ Posted("read", c, "end")' = Posted("read", c, "end") + (IF res = "end" THEN 1 ELSE 0)
        /\ Posted("read", c, "canceled")' = Posted("read", c, "canceled")
        /\ Posted("write", c, "ok")' = Posted("write", c, "ok")
        /\ Posted("write", c, "error")' = Posted("write", c, "error")
        /\ Posted("timeout", c, "canceled")' = Posted("timeout", c, "canceled")
        /\ Posted("timeout", c, "time")' = Posted("timeout", c, "time")
        /\ Posted("timeout", c, "late")' = Posted("timeout", c, "late")
    BY ONLY <1>4, <1>8, res \in {"data", "end"}
  <2>. QED  BY ONLY res \in {"data", "end"}, <1>8, <2>1 DEF Reads, Writes, Expiries, Timeouts
<1>10. FunctorInv(c)'
  BY <1>1, <1>2, <1>3, <1>4, <1>8 DEF FunctorInv, LifeInv, TypeOK, Kinds
<1>11. LifeInv(c)'
  BY <1>1, <1>2, <1>3, <1>4, <1>4b, <1>8 DEF FunctorInv, LifeInv, TypeOK, Kinds
<1>12. RequestInv(c)'
  BY <1>1, <1>2, <1>3, <1>4b, <1>9 DEF RequestInv, TypeOK
<1>13. TimeoutInv(c)'
  BY <1>1, <1>2, <1>3, <1>4b, <1>8, <1>9
     DEF RequestInv, TimeoutInv, TypeOK
<1>14. BufferInv(c)' /\ PhaseInv(c)'
  BY <1>1, <1>2, <1>3, <1>4b, <1>8 DEF BufferInv, PhaseInv, TypeOK, Running
<1>. QED
  BY <1>3, <1>4, <1>5, <1>6, <1>7, <1>10, <1>11, <1>12, <1>13, <1>14 DEF IInv, ConnInv

\* A read that completes cancels its timeout.
LEMMA ReadCompletesKeeps ==
    ASSUME IInv, NEW c \in Conns, NEW res \in {"data", "end"}, ReadCompletes(c),
           tm[c] = "submitted", Post(<<"read", c, res>>, <<"timeout", c, "canceled">>)
    PROVE  IInv'
<1>1. TypeOK /\ QueuesOK /\ BufferCountInv /\ \A d \in Conns : ConnInv(d)
  BY QueuesTyped DEF IInv
<1>2. /\ FunctorInv(c) /\ LifeInv(c) /\ RequestInv(c) /\ TimeoutInv(c)
      /\ BufferInv(c) /\ PhaseInv(c)
  BY <1>1 DEF ConnInv
<1>3. /\ rd[c] = "submitted" /\ tm[c] = "submitted" /\ res \in {"data", "end"}
      /\ rd' = [rd EXCEPT ![c] = "none"] /\ tm' = [tm EXCEPT ![c] = "none"]
      /\ Post(<<"read", c, res>>, <<"timeout", c, "canceled">>)
      /\ connections' = connections /\ state' = state /\ invoked' = invoked
      /\ sock' = sock /\ coro' = coro /\ idx' = idx /\ free' = free
      /\ wr' = wr /\ peer' = peer /\ mainQ' = mainQ /\ ioQ' = ioQ
      /\ batch' = batch /\ phase' = phase
  BY DEF ReadCompletes, lifeVars, bufferVars, taskVars
<1>4. /\ cq' \in Seq(Completions)
      /\ \A d \in Conns : /\ \A k \in Kinds : InLoop(k, d)' = InLoop(k, d)
                          /\ Removals(d)' = Removals(d)
                          /\ d # c => \A k, r : Posted(k, d, r)' = Posted(k, d, r)
                          /\ LateInv(d)'
      /\ \A k, r : Posted(k, c, r)' = Posted(k, c, r)
                                      + (IF k = "read" /\ r = res THEN 1 ELSE 0)
                                      + (IF k = "timeout" /\ r = "canceled" THEN 1 ELSE 0)
  <2>1. <<"read", c, res>> \in Completions /\ <<"timeout", c, "canceled">> \in Completions
    BY <1>3 DEF Completions
  <2>2. /\ cq' \in Seq(Completions)
        /\ \A k, d, r : Posted(k, d, r)' = Posted(k, d, r)
                            + (IF k = "read" /\ d = c /\ r = res THEN 1 ELSE 0)
                            + (IF k = "timeout" /\ d = c /\ r = "canceled" THEN 1 ELSE 0)
    BY <1>1, <1>3, <2>1, PostTwo
  <2>3. \A d \in Conns : LateInv(d)'
    <3>1. \A d \in Conns : /\ ~IsLate(<<"read", c, res>>, d)
                           /\ ~IsLate(<<"timeout", c, "canceled">>, d)
      BY <1>3 DEF IsLate
    <3>. QED  BY <1>1, <1>3, <2>1, <3>1, LateTwo DEF ConnInv
  <2>4. \A d \in Conns : \A k, r : Posted(k, d, r) \in Nat
    BY <1>1, CountsAreNat
  <2>. QED  BY <1>3, <2>2, <2>3, <2>4, KeepFunctors, KeepRemovals
<1>4b. /\ coro[c] = "reading" /\ Reads(c) = 0
       /\ tm[c] # "none" => state[c] = "connected" /\ ~invoked[c] /\ Expiries(c) = 0
       /\ Posted("timeout", c, "time") = 0
       /\ Posted("read", c, "data") = 0 /\ Posted("read", c, "end") = 0
  <2>1. \A k, r : Posted(k, c, r) \in Nat
    BY <1>1, CountsAreNat
  <2>2. coro[c] = "reading" /\ Reads(c) = 0
    BY <1>2, <1>3, <2>1 DEF RequestInv, Reads
  <2>3. tm[c] # "none" => state[c] = "connected" /\ ~invoked[c] /\ Expiries(c) = 0
    BY <1>2 DEF TimeoutInv, LifeInv
  <2>4. Posted("timeout", c, "time") = 0
    BY <1>2, <1>3, <2>1 DEF TimeoutInv
  <2>. QED  BY <2>1, <2>2, <2>3, <2>4 DEF Reads
<1>5. BufferCountInv'
  BY <1>1, <1>3, KeepBuffers DEF bufferVars
<1>6. TypeOK'
  BY <1>1, <1>3, <1>4, <1>5 DEF TypeOK
<1>7. ASSUME NEW d \in Conns, d # c PROVE ConnInv(d)'
  <2>1. Untouched(d)
    BY <1>1, <1>3, <1>4, <1>7 DEF Untouched, TypeOK
  <2>. QED  BY <1>1, <1>4, <2>1, OthersKeep DEF ConnInv
<1>8. /\ InLoop("established", c) \in Nat /\ InLoop("close", c) \in Nat
      /\ InLoop("destroyed", c) \in Nat /\ Removals(c) \in Nat
      /\ \A k, r : Posted(k, c, r) \in Nat
  BY <1>1, CountsAreNat DEF Kinds
<1>9. /\ Posted("timeout", c, "time")' = Posted("timeout", c, "time")
      /\ Posted("timeout", c, "late")' = Posted("timeout", c, "late")
      /\ Posted("read", c, "data")' = Posted("read", c, "data") + (IF res = "data" THEN 1 ELSE 0)
      /\ Posted("read", c, "end")' = Posted("read", c, "end") + (IF res = "end" THEN 1 ELSE 0)
      /\ Reads(c)' = Reads(c) + 1 /\ Writes(c)' = Writes(c)
      /\ Expiries(c)' = Expiries(c) /\ Timeouts(c)' = Timeouts(c) + 1
      /\ Reads(c) \in Nat /\ Writes(c) \in Nat /\ Expiries(c) \in Nat
      /\ Timeouts(c) \in Nat
  <2>1. /\ Posted("read", c, "data")' = Posted("read", c, "data") + (IF res = "data" THEN 1 ELSE 0)
        /\ Posted("read", c, "end")' = Posted("read", c, "end") + (IF res = "end" THEN 1 ELSE 0)
        /\ Posted("read", c, "canceled")' = Posted("read", c, "canceled")
        /\ Posted("write", c, "ok")' = Posted("write", c, "ok")
        /\ Posted("write", c, "error")' = Posted("write", c, "error")
        /\ Posted("timeout", c, "canceled")' = Posted("timeout", c, "canceled") + 1
        /\ Posted("timeout", c, "time")' = Posted("timeout", c, "time")
        /\ Posted("timeout", c, "late")' = Posted("timeout", c, "late")
    <3>1. \A k, r : Posted(k, c, r)' = Posted(k, c, r)
                        + (IF k = "read" /\ r = res THEN 1 ELSE 0)
                        + (IF k = "timeout" /\ r = "canceled" THEN 1 ELSE 0)
      BY <1>4
    <3>2. \A k, r : Posted(k, c, r) \in Nat
      BY <1>8
    <3>3. CASE res = "data"
      BY ONLY <3>1, <3>2, <3>3
    <3>4. CASE res = "end"
      BY ONLY <3>1, <3>2, <3>4
    <3>. QED  BY <1>3, <3>3, <3>4
  <2>. QED  BY <1>8, <2>1 DEF Reads, Writes, Expiries, Timeouts
<1>10. FunctorInv(c)'
  BY <1>1, <1>2, <1>3, <1>4, <1>8 DEF FunctorInv, LifeInv, TypeOK, Kinds
<1>11. LifeInv(c)'
  BY <1>1, <1>2, <1>3, <1>4, <1>4b, <1>8 DEF FunctorInv, LifeInv, TypeOK, Kinds
<1>12. RequestInv(c)'
  BY <1>1, <1>2, <1>3, <1>4b, <1>9 DEF RequestInv, TypeOK
<1>13. TimeoutInv(c)'
  BY <1>1, <1>2, <1>3, <1>4b, <1>8, <1>9
     DEF RequestInv, TimeoutInv, TypeOK
<1>14. BufferInv(c)' /\ PhaseInv(c)'
  BY <1>1, <1>2, <1>3, <1>4b, <1>8 DEF BufferInv, PhaseInv, TypeOK, Running
<1>. QED
  BY <1>3, <1>4, <1>5, <1>6, <1>7, <1>10, <1>11, <1>12, <1>13, <1>14 DEF IInv, ConnInv

\* A timeout that expires cancels its read.
LEMMA TimerExpiresKeeps ==
    ASSUME IInv, NEW c \in Conns, TimerExpires(c)
    PROVE  IInv'
<1>1. TypeOK /\ QueuesOK /\ BufferCountInv /\ \A d \in Conns : ConnInv(d)
  BY QueuesTyped DEF IInv
<1>2. /\ FunctorInv(c) /\ LifeInv(c) /\ RequestInv(c) /\ TimeoutInv(c)
      /\ BufferInv(c) /\ PhaseInv(c)
  BY <1>1 DEF ConnInv
<1>3. /\ rd[c] = "submitted" /\ tm[c] = "submitted"
      /\ rd' = [rd EXCEPT ![c] = "none"] /\ tm' = [tm EXCEPT ![c] = "none"]
      /\ Post(<<"timeout", c, "time">>, <<"read", c, "canceled">>)
      /\ connections' = connections /\ state' = state /\ invoked' = invoked
      /\ sock' = sock /\ coro' = coro /\ idx' = idx /\ free' = free
      /\ wr' = wr /\ peer' = peer /\ mainQ' = mainQ /\ ioQ' = ioQ
      /\ batch' = batch /\ phase' = phase
  BY DEF TimerExpires, lifeVars, bufferVars, taskVars
<1>4. /\ cq' \in Seq(Completions)
      /\ \A d \in Conns : /\ \A k \in Kinds : InLoop(k, d)' = InLoop(k, d)
                          /\ Removals(d)' = Removals(d)
                          /\ d # c => \A k, r : Posted(k, d, r)' = Posted(k, d, r)
                          /\ LateInv(d)'
      /\ \A k, r : Posted(k, c, r)' = Posted(k, c, r)
                                      + (IF k = "timeout" /\ r = "time" THEN 1 ELSE 0)
                                      + (IF k = "read" /\ r = "canceled" THEN 1 ELSE 0)
  <2>1. <<"timeout", c, "time">> \in Completions /\ <<"read", c, "canceled">> \in Completions
    BY <1>3 DEF Completions
  <2>2. /\ cq' \in Seq(Completions)
        /\ \A k, d, r : Posted(k, d, r)' = Posted(k, d, r)
                            + (IF k = "timeout" /\ d = c /\ r = "time" THEN 1 ELSE 0)
                            + (IF k = "read" /\ d = c /\ r = "canceled" THEN 1 ELSE 0)
    BY <1>1, <1>3, <2>1, PostTwo
  <2>3. \A d \in Conns : LateInv(d)'
    <3>1. \A d \in Conns : /\ ~IsLate(<<"timeout", c, "time">>, d)
                           /\ ~IsLate(<<"read", c, "canceled">>, d)
      BY <1>3 DEF IsLate
    <3>. QED  BY <1>1, <1>3, <2>1, <3>1, LateTwo DEF ConnInv
  <2>4. \A d \in Conns : \A k, r : Posted(k, d, r) \in Nat
    BY <1>1, CountsAreNat
  <2>. QED  BY <1>3, <2>2, <2>3, <2>4, KeepFunctors, KeepRemovals
<1>4b. /\ coro[c] = "reading" /\ Reads(c) = 0
       /\ tm[c] # "none" => state[c] = "connected" /\ ~invoked[c] /\ Expiries(c) = 0
       /\ Posted("timeout", c, "time") = 0
       /\ Posted("read", c, "data") = 0 /\ Posted("read", c, "end") = 0
  <2>1. \A k, r : Posted(k, c, r) \in Nat
    BY <1>1, CountsAreNat
  <2>2. coro[c] = "reading" /\ Reads(c) = 0
    BY <1>2, <1>3, <2>1 DEF RequestInv, Reads
  <2>3. tm[c] # "none" => state[c] = "connected" /\ ~invoked[c] /\ Expiries(c) = 0
    BY <1>2 DEF TimeoutInv, LifeInv
  <2>4. Posted("timeout", c, "time") = 0
    BY <1>2, <1>3, <2>1 DEF TimeoutInv
  <2>. QED  BY <2>1, <2>2, <2>3, <2>4 DEF Reads
<1>5. BufferCountInv'
  BY <1>1, <1>3, KeepBuffers DEF bufferVars
<1>6. TypeOK'
  BY <1>1, <1>3, <1>4, <1>5 DEF TypeOK
<1>7. ASSUME NEW d \in Conns, d # c PROVE ConnInv(d)'
  <2>1. Untouched(d)
    BY <1>1, <1>3, <1>4, <1>7 DEF Untouched, TypeOK
  <2>. QED  BY <1>1, <1>4, <2>1, OthersKeep DEF ConnInv
<1>8. /\ InLoop("established", c) \in Nat /\ InLoop("close", c) \in Nat
      /\ InLoop("destroyed", c) \in Nat /\ Removals(c) \in Nat
      /\ \A k, r : Posted(k, c, r) \in Nat
  BY <1>1, CountsAreNat DEF Kinds
<1>9. /\ Posted("timeout", c, "time")' = Posted("timeout", c, "time") + 1
      /\ Posted("timeout", c, "late")' = Posted("timeout", c, "late")
      /\ Posted("read", c, "data")' = Posted("read", c, "data")
      /\ Posted("read", c, "end")' = Posted("read", c, "end")
      /\ Reads(c)' = Reads(c) + 1 /\ Writes(c)' = Writes(c)
      /\ Expiries(c)' = Expiries(c) + 1 /\ Timeouts(c)' = Timeouts(c) + 1
      /\ Reads(c) \in Nat /\ Writes(c) \in Nat /\ Expiries(c) \in Nat
      /\ Timeouts(c) \in Nat
  <2>1. /\ Posted("read", c, "data")' = Posted("read", c, "data")
        /\ Posted("read", c, "end")' = Posted("read", c, "end")
        /\ Posted("read", c, "canceled")' = Posted("read", c, "canceled") + 1
        /\ Posted("write", c, "ok")' = Posted("write", c, "ok")
        /\ Posted("write", c, "error")' = Posted("write", c, "error")
        /\ Posted("timeout", c, "canceled")' = Posted("timeout", c, "canceled")
        /\ Posted("timeout", c, "time")' = Posted("timeout", c, "time") + 1
        /\ Posted("timeout", c, "late")' = Posted("timeout", c, "late")
    BY SMTT(60), <1>4, <1>8
  <2>. QED  BY <1>8, <2>1 DEF Reads, Writes, Expiries, Timeouts
<1>10. FunctorInv(c)'
  BY <1>1, <1>2, <1>3, <1>4, <1>8 DEF FunctorInv, LifeInv, TypeOK, Kinds
<1>11. LifeInv(c)'
  BY <1>1, <1>2, <1>3, <1>4, <1>4b, <1>8 DEF FunctorInv, LifeInv, TypeOK, Kinds
<1>12. RequestInv(c)'
  BY <1>1, <1>2, <1>3, <1>4b, <1>9 DEF RequestInv, TypeOK
<1>13. TimeoutInv(c)'
  BY <1>1, <1>2, <1>3, <1>4b, <1>8, <1>9
     DEF RequestInv, TimeoutInv, TypeOK
<1>14. BufferInv(c)' /\ PhaseInv(c)'
  BY <1>1, <1>2, <1>3, <1>4b, <1>8 DEF BufferInv, PhaseInv, TypeOK, Running
<1>. QED
  BY <1>3, <1>4, <1>5, <1>6, <1>7, <1>10, <1>11, <1>12, <1>13, <1>14 DEF IInv, ConnInv

\* A timeout that expires late leaves its read to complete after it.
LEMMA TimerExpiresLateKeeps ==
    ASSUME IInv, NEW c \in Conns, TimerExpiresLate(c)
    PROVE  IInv'
<1>1. TypeOK /\ QueuesOK /\ BufferCountInv /\ \A d \in Conns : ConnInv(d)
  BY QueuesTyped DEF IInv
<1>2. /\ FunctorInv(c) /\ LifeInv(c) /\ RequestInv(c) /\ TimeoutInv(c)
      /\ BufferInv(c) /\ PhaseInv(c)
  BY <1>1 DEF ConnInv
<1>3. /\ rd[c] = "submitted" /\ tm[c] = "submitted"
      /\ tm' = [tm EXCEPT ![c] = "none"]
      /\ cq' = Append(cq, <<"timeout", c, "late">>)
      /\ connections' = connections /\ state' = state /\ invoked' = invoked
      /\ sock' = sock /\ coro' = coro /\ idx' = idx /\ free' = free
      /\ rd' = rd /\ wr' = wr /\ peer' = peer /\ mainQ' = mainQ
      /\ ioQ' = ioQ /\ batch' = batch /\ phase' = phase
  BY DEF TimerExpiresLate, lifeVars, bufferVars, taskVars
<1>4. /\ cq' \in Seq(Completions)
      /\ \A d \in Conns : /\ \A k \in Kinds : InLoop(k, d)' = InLoop(k, d)
                          /\ Removals(d)' = Removals(d)
                          /\ d # c => \A k, r : Posted(k, d, r)' = Posted(k, d, r)
                          /\ LateInv(d)'
      /\ \A k, r : Posted(k, c, r)' = Posted(k, c, r)
                                      + (IF k = "timeout" /\ r = "late" THEN 1 ELSE 0)
  <2>1. <<"timeout", c, "late">> \in Completions
    BY <1>3 DEF Completions
  <2>2. /\ cq' \in Seq(Completions)
        /\ \A k, d, r : Posted(k, d, r)' = Posted(k, d, r)
                            + (IF k = "timeout" /\ d = c /\ r = "late" THEN 1 ELSE 0)
    BY <1>1, <1>3, <2>1, PostOne
  <2>3. \A d \in Conns : LateInv(d)'
    <3>1. Reads(c) = 0
      <4>1. \A k, r : Posted(k, c, r) \in Nat
        BY <1>1, CountsAreNat
      <4>. QED  BY <1>2, <1>3, <4>1 DEF RequestInv, Reads
    <3>2. \A j \in 1 .. Len(cq) : ~IsRead(cq[j], c)
      BY <1>1, <3>1, NoReads
    <3>3. \A d \in Conns : IsLate(<<"timeout", c, "late">>, d) => d = c
      BY DEF IsLate
    <3>. QED  BY <1>1, <1>3, <2>1, <3>2, <3>3, LateOne DEF ConnInv
  <2>4. \A d \in Conns : \A k, r : Posted(k, d, r) \in Nat
    BY <1>1, CountsAreNat
  <2>. QED  BY <1>3, <2>2, <2>3, <2>4, KeepFunctors, KeepRemovals
<1>4b. /\ coro[c] = "reading" /\ Reads(c) = 0
       /\ tm[c] # "none" => state[c] = "connected" /\ ~invoked[c] /\ Expiries(c) = 0
       /\ Posted("timeout", c, "time") = 0
       /\ Posted("read", c, "data") = 0 /\ Posted("read", c, "end") = 0
  <2>1. \A k, r : Posted(k, c, r) \in Nat
    BY <1>1, CountsAreNat
  <2>2. coro[c] = "reading" /\ Reads(c) = 0
    BY <1>2, <1>3, <2>1 DEF RequestInv, Reads
  <2>3. tm[c] # "none" => state[c] = "connected" /\ ~invoked[c] /\ Expiries(c) = 0
    BY <1>2 DEF TimeoutInv, LifeInv
  <2>4. Posted("timeout", c, "time") = 0
    BY <1>2, <1>3, <2>1 DEF TimeoutInv
  <2>. QED  BY <2>1, <2>2, <2>3, <2>4 DEF Reads
<1>5. BufferCountInv'
  BY <1>1, <1>3, KeepBuffers DEF bufferVars
<1>6. TypeOK'
  BY <1>1, <1>3, <1>4, <1>5 DEF TypeOK
<1>7. ASSUME NEW d \in Conns, d # c PROVE ConnInv(d)'
  <2>1. Untouched(d)
    BY <1>1, <1>3, <1>4, <1>7 DEF Untouched, TypeOK
  <2>. QED  BY <1>1, <1>4, <2>1, OthersKeep DEF ConnInv
<1>8. /\ InLoop("established", c) \in Nat /\ InLoop("close", c) \in Nat
      /\ InLoop("destroyed", c) \in Nat /\ Removals(c) \in Nat
      /\ \A k, r : Posted(k, c, r) \in Nat
  BY <1>1, CountsAreNat DEF Kinds
<1>9. /\ Posted("timeout", c, "time")' = Posted("timeout", c, "time")
      /\ Posted("timeout", c, "late")' = Posted("timeout", c, "late") + 1
      /\ Posted("read", c, "data")' = Posted("read", c, "data")
      /\ Posted("read", c, "end")' = Posted("read", c, "end")
      /\ Reads(c)' = Reads(c) /\ Writes(c)' = Writes(c)
      /\ Expiries(c)' = Expiries(c) + 1 /\ Timeouts(c)' = Timeouts(c) + 1
      /\ Reads(c) \in Nat /\ Writes(c) \in Nat /\ Expiries(c) \in Nat
      /\ Timeouts(c) \in Nat
  <2>1. /\ Posted("read", c, "data")' = Posted("read", c, "data")
        /\ Posted("read", c, "end")' = Posted("read", c, "end")
        /\ Posted("read", c, "canceled")' = Posted("read", c, "canceled")
        /\ Posted("write", c, "ok")' = Posted("write", c, "ok")
        /\ Posted("write", c, "error")' = Posted("write", c, "error")
        /\ Posted("timeout", c, "canceled")' = Posted("timeout", c, "canceled")
        /\ Posted("timeout", c, "time")' = Posted("timeout", c, "time")
        /\ Posted("timeout", c, "late")' = Posted("timeout", c, "late") + 1
    BY SMTT(60), <1>4, <1>8
  <2>. QED  BY <1>8, <2>1 DEF Reads, Writes, Expiries, Timeouts
<1>10. FunctorInv(c)'
  BY <1>1, <1>2, <1>3, <1>4, <1>8 DEF FunctorInv, LifeInv, TypeOK, Kinds
<1>11. LifeInv(c)'
  BY <1>1, <1>2, <1>3, <1>4, <1>4b, <1>8 DEF FunctorInv, LifeInv, TypeOK, Kinds
<1>12. RequestInv(c)'
  BY <1>1, <1>2, <1>3, <1>4b, <1>9 DEF RequestInv, TypeOK
<1>13. TimeoutInv(c)'
  BY <1>1, <1>2, <1>3, <1>4b, <1>8, <1>9
     DEF RequestInv, TimeoutInv, TypeOK
<1>14. BufferInv(c)' /\ PhaseInv(c)'
  BY <1>1, <1>2, <1>3, <1>4b, <1>8 DEF BufferInv, PhaseInv, TypeOK, Running
<1>. QED
  BY <1>3, <1>4, <1>5, <1>6, <1>7, <1>10, <1>11, <1>12, <1>13, <1>14 DEF IInv, ConnInv

\* A write completes.
LEMMA WriteCompletesKeeps ==
    ASSUME IInv, NEW c \in Conns, NEW res \in {"ok", "error"}, WriteCompletes(c),
           cq' = Append(cq, <<"write", c, res>>)
    PROVE  IInv'
<1>1. TypeOK /\ QueuesOK /\ BufferCountInv /\ \A d \in Conns : ConnInv(d)
  BY QueuesTyped DEF IInv
<1>2. /\ FunctorInv(c) /\ LifeInv(c) /\ RequestInv(c) /\ TimeoutInv(c)
      /\ BufferInv(c) /\ PhaseInv(c)
  BY <1>1 DEF ConnInv
<1>3. /\ wr[c] = "submitted" /\ res \in {"ok", "error"}
      /\ wr' = [wr EXCEPT ![c] = "none"]
      /\ cq' = Append(cq, <<"write", c, res>>)
      /\ connections' = connections /\ state' = state /\ invoked' = invoked
      /\ sock' = sock /\ coro' = coro /\ idx' = idx /\ free' = free
      /\ rd' = rd /\ tm' = tm /\ peer' = peer /\ mainQ' = mainQ
      /\ ioQ' = ioQ /\ batch' = batch /\ phase' = phase
  BY DEF WriteCompletes, lifeVars, bufferVars, taskVars
<1>4. /\ cq' \in Seq(Completions)
      /\ \A d \in Conns : /\ \A k \in Kinds : InLoop(k, d)' = InLoop(k, d)
                          /\ Removals(d)' = Removals(d)
                          /\ d # c => \A k, r : Posted(k, d, r)' = Posted(k, d, r)
                          /\ LateInv(d)'
      /\ \A k, r : Posted(k, c, r)' = Posted(k, c, r)
                                      + (IF k = "write" /\ r = res THEN 1 ELSE 0)
  <2>1. <<"write", c, res>> \in Completions
    BY <1>3 DEF Completions
  <2>2. /\ cq' \in Seq(Completions)
        /\ \A k, d, r : Posted(k, d, r)' = Posted(k, d, r)
                            + (IF k = "write" /\ d = c /\ r = res THEN 1 ELSE 0)
    BY <1>1, <1>3, <2>1, PostOne
  <2>3. \A d \in Conns : LateInv(d)'
    <3>1. \A d \in Conns : ~IsLate(<<"write", c, res>>, d)
      BY <1>3 DEF IsLate
    <3>. QED  BY <1>1, <1>3, <2>1, <3>1, LateOne DEF ConnInv
  <2>4. \A d \in Conns : \A k, r : Posted(k, d, r) \in Nat
    BY <1>1, CountsAreNat
  <2>. QED  BY <1>3, <2>2, <2>3, <2>4, KeepFunctors, KeepRemovals
<1>5. BufferCountInv'
  BY <1>1, <1>3, KeepBuffers DEF bufferVars
<1>6. TypeOK'
  BY <1>1, <1>3, <1>4, <1>5 DEF TypeOK
<1>7. ASSUME NEW d \in Conns, d # c PROVE ConnInv(d)'
  <2>1. Untouched(d)
    BY <1>1, <1>3, <1>4, <1>7 DEF Untouched, TypeOK
  <2>. QED  BY <1>1, <1>4, <2>1, OthersKeep DEF ConnInv
<1>8. /\ InLoop("established", c) \in Nat /\ InLoop("close", c) \in Nat
      /\ InLoop("destroyed", c) \in Nat /\ Removals(c) \in Nat
      /\ \A k, r : Posted(k, c, r) \in Nat
  BY <1>1, CountsAreNat DEF Kinds
<1>9. /\ Posted("timeout", c, "time")' = Posted("timeout", c, "time")
      /\ Posted("timeout", c, "late")' = Posted("timeout", c, "late")
      /\ Posted("read", c, "data")' = Posted("read", c, "data")
      /\ Posted("read", c, "end")' = Posted("read", c, "end")
      /\ Reads(c)' = Reads(c) /\ Writes(c)' = Writes(c) + 1
      /\ Expiries(c)' = Expiries(c) /\ Timeouts(c)' = Timeouts(c)
      /\ Reads(c) \in Nat /\ Writes(c) \in Nat /\ Expiries(c) \in Nat
      /\ Timeouts(c) \in Nat
  <2>1. /\ Posted("read", c, "data")' = Posted("read", c, "data")
        /\ Posted("read", c, "end")' = Posted("read", c, "end")
        /\ Posted("read", c, "canceled")' = Posted("read", c, "canceled")
        /\ Posted("write", c, "ok")' = Posted("write", c, "ok") + (IF res = "ok" THEN 1 ELSE 0)
        /\ Posted("write", c, "error")' = Posted("write", c, "error") + (IF res = "error" THEN 1 ELSE 0)
        /\ Posted("timeout", c, "canceled")' = Posted("timeout", c, "canceled")
        /\ Posted("timeout", c, "time")' = Posted("timeout", c, "time")
        /\ Posted("timeout", c, "late")' = Posted("timeout", c, "late")
    BY ONLY <1>4, <1>8, res \in {"ok", "error"}
  <2>. QED  BY ONLY res \in {"ok", "error"}, <1>8, <2>1 DEF Reads, Writes, Expiries, Timeouts
<1>10. FunctorInv(c)'
  BY <1>1, <1>2, <1>3, <1>4, <1>8 DEF FunctorInv, LifeInv, TypeOK, Kinds
<1>11. LifeInv(c)'
  BY <1>1, <1>2, <1>3, <1>4, <1>8 DEF FunctorInv, LifeInv, TypeOK, Kinds
<1>12. RequestInv(c)'
  BY <1>1, <1>2, <1>3, <1>9 DEF RequestInv, TypeOK
<1>13. TimeoutInv(c)'
  BY <1>1, <1>2, <1>3, <1>8, <1>9
     DEF RequestInv, TimeoutInv, TypeOK
<1>14. BufferInv(c)' /\ PhaseInv(c)'
  BY <1>1, <1>2, <1>3, <1>8 DEF BufferInv, PhaseInv, TypeOK, Running
<1>. QED
  BY <1>3, <1>4, <1>5, <1>6, <1>7, <1>10, <1>11, <1>12, <1>13, <1>14 DEF IInv, ConnInv

-----------------------------------------------------------------------------
(* The phases of the loop                                                   *)

\* A step of the loop itself: no connection, completion or functor changes hands.
LoopStep ==
    /\ UNCHANGED <<connections, state, invoked, sock, coro, idx, free, cq, peer, mainQ>>
    /\ \A c \in Conns : \A k \in Kinds : InLoop(k, c)' = InLoop(k, c)
    /\ rd' \in [Conns -> {"none", "prepared", "submitted"}]
    /\ tm' \in [Conns -> {"none", "prepared", "submitted"}]
    /\ wr' \in [Conns -> {"none", "prepared", "submitted"}]
    /\ \A c \in Conns : /\ rd'[c] = "none" <=> rd[c] = "none"
                        /\ tm'[c] = "none" <=> tm[c] = "none"
                        /\ wr'[c] = "none" <=> wr[c] = "none"
                        /\ tm[c] = rd[c] => tm'[c] = rd'[c]
    /\ ioQ' \in Seq(Tasks) /\ batch' \in Seq(Tasks)
    /\ phase' \in {"submit", "wait", "cqe", "run"}
    /\ phase' # "run" => batch' = <<>>
    /\ phase' # "cqe" => \A c \in Conns : coro[c] \notin Running
    /\ phase' # "cqe" /\ phase = "cqe" => cq = <<>>

LEMMA LoopStepKeeps == IInv /\ LoopStep => IInv'
<1>. SUFFICES ASSUME IInv, LoopStep PROVE IInv'
  OBVIOUS
<1>1. TypeOK /\ QueuesOK /\ BufferCountInv /\ \A d \in Conns : ConnInv(d)
  BY QueuesTyped DEF IInv
<1>2. /\ connections' = connections /\ state' = state /\ invoked' = invoked
      /\ sock' = sock /\ coro' = coro /\ idx' = idx /\ free' = free /\ cq' = cq
      /\ peer' = peer /\ mainQ' = mainQ
      /\ phase' # "run" => batch' = <<>>
  BY DEF LoopStep
<1>3. TypeOK'
  BY <1>1 DEF LoopStep, TypeOK
<1>4. BufferCountInv'
  BY <1>1, <1>2, KeepBuffers DEF bufferVars
<1>5. ASSUME NEW c \in Conns PROVE ConnInv(c)'
  <2>1. /\ FunctorInv(c) /\ LifeInv(c) /\ RequestInv(c) /\ TimeoutInv(c)
        /\ BufferInv(c) /\ PhaseInv(c) /\ LateInv(c)
    BY <1>1 DEF ConnInv
  <2>2. /\ \A k \in Kinds : InLoop(k, c)' = InLoop(k, c)
        /\ Removals(c)' = Removals(c)
        /\ \A k, r : Posted(k, c, r)' = Posted(k, c, r)
        /\ Reads(c)' = Reads(c) /\ Writes(c)' = Writes(c)
        /\ Expiries(c)' = Expiries(c) /\ Timeouts(c)' = Timeouts(c)
        /\ LateInv(c)'
    BY <1>2, <2>1, KeepPosted, KeepRemovals DEF LoopStep
  <2>3. /\ rd'[c] = "none" <=> rd[c] = "none"
        /\ tm'[c] = "none" <=> tm[c] = "none"
        /\ wr'[c] = "none" <=> wr[c] = "none"
        /\ tm[c] = rd[c] => tm'[c] = rd'[c]
        /\ phase' \in {"submit", "wait", "cqe", "run"}
        /\ phase' # "cqe" => coro[c] \notin Running
    BY DEF LoopStep
  <2>4. phase' # "cqe" /\ phase = "cqe" => Timeouts(c) = 0
    <3>. SUFFICES ASSUME cq = <<>> PROVE Timeouts(c) = 0
      BY DEF LoopStep
    <3>1. \A k, r : Posted(k, c, r) = 0
      BY TimesEmpty DEF Posted
    <3>. QED  BY <3>1 DEF Timeouts, Expiries
  <2>5. FunctorInv(c)'
    BY <1>2, <2>1, <2>2 DEF FunctorInv, Kinds
  <2>6. LifeInv(c)' /\ BufferInv(c)' /\ PhaseInv(c)'
    BY <1>2, <2>1, <2>3 DEF LifeInv, BufferInv, PhaseInv, Running
  <2>7. RequestInv(c)'
    BY <1>2, <2>1, <2>2, <2>3 DEF RequestInv
  <2>8. TimeoutInv(c)'
    <3>1. Timeouts(c) \in Nat
      BY <1>1, CountsAreNat DEF Timeouts, Expiries
    <3>. QED  BY <1>2, <2>1, <2>2, <2>3, <2>4, <3>1 DEF TimeoutInv
  <2>. QED  BY <2>2, <2>5, <2>6, <2>7, <2>8 DEF ConnInv
<1>. QED  BY <1>2, <1>3, <1>4, <1>5 DEF IInv

LEMMA PhasesKeep ==
    ASSUME IInv, Submit \/ Wait \/ BeginTasks \/ EndTasks
    PROVE  IInv'
<1>1. TypeOK /\ QueuesOK /\ (phase # "run" => batch = <<>>) /\ \A c \in Conns : PhaseInv(c)
  BY QueuesTyped DEF IInv, ConnInv
<1>2. CASE Submit
  <2>1. /\ rd' = Submitted(rd) /\ tm' = Submitted(tm) /\ wr' = Submitted(wr)
        /\ UNCHANGED <<connections, state, invoked, sock, coro, idx, free, cq, peer, mainQ>>
        /\ ioQ' = ioQ /\ batch' = batch /\ phase = "submit" /\ phase' = "wait"
    BY <1>2 DEF Submit, lifeVars, bufferVars, taskVars
  <2>2. \A c \in Conns : \A k \in Kinds : InLoop(k, c)' = InLoop(k, c)
    BY <2>1, KeepFunctors
  <2>3. \A f \in [Conns -> {"none", "prepared", "submitted"}] :
            /\ Submitted(f) \in [Conns -> {"none", "prepared", "submitted"}]
            /\ \A c \in Conns :
                   Submitted(f)[c] = IF f[c] = "prepared" THEN "submitted" ELSE f[c]
    BY DEF Submitted
  <2>4. \A c \in Conns : coro[c] \notin Running
    BY <1>1, <2>1 DEF PhaseInv
  <2>5. /\ rd \in [Conns -> {"none", "prepared", "submitted"}]
        /\ tm \in [Conns -> {"none", "prepared", "submitted"}]
        /\ wr \in [Conns -> {"none", "prepared", "submitted"}]
        /\ ioQ \in Seq(Tasks) /\ batch \in Seq(Tasks)
    BY <1>1 DEF TypeOK
  <2>6. /\ rd' \in [Conns -> {"none", "prepared", "submitted"}]
        /\ tm' \in [Conns -> {"none", "prepared", "submitted"}]
        /\ wr' \in [Conns -> {"none", "prepared", "submitted"}]
    BY <2>1, <2>3, <2>5
  <2>7. \A c \in Conns :
            /\ rd'[c] = IF rd[c] = "prepared" THEN "submitted" ELSE rd[c]
            /\ tm'[c] = IF tm[c] = "prepared" THEN "submitted" ELSE tm[c]
            /\ wr'[c] = IF wr[c] = "prepared" THEN "submitted" ELSE wr[c]
    BY <2>1, <2>3, <2>5
  <2>8. ASSUME NEW c \in Conns
        PROVE  /\ rd'[c] = "none" <=> rd[c] = "none"
               /\ tm'[c] = "none" <=> tm[c] = "none"
               /\ wr'[c] = "none" <=> wr[c] = "none"
               /\ tm[c] = rd[c] => tm'[c] = rd'[c]
    <3>1. /\ rd'[c] = IF rd[c] = "prepared" THEN "submitted" ELSE rd[c]
          /\ tm'[c] = IF tm[c] = "prepared" THEN "submitted" ELSE tm[c]
          /\ wr'[c] = IF wr[c] = "prepared" THEN "submitted" ELSE wr[c]
      BY <2>7
    <3>. QED  BY ONLY <3>1
  <2>9. LoopStep
    <3>1. batch' = <<>> /\ ioQ' \in Seq(Tasks) /\ batch' \in Seq(Tasks)
      BY <1>1, <2>1, <2>5
    <3>. QED  BY ONLY <2>1, <2>2, <2>4, <2>6, <2>8, <3>1 DEF LoopStep
  <2>. QED  BY <2>9, LoopStepKeeps
<1>3. CASE Wait
  <2>1. /\ UNCHANGED <<connections, state, invoked, sock, coro, idx, free, cq, peer, mainQ>>
        /\ rd' = rd /\ tm' = tm /\ wr' = wr /\ ioQ' = ioQ /\ batch' = batch
        /\ phase = "wait" /\ phase' = "cqe"
    BY <1>3 DEF Wait, lifeVars, bufferVars, ringVars, taskVars
  <2>2. \A c \in Conns : \A k \in Kinds : InLoop(k, c)' = InLoop(k, c)
    BY <2>1, KeepFunctors
  <2>3. LoopStep
    BY <1>1, <2>1, <2>2 DEF LoopStep, TypeOK
  <2>. QED  BY <2>3, LoopStepKeeps
<1>4. CASE BeginTasks
  <2>1. /\ UNCHANGED <<connections, state, invoked, sock, coro, idx, free, cq, peer, mainQ>>
        /\ rd' = rd /\ tm' = tm /\ wr' = wr /\ ioQ' = <<>> /\ batch' = ioQ
        /\ phase = "cqe" /\ phase' = "run" /\ cq = <<>> /\ LoopThreadFree
    BY <1>4 DEF BeginTasks, lifeVars, bufferVars, ringVars
  <2>2. \A c \in Conns : \A k \in Kinds : InLoop(k, c)' = InLoop(k, c)
    BY <1>1, <2>1, TakeTasks
  <2>3. ioQ' \in Seq(Tasks) /\ batch' \in Seq(Tasks)
    BY <1>1, <2>1 DEF QueuesOK
  <2>4. LoopStep
    BY <1>1, <2>1, <2>2, <2>3 DEF LoopStep, TypeOK, LoopThreadFree
  <2>. QED  BY <2>4, LoopStepKeeps
<1>5. CASE EndTasks
  <2>1. /\ UNCHANGED <<connections, state, invoked, sock, coro, idx, free, cq, peer, mainQ>>
        /\ rd' = rd /\ tm' = tm /\ wr' = wr /\ ioQ' = ioQ /\ batch' = batch
        /\ phase = "run" /\ phase' = "submit" /\ batch = <<>> /\ LoopThreadFree
    BY <1>5 DEF EndTasks, lifeVars, bufferVars, ringVars, taskVars
  <2>2. \A c \in Conns : \A k \in Kinds : InLoop(k, c)' = InLoop(k, c)
    BY <2>1, KeepFunctors
  <2>3. LoopStep
    BY <1>1, <2>1, <2>2 DEF LoopStep, TypeOK, LoopThreadFree
  <2>. QED  BY <2>3, LoopStepKeeps
<1>. QED  BY <1>2, <1>3, <1>4, <1>5

-----------------------------------------------------------------------------
(* Every step keeps the invariant                                           *)

LEMMA KernelKeeps == ASSUME IInv, NEW c \in Conns, Kernel(c) PROVE IInv'
<1>1. CASE ReadCompletes(c)
  <2>1. PICK res \in {"data", "end"} :
            IF tm[c] = "submitted"
            THEN Post(<<"read", c, res>>, <<"timeout", c, "canceled">>)
            ELSE cq' = Append(cq, <<"read", c, res>>)
    BY <1>1 DEF ReadCompletes
  <2>2. CASE tm[c] = "submitted"
    BY <1>1, <2>1, <2>2, ReadCompletesKeeps
  <2>3. CASE tm[c] # "submitted"
    BY <1>1, <2>1, <2>3, ReadCompletesAloneKeeps
  <2>. QED  BY <2>2, <2>3
<1>2. CASE TimerExpires(c)
  BY <1>2, TimerExpiresKeeps
<1>3. CASE TimerExpiresLate(c)
  BY <1>3, TimerExpiresLateKeeps
<1>4. CASE WriteCompletes(c)
  <2>1. PICK res \in {"ok", "error"} : cq' = Append(cq, <<"write", c, res>>)
    BY <1>4 DEF WriteCompletes
  <2>. QED  BY <1>4, <2>1, WriteCompletesKeeps
<1>. QED  BY <1>1, <1>2, <1>3, <1>4 DEF Kernel

LEMMA CompletionKeeps == ASSUME IInv, NEW c \in Conns, Completion(c) PROVE IInv'
<1>1. CASE \E res \in {"end", "canceled"} : ReadFailed(c, res)
  BY <1>1, ReadFailedKeeps
<1>2. CASE \E res \in {"canceled", "time", "late"} : Timeout(c, res)
  BY <1>2, TimeoutCanceledKeeps, TimeoutExpiredKeeps
<1>. QED
  BY <1>1, <1>2, ReadDoneKeeps, WriteDoneKeeps, WriteFailedKeeps DEF Completion

LEMMA NextKeeps == IInv /\ [Next]_vars => IInv'
<1>. SUFFICES ASSUME IInv, [Next]_vars PROVE IInv'
  OBVIOUS
<1>1. ASSUME NEW c \in Conns, NewConnection(c) \/ PeerLeaves(c) \/ Kernel(c)
      PROVE  IInv'
  BY <1>1, NewConnectionKeeps, PeerLeavesKeeps, KernelKeeps
<1>2. CASE RemoveConnection
  <2>1. mainQ \in Seq(Conns) /\ mainQ # <<>>
    BY <1>2 DEF IInv, TypeOK, RemoveConnection
  <2>2. Head(mainQ) \in Conns
    BY <2>1, HeadTailProperties
  <2>. QED  BY <1>2, <2>2, RemoveConnectionKeeps
<1>3. CASE Submit \/ Wait \/ BeginTasks \/ EndTasks
  BY <1>3, PhasesKeep
<1>4. ASSUME NEW c \in Conns, Coroutine(c) PROVE IInv'
  BY <1>4, AsyncReadKeeps, AsyncSendKeeps, ConsumeKeeps, CloseKeeps, ShutdownKeeps
     DEF Coroutine
<1>5. ASSUME NEW c \in Conns, Functor(c) PROVE IInv'
  BY <1>5, ConnectEstablishedKeeps, HandleCloseKeeps, ConnectDestroyedKeeps DEF Functor
<1>6. ASSUME NEW c \in Conns, Completion(c) PROVE IInv'
  BY <1>6, CompletionKeeps
<1>7. CASE UNCHANGED vars
  <2>1. /\ UNCHANGED <<connections, state, invoked, sock, coro, idx, free, cq, peer, mainQ>>
        /\ rd' = rd /\ tm' = tm /\ wr' = wr /\ ioQ' = ioQ /\ batch' = batch
        /\ phase' = phase
    BY <1>7 DEF vars, lifeVars, bufferVars, ringVars, taskVars
  <2>2. TypeOK' /\ BufferCountInv'
    BY <2>1 DEF IInv, TypeOK, BufferCountInv, Holders
  <2>3. \A c \in Conns : Untouched(c) /\ LateInv(c)'
    BY <2>1, KeepFunctors, KeepRemovals, KeepPosted DEF Untouched, IInv, ConnInv
  <2>4. \A c \in Conns : ConnInv(c)'
    BY <2>3, OthersKeep DEF IInv
  <2>. QED  BY <2>1, <2>2, <2>4 DEF IInv
<1>. QED  BY <1>1, <1>2, <1>3, <1>4, <1>5, <1>6, <1>7 DEF Next, IoLoop

LEMMA SpecInv == Spec => []IInv
BY InitHolds, NextKeeps, PTL DEF Spec

-----------------------------------------------------------------------------
(* What the invariant says of the connections                               *)

\* A count is positive when what it counts is in the queue.
LEMMA TimesInRange ==
    ASSUME NEW S, NEW q \in Seq(S), NEW x
    PROVE  x \in Range(q) <=> Times(q, x) > 0
<1>1. DOMAIN q = 1 .. Len(q)
  BY LenProperties
<1>2. x \in Range(q) <=> \E i \in 1 .. Len(q) : q[i] = x
  BY <1>1 DEF Range
<1>3. Times(q, x) \in Nat /\ (Times(q, x) = 0 <=> \A i \in 1 .. Len(q) : q[i] # x)
  BY TimesType
<1>. QED  BY <1>2, <1>3

\* The references to a connection, counted.
LEMMA AliveIs ==
    ASSUME QueuesOK, NEW c \in Conns
    PROVE  Alive(c) <=> \/ c \in connections
                        \/ Removals(c) > 0
                        \/ \E kind \in Kinds : InLoop(kind, c) > 0
                        \/ coro[c] \in Running \cup Suspended
<1>1. c \in Range(mainQ) <=> Removals(c) > 0
  BY TimesInRange DEF QueuesOK, Removals
<1>2. (\E task \in Range(ioQ) \cup Range(batch) : task[2] = c)
      <=> \E kind \in Kinds : InLoop(kind, c) > 0
  <2>1. \A x : /\ x \in Range(ioQ) <=> Times(ioQ, x) > 0
               /\ x \in Range(batch) <=> Times(batch, x) > 0
               /\ Times(ioQ, x) \in Nat /\ Times(batch, x) \in Nat
    BY TimesInRange, TimesType DEF QueuesOK
  <2>2. ASSUME NEW kind \in Kinds
        PROVE  <<kind, c>> \in Range(ioQ) \cup Range(batch) <=> InLoop(kind, c) > 0
    <3>. DEFINE t == <<kind, c>>
    <3>1. InLoop(kind, c) = Times(ioQ, t) + Times(batch, t)
      BY DEF InLoop
    <3>. HIDE DEF t
    <3>2. t \in Range(ioQ) \cup Range(batch) <=> InLoop(kind, c) > 0
      BY <2>1, <3>1
    <3>. QED  BY <3>2 DEF t
  <2>3. ASSUME NEW task \in Range(ioQ) \cup Range(batch), task[2] = c
        PROVE  \E kind \in Kinds : task = <<kind, c>>
    <3>1. task \in Tasks
      <4>1. PICK q \in {ioQ, batch} : task \in Range(q)
        OBVIOUS
      <4>2. q \in Seq(Tasks)
        BY DEF QueuesOK
      <4>3. PICK i \in 1 .. Len(q) : q[i] = task
        BY <4>1, <4>2, LenProperties DEF Range
      <4>. QED  BY <4>2, <4>3, ElementOfSeq
    <3>. QED  BY <2>3, <3>1 DEF Tasks, Kinds
  <2>. QED  BY <2>2, <2>3
<1>. QED  BY <1>1, <1>2 DEF Alive

\* A connection that has been accepted and not invoked its close callback is listed,
\* and a suspended coroutine holds its own reference.
LEMMA ContextsAlive == IInv => ContextsOutliveRequests
<1>. SUFFICES ASSUME IInv, NEW c \in Conns,
                     Requests(c) # {} \/ \E i \in 1 .. Len(cq) : cq[i][2] = c
              PROVE  Alive(c)
  BY DEF ContextsOutliveRequests
<1>1. QueuesOK /\ TypeOK
  BY QueuesTyped DEF IInv
<1>2. /\ FunctorInv(c) /\ LifeInv(c) /\ RequestInv(c) /\ TimeoutInv(c)
  BY DEF IInv, ConnInv
<1>3. \A k, r : Posted(k, c, r) \in Nat
  BY <1>1, CountsAreNat
<1>4. CASE Requests(c) # {}
  <2>1. rd[c] # "none" \/ wr[c] # "none"
    BY <1>2, <1>4 DEF Requests, TimeoutInv
  <2>2. coro[c] \in Suspended
    BY <1>2, <2>1 DEF RequestInv, Suspended
  <2>. QED  BY <2>2 DEF Alive
<1>5. CASE \E i \in 1 .. Len(cq) : cq[i][2] = c
  <2>1. PICK i \in 1 .. Len(cq) : cq[i][2] = c
    BY <1>5
  <2>2. cq \in Seq(Completions)
    BY <1>1 DEF QueuesOK
  <2>3. cq[i] \in Completions
    BY <2>2, ElementOfSeq
  <2>4. PICK k, r : /\ cq[i] = <<k, c, r>>
                    /\ \/ k = "read" /\ r \in {"data", "end", "canceled"}
                       \/ k = "timeout" /\ r \in {"canceled", "time", "late"}
                       \/ k = "write" /\ r \in {"ok", "error"}
    BY <2>1, <2>3 DEF Completions
  <2>5. Posted(k, c, r) > 0
    <3>. DEFINE x == <<k, c, r>>
    <3>1. Posted(k, c, r) = Times(cq, x) /\ cq[i] = x
      BY <2>4 DEF Posted
    <3>. HIDE DEF x
    <3>2. Times(cq, x) \in Nat /\ (Times(cq, x) = 0 <=> \A j \in 1 .. Len(cq) : cq[j] # x)
      BY <2>2, TimesType
    <3>. QED  BY <3>1, <3>2
  <2>6. CASE k \in {"read", "write"}
    <3>1. Reads(c) > 0 \/ Writes(c) > 0
      BY SMTT(60), <1>3, <2>4, <2>5, <2>6 DEF Reads, Writes
    <3>2. coro[c] \in Suspended
      BY <1>2, <3>1 DEF RequestInv, Suspended
    <3>. QED  BY <3>2 DEF Alive
  <2>7. CASE k = "timeout"
    <3>1. Timeouts(c) > 0
      BY <1>3, <2>4, <2>5, <2>7 DEF Timeouts, Expiries
    <3>2. c \in connections
      BY <1>2, <3>1 DEF TimeoutInv, LifeInv
    <3>. QED  BY <3>2 DEF Alive
  <2>. QED  BY <2>4, <2>6, <2>7
<1>. QED  BY <1>4, <1>5

LEMMA BuffersConserved == IInv => BuffersAreConserved
<1>. SUFFICES ASSUME IInv PROVE BuffersAreConserved
  OBVIOUS
<1>1. ASSUME NEW c \in Conns, idx[c] # NoBuffer PROVE Alive(c)
  BY <1>1 DEF IInv, ConnInv, BufferInv, Alive, Running, Suspended
<1>2. \A b \in Buffers :
          Cardinality({i \in 1 .. Len(free) : free[i] = b}) + Cardinality(Holders(b)) = 1
  BY DEF IInv, BufferCountInv, Times
<1>. QED  BY <1>1, <1>2 DEF BuffersAreConserved

LEMMA ConnectionsCloseOnce == IInv => ConnectionInv
<1>. SUFFICES ASSUME IInv PROVE ConnectionInv
  OBVIOUS
<1>1. TypeOK /\ QueuesOK
  BY QueuesTyped DEF IInv
<1>2. \A x : Times(ioQ, x) \in Nat /\ Times(batch, x) \in Nat /\ Times(mainQ, x) \in Nat
  BY <1>1, TimesType DEF QueuesOK
<1>3. ASSUME NEW c \in Conns
      PROVE  Times(ioQ, <<"close", c>>) + Times(batch, <<"close", c>>)
             + Times(mainQ, c) + Times(ioQ, <<"destroyed", c>>)
             + Times(batch, <<"destroyed", c>>) + (IF sock[c] = "closed" THEN 1 ELSE 0)
             <= 1
  <2>1. FunctorInv(c)
    BY DEF IInv, ConnInv
  <2>. QED  BY <1>2, <2>1 DEF FunctorInv, InLoop, Removals
<1>. QED  BY <1>1, <1>3 DEF ConnectionInv, ClosedOnce

-----------------------------------------------------------------------------
(* The theorems                                                             *)

\* For any number of connections, buffers and queue entries, and under every fault,
\* a connection is handed from forceClose to handleClose, removeConnection and
\* connectDestroyed at most once.
THEOREM ClosedOnceTheorem == Spec => []ConnectionInv
BY SpecInv, ConnectionsCloseOnce, PTL

\* The contexts that requests and completions point into are never freed before them.
THEOREM ContextsOutlive == Spec => []ContextsOutliveRequests
BY SpecInv, ContextsAlive, PTL

\* Every registered buffer is free or is held by one living connection.
THEOREM BuffersConserve == Spec => []BuffersAreConserved
BY SpecInv, BuffersConserved, PTL

-----------------------------------------------------------------------------
(* The life of a connection                                                 *)

\* The frame of the coroutine holds a reference.
InFrame(c) == coro[c] \in Running \cup Suspended

\* A step that takes or gives no reference to a connection.
Steady(d) ==
    /\ state'[d] = "none" <=> state[d] = "none"
    /\ sock'[d] = sock[d]
    /\ InFrame(d)' <=> InFrame(d)
    /\ d \in connections' <=> d \in connections
    /\ \A k \in Kinds : InLoop(k, d)' = InLoop(k, d)
    /\ Removals(d)' = Removals(d)

\* AliveIs, for the states before and after a step.
AliveCounted ==
    QueuesOK => \A c \in Conns :
        Alive(c) <=> \/ c \in connections
                     \/ Removals(c) > 0
                     \/ \E kind \in Kinds : InLoop(kind, c) > 0
                     \/ InFrame(c)

LEMMA AliveCounts == AliveCounted
BY AliveIs DEF AliveCounted, InFrame

LEMMA AliveCountsNext == AliveCounted'
BY AliveCounts, PTL

LEMMA SteadyStatus ==
    ASSUME QueuesOK, QueuesOK', NEW d \in Conns, Steady(d)
    PROVE  StatusOf(d)' = StatusOf(d)
<1>1. Alive(d)' <=> Alive(d)
  BY AliveCounts, AliveCountsNext DEF AliveCounted, Steady
<1>. QED  BY <1>1 DEF StatusOf, Steady

\* The steps of a life, and staying as one is.
Allowed(from, to) ==
    \/ to = from
    \/ from = "none" /\ to = "listed"
    \/ from = "listed" /\ to = "delisted"
    \/ from = "delisted" /\ to = "closed"
    \/ from \in {"listed", "delisted", "closed"} /\ to = "freed"

Lives == [Life!SessionNext]_([c \in Conns |-> StatusOf(c)])

\* A step that concerns one connection.
LEMMA OneLives ==
    ASSUME QueuesOK, QueuesOK', NEW c \in Conns,
           \A d \in Conns : d # c => Steady(d),
           Allowed(StatusOf(c), StatusOf(c)')
    PROVE  Lives
<1>. DEFINE s == [d \in Conns |-> StatusOf(d)]
            t == [d \in Conns |-> StatusOf(d)']
<1>1. \A d \in Conns : d # c => StatusOf(d)' = StatusOf(d)
  BY SteadyStatus
<1>2. s' = t
  OBVIOUS
<1>3. CASE StatusOf(c)' = StatusOf(c)
  <2>1. t = s
    BY <1>1, <1>3
  <2>. QED  BY <1>2, <2>1 DEF Lives
<1>4. CASE StatusOf(c)' # StatusOf(c)
  <2>1. t = [s EXCEPT ![c] = StatusOf(c)'] /\ s[c] = StatusOf(c)
    BY <1>1
  <2>. HIDE DEF t
  <2>2. \/ s[c] \in {"none"} /\ s' = [s EXCEPT ![c] = "listed"]
        \/ s[c] \in {"listed"} /\ s' = [s EXCEPT ![c] = "delisted"]
        \/ s[c] \in {"delisted"} /\ s' = [s EXCEPT ![c] = "closed"]
        \/ s[c] \in {"listed", "delisted", "closed"} /\ s' = [s EXCEPT ![c] = "freed"]
    <3>. HIDE DEF s
    <3>. QED  BY <1>2, <1>4, <2>1 DEF Allowed
  <2>3. Life!SessionNext
    BY <2>2 DEF Life!SessionNext, Life!Step
  <2>. QED  BY <2>3 DEF Lives
<1>. QED  BY <1>3, <1>4

\* A step that concerns none.
LEMMA NoneLives ==
    ASSUME QueuesOK, QueuesOK', \A d \in Conns : Steady(d)
    PROVE  Lives
<1>1. \A d \in Conns : StatusOf(d)' = StatusOf(d)
  BY SteadyStatus
<1>2. [d \in Conns |-> StatusOf(d)]' = [d \in Conns |-> StatusOf(d)]
  BY <1>1
<1>. QED  BY <1>2 DEF Lives

\* The facts the steps below start from.
LEMMA LifeFacts ==
    ASSUME IInv, IInv', NEW c \in Conns
    PROVE  /\ QueuesOK /\ QueuesOK'
           /\ state \in [Conns -> {"none", "connecting", "connected", "disconnecting",
                                   "disconnected"}]
           /\ sock \in [Conns -> {"open", "closed"}]
           /\ coro \in [Conns -> {"none", "done"} \cup Running \cup Suspended]
           /\ FunctorInv(c) /\ LifeInv(c) /\ RequestInv(c)
           /\ \A d \in Conns : /\ \A k \in Kinds : InLoop(k, d) \in Nat
                               /\ Removals(d) \in Nat
                               /\ \A k, r : Posted(k, d, r) \in Nat
<1>1. TypeOK => QueuesOK
  BY QueuesTyped
<1>2. TypeOK' => QueuesOK'
  BY QueuesTyped, PTL
<1>3. QueuesOK
  BY <1>1 DEF IInv
<1>. QED  BY <1>2, <1>3, CountsAreNat DEF IInv, ConnInv, TypeOK

\* The main loop lists a connection.
LEMMA NewConnectionLives ==
    ASSUME IInv, IInv', NEW c \in Conns, NewConnection(c)
    PROVE  Lives
<1>1. /\ state[c] = "none" /\ state' = [state EXCEPT ![c] = "connecting"]
      /\ connections' = connections \cup {c} /\ ioQ' = Queued(ioQ, <<"established", c>>)
      /\ sock' = sock /\ coro' = coro /\ mainQ' = mainQ /\ batch' = batch
  BY DEF NewConnection
<1>2. ASSUME NEW d \in Conns, d # c PROVE Steady(d)
  <2>1. \A k \in Kinds : InLoop(k, d)' = InLoop(k, d)
    BY <1>1, <1>2, LifeFacts, QueueTask DEF Kinds
  <2>. QED  BY <1>1, <1>2, <2>1, LifeFacts, KeepRemovals DEF Steady, InFrame
<1>3. StatusOf(c) = "none" /\ sock[c] = "open"
  BY <1>1, LifeFacts DEF StatusOf, LifeInv
<1>4. StatusOf(c)' = "listed"
  <2>1. Alive(c)' /\ state'[c] = "connecting" /\ c \in connections'
    BY <1>1, LifeFacts DEF Alive
  <2>. QED  BY <1>1, <1>3, <2>1 DEF StatusOf
<1>. QED  BY <1>2, <1>3, <1>4, LifeFacts, OneLives DEF Allowed

\* The main loop takes it off the list: it is delisted, or freed with the functor that
\* found a full queue.
LEMMA RemoveConnectionLives ==
    ASSUME IInv, IInv', NEW c \in Conns, RemoveConnection, c = Head(mainQ)
    PROVE  Lives
<1>1. /\ mainQ # <<>> /\ mainQ' = Tail(mainQ) /\ connections' = connections \ {c}
      /\ ioQ' = Queued(ioQ, <<"destroyed", c>>)
      /\ state' = state /\ sock' = sock /\ coro' = coro /\ batch' = batch
  BY DEF RemoveConnection, lifeVars
<1>2. ASSUME NEW d \in Conns, d # c PROVE Steady(d)
  <2>1. \A k \in Kinds : InLoop(k, d)' = InLoop(k, d)
    BY <1>1, <1>2, LifeFacts, QueueTask DEF Kinds
  <2>2. Removals(d)' = Removals(d)
    BY <1>1, <1>2, LifeFacts, RunRemoval
  <2>. QED  BY <1>1, <1>2, <2>1, <2>2 DEF Steady, InFrame
<1>3. Removals(c) > 0
  BY <1>1, LifeFacts, RunRemoval
<1>4. state[c] # "none" /\ sock[c] = "open" /\ Alive(c)
  <2>1. "close" \in Kinds /\ "destroyed" \in Kinds
    BY DEF Kinds
  <2>2. invoked[c] /\ sock[c] = "open"
    BY <1>3, <2>1, LifeFacts DEF FunctorInv
  <2>3. Alive(c)
    BY <1>3, LifeFacts, AliveIs
  <2>. QED  BY <2>2, <2>3, LifeFacts DEF LifeInv
<1>5. StatusOf(c) \in {"listed", "delisted"}
  BY <1>4 DEF StatusOf
<1>6. StatusOf(c)' \in {"delisted", "freed"}
  BY <1>1, <1>4 DEF StatusOf
<1>. QED  BY <1>2, <1>5, <1>6, LifeFacts, OneLives DEF Allowed

\* A coroutine that ends drops its reference, which may be the last one.
LEMMA EndsLives ==
    ASSUME IInv, IInv', NEW c \in Conns, Close(c) \/ WriteFailed(c)
    PROVE  Lives
<1>1. /\ coro' = [coro EXCEPT ![c] = "done"]
      /\ \/ ForceClose(c)
         \/ state' = state /\ ioQ' = ioQ
      /\ state' = state \/ state' = [state EXCEPT ![c] = "disconnecting"]
      /\ connections' = connections /\ sock' = sock /\ mainQ' = mainQ /\ batch' = batch
  BY DEF Close, WriteFailed, ForceClose, lifeVars, taskVars
<1>2. coro[c] # "none" /\ InFrame(c)
  <2>1. CASE Close(c)
    BY <2>1 DEF Close, InFrame, Running
  <2>2. CASE WriteFailed(c)
    <3>1. Posted("write", c, "error") > 0
      BY <2>2, LifeFacts, HandleOne DEF WriteFailed
    <3>2. coro[c] = "writing"
      BY <3>1, LifeFacts DEF RequestInv, Writes
    <3>. QED  BY <3>2 DEF InFrame, Suspended
  <2>. QED  BY <2>1, <2>2
<1>3. ASSUME NEW d \in Conns, d # c PROVE Steady(d)
  <2>1. \A k \in Kinds : InLoop(k, d)' = InLoop(k, d)
    BY <1>1, <1>3, LifeFacts, ForceCloseQueues, KeepFunctors
  <2>. QED  BY <1>1, <1>3, <2>1, LifeFacts, KeepRemovals DEF Steady, InFrame
<1>4. state[c] # "none" /\ state'[c] # "none" /\ Alive(c)
  BY <1>1, <1>2, LifeFacts DEF LifeInv, Alive, InFrame
<1>5. c \in connections => Alive(c)'
  BY <1>1 DEF Alive
<1>6. StatusOf(c) \in {"listed", "delisted", "closed"}
  BY <1>4 DEF StatusOf
<1>7. StatusOf(c)' = StatusOf(c) \/ StatusOf(c)' = "freed"
  BY <1>1, <1>4 DEF StatusOf
<1>. QED  BY <1>3, <1>6, <1>7, LifeFacts, OneLives DEF Allowed

\* The connection that is established, or has its close callback run, is listed.
LEMMA ListedLives ==
    ASSUME IInv, IInv', NEW c \in Conns, ConnectEstablished(c) \/ HandleClose(c)
    PROVE  Lives
<1>1. /\ ioQ' = ioQ /\ connections' = connections /\ sock' = sock
      /\ mainQ' = mainQ \/ mainQ' = Queued(mainQ, c)
      /\ Runs("established", c) \/ Runs("close", c)
      /\ \A d \in Conns : d # c => state'[d] = state[d] /\ coro'[d] = coro[d]
      /\ state'[c] # "none"
  <2>1. CASE ConnectEstablished(c)
    BY <2>1, LifeFacts DEF ConnectEstablished, taskVars
  <2>2. CASE HandleClose(c)
    BY <2>2, LifeFacts DEF HandleClose
  <2>. QED  BY <2>1, <2>2
<1>2. ASSUME NEW d \in Conns, d # c PROVE Steady(d)
  <2>1. \A k \in Kinds : InLoop(k, d)' = InLoop(k, d)
    <3>1. PICK kind \in {"established", "close"} : Runs(kind, c)
      BY <1>1
    <3>2. \A k \in Kinds :
              InLoop(k, d)' = InLoop(k, d) - (IF k = kind /\ d = c THEN 1 ELSE 0)
      BY <1>1, <3>1, LifeFacts, RunTask DEF Kinds
    <3>. QED  BY <1>2, <3>2, LifeFacts
  <2>2. Removals(d)' = Removals(d)
    <3>1. CASE mainQ' = mainQ
      BY <3>1, KeepRemovals
    <3>2. CASE mainQ' = Queued(mainQ, c)
      BY <1>2, <3>2, LifeFacts, QueueRemoval
    <3>. QED  BY <1>1, <3>1, <3>2
  <2>. QED  BY <1>1, <1>2, <2>1, <2>2 DEF Steady, InFrame
<1>3. c \in connections /\ state[c] # "none"
  <2>1. InLoop("established", c) > 0 \/ InLoop("close", c) > 0
    BY <1>1, LifeFacts, RunTask DEF Kinds
  <2>2. state[c] \in {"connecting", "disconnecting"} /\ ~invoked[c]
    BY <2>1, LifeFacts DEF FunctorInv, LifeInv
  <2>. QED  BY <2>2, LifeFacts DEF LifeInv
<1>4. StatusOf(c)' = StatusOf(c)
  BY <1>1, <1>3 DEF StatusOf, Alive
<1>. QED  BY <1>2, <1>4, LifeFacts, OneLives DEF Allowed

\* Destroying closes the descriptor of a connection that is off the list.
LEMMA DestroyedLives ==
    ASSUME IInv, IInv', NEW c \in Conns, ConnectDestroyed(c)
    PROVE  Lives
<1>1. /\ Runs("destroyed", c) /\ ioQ' = ioQ /\ mainQ' = mainQ
      /\ state' = [state EXCEPT ![c] = IF @ \in {"connected", "disconnecting"}
                                       THEN "disconnected" ELSE @]
      /\ sock' = [sock EXCEPT ![c] = "closed"]
      /\ connections' = connections /\ coro' = coro
  BY DEF ConnectDestroyed, taskVars
<1>2. /\ InLoop("destroyed", c) > 0
      /\ \A k \in Kinds, d \in Conns :
             InLoop(k, d)' = InLoop(k, d) - (IF k = "destroyed" /\ d = c THEN 1 ELSE 0)
  BY <1>1, LifeFacts, RunTask DEF Kinds
<1>3. ASSUME NEW d \in Conns, d # c PROVE Steady(d)
  <2>1. \A k \in Kinds : InLoop(k, d)' = InLoop(k, d)
    BY <1>2, <1>3, LifeFacts
  <2>. QED  BY <1>1, <1>3, <2>1, LifeFacts, KeepRemovals DEF Steady, InFrame
<1>4. state[c] # "none" /\ sock[c] = "open" /\ c \notin connections /\ Alive(c)
  <2>1. "close" \in Kinds /\ "destroyed" \in Kinds
    BY DEF Kinds
  <2>2. invoked[c] /\ sock[c] = "open" /\ c \notin connections
    BY <1>2, <2>1, LifeFacts DEF FunctorInv
  <2>3. Alive(c)
    BY <1>2, <2>1, LifeFacts, AliveIs
  <2>. QED  BY <2>2, <2>3, LifeFacts DEF LifeInv
<1>5. StatusOf(c) = "delisted"
  BY <1>4 DEF StatusOf
<1>6. StatusOf(c)' \in {"closed", "freed"}
  BY <1>1, <1>4, LifeFacts DEF StatusOf
<1>. QED  BY <1>3, <1>5, <1>6, LifeFacts, OneLives DEF Allowed

\* A timeout that closes a connection finds it connected, hence listed.
LEMMA TimeoutLives ==
    ASSUME IInv, IInv', NEW c \in Conns, NEW res, Timeout(c, res)
    PROVE  Lives
<1>1. /\ connections' = connections /\ sock' = sock /\ coro' = coro /\ mainQ' = mainQ
      /\ batch' = batch
      /\ ForceClose(c) \/ (state' = state /\ ioQ' = ioQ)
      /\ \/ state' = state /\ ioQ' = ioQ
         \/ state[c] = "connected" /\ state' = [state EXCEPT ![c] = "disconnecting"]
  BY DEF Timeout, ForceClose
<1>2. ASSUME NEW d \in Conns, d # c PROVE Steady(d)
  <2>1. \A k \in Kinds : InLoop(k, d)' = InLoop(k, d)
    BY <1>1, <1>2, LifeFacts, ForceCloseQueues, KeepFunctors
  <2>. QED  BY <1>1, <1>2, <2>1, LifeFacts, KeepRemovals DEF Steady, InFrame
<1>3. StatusOf(c)' = StatusOf(c)
  <2>1. CASE state' = state /\ ioQ' = ioQ
    BY <1>1, <2>1 DEF StatusOf, Alive
  <2>2. CASE state[c] = "connected" /\ state' = [state EXCEPT ![c] = "disconnecting"]
    <3>1. c \in connections /\ state'[c] # "none"
      BY <2>2, LifeFacts DEF LifeInv
    <3>. QED  BY <1>1, <2>2, <3>1 DEF StatusOf, Alive
  <2>. QED  BY <1>1, <2>1, <2>2
<1>. QED  BY <1>2, <1>3, LifeFacts, OneLives DEF Allowed

\* The other steps change no reference, list or descriptor.
LEMMA CoroutineLives ==
    ASSUME IInv, IInv', NEW c \in Conns,
           \/ AsyncRead(c) \/ AsyncSend(c) \/ Consume(c) \/ Shutdown(c)
           \/ ReadDone(c) \/ WriteDone(c)
           \/ \E res \in {"end", "canceled"} : ReadFailed(c, res)
    PROVE  Lives
<1>1. /\ connections' = connections /\ sock' = sock /\ mainQ' = mainQ /\ ioQ' = ioQ
      /\ batch' = batch
      /\ \/ state' = state
         \/ state' = [state EXCEPT ![c] = IF @ = "connected" THEN "disconnecting" ELSE @]
      /\ \E next \in Running \cup Suspended : coro' = [coro EXCEPT ![c] = next]
  BY DEF AsyncRead, AsyncSend, Consume, Shutdown, ReadDone, WriteDone, ReadFailed,
         lifeVars, taskVars, Running, Suspended
<1>2. InFrame(c)
  <2>1. CASE AsyncRead(c) \/ AsyncSend(c) \/ Consume(c) \/ Shutdown(c)
    BY <2>1 DEF AsyncRead, AsyncSend, Consume, Shutdown, InFrame, Running
  <2>2. CASE ReadDone(c) \/ \E res \in {"end", "canceled"} : ReadFailed(c, res)
    <3>1. PICK res \in {"data", "end", "canceled"} : Handles("read", c, res)
      BY <2>2 DEF ReadDone, ReadFailed
    <3>2. Posted("read", c, res) > 0
      BY <3>1, LifeFacts, HandleOne
    <3>3. coro[c] = "reading"
      BY <3>2, LifeFacts DEF RequestInv, Reads
    <3>. QED  BY <3>3 DEF InFrame, Suspended
  <2>3. CASE WriteDone(c)
    <3>1. Posted("write", c, "ok") > 0
      BY <2>3, LifeFacts, HandleOne DEF WriteDone
    <3>2. coro[c] = "writing"
      BY <3>1, LifeFacts DEF RequestInv, Writes
    <3>. QED  BY <3>2 DEF InFrame, Suspended
  <2>. QED  BY <2>1, <2>2, <2>3
<1>3. ASSUME NEW d \in Conns PROVE Steady(d)
  <2>1. InFrame(d)' <=> InFrame(d)
    BY <1>1, <1>2, LifeFacts DEF InFrame
  <2>2. state'[d] = "none" <=> state[d] = "none"
    BY <1>1, LifeFacts
  <2>. QED  BY <1>1, <2>1, <2>2, KeepFunctors, KeepRemovals DEF Steady
<1>. QED  BY <1>3, LifeFacts, NoneLives

LEMMA NextLives == IInv /\ IInv' /\ [Next]_vars => Lives
<1>. SUFFICES ASSUME IInv, IInv', [Next]_vars PROVE Lives
  OBVIOUS
<1>1. QueuesOK /\ QueuesOK'
  <2>1. TypeOK' => QueuesOK'
    BY QueuesTyped, PTL
  <2>. QED  BY <2>1, QueuesTyped DEF IInv
<1>2. ASSUME UNCHANGED <<connections, state, sock, coro, mainQ>>,
             \A c \in Conns : \A k \in Kinds : InLoop(k, c)' = InLoop(k, c)
      PROVE  Lives
  <2>1. \A d \in Conns : Steady(d)
    BY <1>2, KeepRemovals DEF Steady, InFrame
  <2>. QED  BY <1>1, <2>1, NoneLives
<1>3. ASSUME UNCHANGED <<connections, state, sock, coro, mainQ, ioQ, batch>> PROVE Lives
  BY <1>2, <1>3, KeepFunctors
<1>4. ASSUME NEW c \in Conns, PeerLeaves(c) PROVE Lives
  BY <1>3, <1>4 DEF PeerLeaves, lifeVars, taskVars
<1>5. ASSUME NEW c \in Conns, Kernel(c) PROVE Lives
  <2>1. UNCHANGED <<connections, state, sock, coro, mainQ, ioQ, batch>>
    BY <1>5 DEF Kernel, ReadCompletes, TimerExpires, TimerExpiresLate, WriteCompletes,
                lifeVars, taskVars
  <2>. QED  BY <1>3, <2>1
<1>6. CASE RemoveConnection
  <2>1. Head(mainQ) \in Conns
    BY <1>1, <1>6, RunRemoval DEF RemoveConnection
  <2>. QED  BY <1>6, <2>1, RemoveConnectionLives
<1>7. CASE Submit \/ Wait \/ EndTasks
  BY <1>3, <1>7 DEF Submit, Wait, EndTasks, lifeVars, taskVars
<1>8. CASE BeginTasks
  <2>1. batch = <<>> /\ batch' = ioQ /\ ioQ' = <<>>
    BY <1>8 DEF BeginTasks, IInv
  <2>2. \A c \in Conns : \A k \in Kinds : InLoop(k, c)' = InLoop(k, c)
    BY <1>1, <2>1, TakeTasks
  <2>. QED  BY <1>2, <1>8, <2>2 DEF BeginTasks, lifeVars
<1>9. ASSUME NEW c \in Conns, Coroutine(c) PROVE Lives
  BY <1>9, CoroutineLives, EndsLives DEF Coroutine
<1>10. ASSUME NEW c \in Conns, Completion(c) PROVE Lives
  BY <1>10, CoroutineLives, EndsLives, TimeoutLives DEF Completion
<1>11. ASSUME NEW c \in Conns, Functor(c) PROVE Lives
  BY <1>11, ListedLives, DestroyedLives DEF Functor
<1>12. CASE UNCHANGED vars
  BY <1>3, <1>12 DEF vars, lifeVars, taskVars
<1>. QED
  BY <1>4, <1>5, <1>6, <1>7, <1>8, <1>9, <1>10, <1>11, <1>12, NewConnectionLives
     DEF Next, IoLoop

\* Whatever fails, every connection is accepted, taken off the list, closed and freed
\* in the order Session gives, each at most once.
THEOREM ConnectionsImplementSession == Spec => ImplementsSession
<1>1. Init => Life!SessionInit
  BY DEF Init, Life!SessionInit, StatusOf
<1>2. IInv /\ IInv' /\ [Next]_vars => [Life!SessionNext]_([c \in Conns |-> StatusOf(c)])
  BY NextLives DEF Lives
<1>. QED  BY <1>1, <1>2, SpecInv, PTL DEF Spec, ImplementsSession, Life!SessionSpec
==============================================================================

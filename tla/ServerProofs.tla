---------------------------- MODULE ServerProofs ----------------------------
(***************************************************************************)
(* Proofs about Server for every number of threads, clients and faults:     *)
(* connections are dealt in the order of arrival, the registry holds a      *)
(* connection until it is closed, and no loop thread survives the server.   *)
(***************************************************************************)
EXTENDS Server, SequenceTheorems, TLAPS

Loops == Workers \cup {Base}

-----------------------------------------------------------------------------
(* The inductive invariant                                                  *)

\* The pool is started thread by thread, before the server listens, and a thread of
\* it is told to quit.
PoolInv ==
    /\ Len(loops) <= numThreads
    /\ \A i \in 1 .. Len(loops) : loops[i] = i /\ i \in ready
    /\ \A w \in Workers : thread[w] # "none" => w <= numThreads
    /\ main # "starting" => Len(loops) = numThreads
    /\ main = "quitting" => told < numThreads

\* Nothing is dealt before the main loop runs; then the turn of the loops is the
\* number of connections dealt.
TurnInv ==
    /\ main = "starting" => dealt = <<>>
    /\ next = IF numThreads = 0 THEN 0 ELSE Len(dealt) % numThreads

\* A client is dealt, or held by the completed accept request, or in the backlog,
\* in the order of arrival.
Pending == IF accept = "done" THEN 1 ELSE 0

ArrivalInv ==
    /\ main \in {"starting", "gone"} => accept = "none"
    /\ accept = "done" => accepted = Len(dealt) + 1 /\ address = Len(dealt) + 1
    /\ main # "gone" =>
          /\ arrived = Len(dealt) + Pending + Len(backlog)
          /\ \A i \in 1 .. Len(backlog) : backlog[i] = Len(dealt) + Pending + i

\* Only a dealt client has a connection.
DealtInv == \A c \in Clients : conn[c] # "none" => c <= Len(dealt)

\* A task that is queued tells the state its connection waits in, and a
\* connection has one task at most, in whatever loop.
Awaiting(kind) ==
    CASE kind = "establish" -> "connecting"
      [] kind = "close"     -> "closing"
      [] OTHER              -> "closed"

Matches(q, states) ==
    \A l \in Loops : \A i \in 1 .. Len(q[l]) : states[q[l][i][2]] = Awaiting(q[l][i][1])
Unique(q) ==
    \A l, m \in Loops : \A i \in 1 .. Len(q[l]), j \in 1 .. Len(q[m]) :
        q[l][i][2] = q[m][j][2] => l = m /\ i = j

TaskInv == Matches(tasks, conn) /\ Unique(tasks)

IInv ==
    /\ ServerInv /\ LifetimesAreNested
    /\ PoolInv /\ TurnInv /\ ArrivalInv /\ DealtInv /\ TaskInv

-----------------------------------------------------------------------------
(* The tasks of the loops                                                   *)

Kinds == {"establish", "close", "remove", "destroy"}
States == {"none", "connecting", "connected", "closing", "closed", "destroyed"}
Queues == [Loops -> Seq(Task)]

NoTask(q, c) == \A l \in Loops : \A i \in 1 .. Len(q[l]) : q[l][i][2] # c

\* A task is a kind and a client.
LEMMA TaskFacts ==
    ASSUME NEW q \in Queues, NEW l \in Loops, NEW i \in 1 .. Len(q[l])
    PROVE  /\ q[l][i] \in Task /\ q[l][i][1] \in Kinds /\ q[l][i][2] \in Clients
           /\ q[l][i] = <<q[l][i][1], q[l][i][2]>>
<1>1. q[l] \in Seq(Task)
  BY DEF Queues
<1>2. q[l][i] \in Task
  BY <1>1, ElementOfSeq
<1>. QED  BY <1>2 DEF Task, Kinds

\* queueInLoop: one task more at the end of one queue, or none.
LEMMA PostedFacts ==
    ASSUME NEW q \in Queues, NEW l, NEW t \in Task
    PROVE  /\ Posted(q, l, t) \in Queues
           /\ \A m \in Loops : \/ Posted(q, l, t)[m] = q[m]
                               \/ m = l /\ Posted(q, l, t)[m] = Append(q[m], t)
<1>1. CASE Posted(q, l, t) = q
  BY <1>1
<1>2. CASE Posted(q, l, t) = [q EXCEPT ![l] = Append(@, t)]
  <2>1. \A m \in Loops : Append(q[m], t) \in Seq(Task)
    BY AppendProperties DEF Queues
  <2>. QED  BY <1>2, <2>1 DEF Queues
<1>. QED  BY <1>1, <1>2 DEF Posted

\* What is queued after a post was queued before, or is the new task.
LEMMA PostedElements ==
    ASSUME NEW q \in Queues, NEW l, NEW t \in Task, NEW m \in Loops,
           NEW i \in 1 .. Len(Posted(q, l, t)[m])
    PROVE  \/ i \in 1 .. Len(q[m]) /\ Posted(q, l, t)[m][i] = q[m][i]
           \/ m = l /\ i = Len(q[m]) + 1 /\ Posted(q, l, t)[m][i] = t
<1>1. q[m] \in Seq(Task)
  BY DEF Queues
<1>2. /\ Len(Append(q[m], t)) = Len(q[m]) + 1 /\ Len(q[m]) \in Nat
      /\ \A j \in 1 .. Len(q[m]) : Append(q[m], t)[j] = q[m][j]
      /\ Append(q[m], t)[Len(q[m]) + 1] = t
  BY <1>1, AppendProperties, LenProperties
<1>3. CASE Posted(q, l, t)[m] = q[m]
  BY <1>3
<1>4. CASE m = l /\ Posted(q, l, t)[m] = Append(q[m], t)
  <2>1. i \in 1 .. Len(q[m]) \/ i = Len(q[m]) + 1
    BY <1>2, <1>4
  <2>. QED  BY <1>2, <1>4, <2>1
<1>. QED  BY <1>3, <1>4, PostedFacts

\* A connection without a task changes its state and gets the task it now waits
\* for.
LEMMA PostKeeps ==
    ASSUME NEW q \in Queues, NEW states \in [Clients -> States],
           Matches(q, states), Unique(q), NEW c \in Clients, NoTask(q, c),
           NEW kind \in Kinds, NEW l
    PROVE  /\ Posted(q, l, <<kind, c>>) \in Queues
           /\ Matches(Posted(q, l, <<kind, c>>), [states EXCEPT ![c] = Awaiting(kind)])
           /\ Unique(Posted(q, l, <<kind, c>>))
<1>. DEFINE t == <<kind, c>>
            r == Posted(q, l, t)
            after == [states EXCEPT ![c] = Awaiting(kind)]
<1>1. t \in Task /\ t[1] = kind /\ t[2] = c
  BY DEF Task, Kinds
<1>2. r \in Queues
  BY <1>1, PostedFacts
<1>3. ASSUME NEW m \in Loops, NEW i \in 1 .. Len(r[m])
      PROVE  \/ i \in 1 .. Len(q[m]) /\ r[m][i] = q[m][i]
             \/ m = l /\ i = Len(q[m]) + 1 /\ r[m][i] = t
  BY <1>1, PostedElements
<1>4. after[c] = Awaiting(kind) /\ \A d \in Clients : d # c => after[d] = states[d]
  OBVIOUS
<1>. HIDE DEF r, after, t
<1>5. Matches(r, after)
  <2>. SUFFICES ASSUME NEW m \in Loops, NEW i \in 1 .. Len(r[m])
                PROVE  after[r[m][i][2]] = Awaiting(r[m][i][1])
    BY DEF Matches
  <2>1. CASE i \in 1 .. Len(q[m]) /\ r[m][i] = q[m][i]
    <3>1. q[m][i][2] \in Clients /\ q[m][i][2] # c
      BY <2>1, TaskFacts DEF NoTask
    <3>2. states[q[m][i][2]] = Awaiting(q[m][i][1])
      BY <2>1 DEF Matches
    <3>. QED  BY <1>4, <2>1, <3>1, <3>2
  <2>2. CASE m = l /\ i = Len(q[m]) + 1 /\ r[m][i] = t
    BY <1>1, <1>4, <2>2
  <2>. QED  BY <1>3, <2>1, <2>2
<1>6. Unique(r)
  <2>. SUFFICES ASSUME NEW m \in Loops, NEW n \in Loops,
                       NEW i \in 1 .. Len(r[m]), NEW j \in 1 .. Len(r[n]),
                       r[m][i][2] = r[n][j][2]
                PROVE  m = n /\ i = j
    BY DEF Unique
  <2>1. CASE i \in 1 .. Len(q[m]) /\ r[m][i] = q[m][i]
    <3>1. q[m][i][2] # c
      BY <2>1 DEF NoTask
    <3>2. j \in 1 .. Len(q[n]) /\ r[n][j] = q[n][j]
      BY <1>1, <1>3, <2>1, <3>1
    <3>. QED  BY <2>1, <3>2 DEF Unique
  <2>2. CASE m = l /\ i = Len(q[m]) + 1 /\ r[m][i] = t
    <3>1. ~(j \in 1 .. Len(q[n]) /\ r[n][j] = q[n][j])
      BY <1>1, <2>2 DEF NoTask
    <3>2. n = l /\ j = Len(q[n]) + 1
      BY <1>3, <3>1
    <3>. QED  BY <2>2, <3>2
  <2>. QED  BY <1>3, <2>1, <2>2
<1>. QED  BY <1>2, <1>5, <1>6 DEF r, after, t

\* A connection without a task may change its state.
LEMMA ChangeKeeps ==
    ASSUME NEW q \in Queues, NEW states \in [Clients -> States],
           Matches(q, states), NEW c \in Clients, NoTask(q, c), NEW x
    PROVE  Matches(q, [states EXCEPT ![c] = x])
<1>. SUFFICES ASSUME NEW m \in Loops, NEW i \in 1 .. Len(q[m])
              PROVE  [states EXCEPT ![c] = x][q[m][i][2]] = Awaiting(q[m][i][1])
  BY DEF Matches
<1>1. q[m][i][2] \in Clients /\ q[m][i][2] # c
  BY TaskFacts DEF NoTask
<1>2. states[q[m][i][2]] = Awaiting(q[m][i][1])
  BY DEF Matches
<1>. QED  BY <1>1, <1>2

\* A connection that waits for nothing has no task.
LEMMA IdleHasNoTask ==
    ASSUME NEW q \in Queues, NEW states, Matches(q, states), NEW c \in Clients,
           states[c] \in {"none", "connected", "destroyed"}
    PROVE  NoTask(q, c)
BY DEF Matches, NoTask, Awaiting

\* Taking the first task of a queue leaves its connection without one.
LEMMA PopKeeps ==
    ASSUME NEW q \in Queues, NEW states, Matches(q, states), Unique(q),
           NEW l \in Loops, q[l] # <<>>
    PROVE  LET rest == [q EXCEPT ![l] = Tail(@)]
           IN  /\ rest \in Queues /\ Matches(rest, states) /\ Unique(rest)
               /\ Head(q[l])[1] \in Kinds /\ Head(q[l])[2] \in Clients
               /\ states[Head(q[l])[2]] = Awaiting(Head(q[l])[1])
               /\ NoTask(rest, Head(q[l])[2])
<1>. DEFINE rest == [q EXCEPT ![l] = Tail(@)]
            t == Head(q[l])
<1>1. q[l] \in Seq(Task)
  BY DEF Queues
<1>2. /\ Tail(q[l]) \in Seq(Task) /\ Len(Tail(q[l])) = Len(q[l]) - 1
      /\ Len(q[l]) \in Nat \ {0} /\ t = q[l][1]
      /\ \A i \in 1 .. Len(Tail(q[l])) : Tail(q[l])[i] = q[l][i + 1]
  BY <1>1, HeadTailProperties, EmptySeq
<1>3. rest \in Queues
  BY <1>2 DEF Queues
<1>4. rest[l] = Tail(q[l]) /\ \A m \in Loops : m # l => rest[m] = q[m]
  BY DEF Queues
<1>. HIDE DEF rest, t
<1>5. 1 \in 1 .. Len(q[l]) /\ \A i \in 1 .. Len(rest[l]) : i + 1 \in 1 .. Len(q[l]) /\ i + 1 # 1
  BY <1>2, <1>4
<1>6. t[1] \in Kinds /\ t[2] \in Clients /\ states[t[2]] = Awaiting(t[1])
  BY <1>2, <1>5, TaskFacts DEF Matches
<1>7. Matches(rest, states)
  <2>. SUFFICES ASSUME NEW m \in Loops, NEW i \in 1 .. Len(rest[m])
                PROVE  states[rest[m][i][2]] = Awaiting(rest[m][i][1])
    BY DEF Matches
  <2>1. CASE m = l
    <3>1. i + 1 \in 1 .. Len(q[l]) /\ rest[m][i] = q[l][i + 1]
      BY <1>2, <1>4, <1>5, <2>1
    <3>. QED  BY <3>1 DEF Matches
  <2>2. CASE m # l
    BY <1>4, <2>2 DEF Matches
  <2>. QED  BY <2>1, <2>2
<1>8. Unique(rest)
  <2>. SUFFICES ASSUME NEW m \in Loops, NEW n \in Loops,
                       NEW i \in 1 .. Len(rest[m]), NEW j \in 1 .. Len(rest[n]),
                       rest[m][i][2] = rest[n][j][2]
                PROVE  m = n /\ i = j
    BY DEF Unique
  <2>. DEFINE a == IF m = l THEN i + 1 ELSE i
              b == IF n = l THEN j + 1 ELSE j
  <2>1. a \in 1 .. Len(q[m]) /\ rest[m][i] = q[m][a]
    BY <1>2, <1>4, <1>5
  <2>2. b \in 1 .. Len(q[n]) /\ rest[n][j] = q[n][b]
    BY <1>2, <1>4, <1>5
  <2>. HIDE DEF a, b
  <2>3. m = n /\ a = b
    BY <2>1, <2>2 DEF Unique
  <2>. QED  BY <2>3 DEF a, b
<1>9. NoTask(rest, t[2])
  <2>. SUFFICES ASSUME NEW m \in Loops, NEW i \in 1 .. Len(rest[m]), rest[m][i][2] = t[2]
                PROVE  FALSE
    BY DEF NoTask
  <2>1. CASE m = l
    <3>1. i + 1 \in 1 .. Len(q[l]) /\ q[l][i + 1][2] = q[l][1][2] /\ i + 1 # 1
      BY <1>2, <1>4, <1>5, <2>1
    <3>. QED  BY <1>5, <3>1 DEF Unique
  <2>2. CASE m # l
    BY <1>2, <1>4, <1>5, <2>2 DEF Unique
  <2>. QED  BY <2>1, <2>2
<1>. QED  BY <1>3, <1>6, <1>7, <1>8, <1>9 DEF rest, t

-----------------------------------------------------------------------------
(* Dealing a connection out                                                 *)

\* The loops take turns: the next number modulo k.
LEMMA NextTurn ==
    ASSUME NEW n \in Nat, NEW k \in Nat \ {0}
    PROVE  /\ n % k \in 0 .. k - 1
           /\ (n + 1) % k = IF (n % k) + 1 >= k THEN 0 ELSE (n % k) + 1
<1>. DEFINE r == n % k
            d == n \div k
<1>1. r \in 0 .. k - 1 /\ d \in Nat /\ n = k * d + r
  OBVIOUS
<1>. HIDE DEF r, d
<1>2. CASE r + 1 < k
  <2>1. n + 1 = k * d + (r + 1) /\ r + 1 \in 0 .. k - 1
    BY <1>1, <1>2
  <2>2. (n + 1) % k = r + 1
    BY <1>1, <2>1
  <2>. QED  BY <1>1, <1>2, <2>2 DEF r
<1>3. CASE ~(r + 1 < k)
  <2>1. r + 1 = k
    BY <1>1, <1>3
  <2>2. n + 1 = k * (d + 1)
    BY <1>1, <2>1
  <2>3. \A m \in Nat : (k * m) % k = 0
    OBVIOUS
  <2>4. (n + 1) % k = 0
    BY <1>1, <2>2, <2>3
  <2>. QED  BY <1>1, <1>3, <2>4 DEF r
<1>. QED  BY <1>2, <1>3

Dealing == [client : Clients, peer : Clients, loop : Loops]

\* The next client in the order of arrival is handed to the loop whose turn it
\* is.
LEMMA NewConnectionStep ==
    ASSUME IInv, main = "looping", main' = main, UNCHANGED threadVars,
           NEW c \in Clients, c = Len(dealt) + 1, NewConnection(c, c)
    PROVE  /\ Len(dealt') = Len(dealt) + 1 /\ dealt' \in Seq(Dealing)
           /\ next' = 0 \/ next' \in 1 .. Len(loops') - 1
           /\ connections' \subseteq Clients /\ conn' \in [Clients -> States]
           /\ tasks' \in Queues
           /\ ConnectionsAreDealt' /\ LifetimesAreNested' /\ PoolInv' /\ TurnInv'
           /\ DealtInv' /\ TaskInv'
<1>. DEFINE entry == [client |-> c, peer |-> c, loop |-> NextLoop]
            n == Len(dealt)
<1>0. /\ numThreads' = numThreads /\ thread' = thread /\ loops' = loops /\ ready' = ready
      /\ numThreads \in Nat /\ numThreads <= MaxThreads /\ MaxThreads \in Nat
      /\ loops \in Seq(Workers) /\ dealt \in Seq(Dealing) /\ Len(loops) = numThreads
      /\ conn \in [Clients -> States] /\ tasks \in Queues
  BY ThreadsAssumption
     DEF IInv, ServerInv, TypeOK, PoolInv, threadVars, Dealing, States, Queues, Loops
<1>1. n \in Nat /\ c \in Nat /\ Len(loops) \in Nat
  BY <1>0, LenProperties DEF Clients
<1>2. /\ next = IF numThreads = 0 THEN 0 ELSE n % numThreads
      /\ next \in Nat /\ (numThreads # 0 => next + 1 \in 1 .. numThreads)
  <2>1. next = IF numThreads = 0 THEN 0 ELSE n % numThreads
    BY DEF IInv, TurnInv
  <2>2. numThreads # 0 => n % numThreads \in 0 .. numThreads - 1
    BY <1>0, <1>1, NextTurn
  <2>. HIDE DEF n
  <2>3. CASE numThreads = 0
    BY <2>1, <2>3
  <2>4. CASE numThreads # 0
    <3>. DEFINE t == n % numThreads
    <3>1. t \in 0 .. numThreads - 1 /\ next = t
      BY <2>1, <2>2, <2>4
    <3>. HIDE DEF t
    <3>2. t \in Nat /\ t + 1 \in 1 .. numThreads
      BY <1>0, <3>1
    <3>. QED  BY <2>1, <2>4, <3>1, <3>2
  <2>. QED  BY <2>3, <2>4
<1>3. loops = <<>> <=> numThreads = 0
  BY <1>0, EmptySeq
<1>4. NextLoop = (IF numThreads = 0 THEN Base ELSE 1 + (n % numThreads)) /\ NextLoop \in Loops
  BY <1>0, <1>1, <1>2, <1>3 DEF NextLoop, IInv, PoolInv, Loops, Workers
<1>5. NextLoop \in ready \cup {Base}
  BY <1>0, <1>2, <1>3 DEF NextLoop, IInv, PoolInv
<1>. HIDE DEF n
<1>6. entry \in Dealing
  BY <1>4 DEF Dealing
<1>7. dealt' = Append(dealt, entry) /\ connections' = connections \cup {c} /\ Advance
  BY DEF NewConnection
<1>8. entry.client = c /\ entry.peer = c /\ entry.loop = NextLoop
  OBVIOUS
<1>. HIDE DEF entry
<1>9. /\ Len(dealt') = n + 1 /\ dealt' \in Seq(Dealing)
      /\ \A i \in 1 .. n : dealt'[i] = dealt[i]
      /\ dealt'[n + 1] = entry
  BY <1>0, <1>6, <1>7, AppendProperties DEF n
<1>10. next' = IF numThreads = 0 THEN 0 ELSE (n + 1) % numThreads
  <2>1. next' = IF loops = <<>> THEN next ELSE IF next + 1 >= numThreads THEN 0 ELSE next + 1
    BY <1>0, <1>7 DEF Advance
  <2>. QED  BY <1>0, <1>1, <1>2, <1>3, <2>1, NextTurn
<1>11. next' = 0 \/ next' \in 1 .. Len(loops') - 1
  BY <1>0, <1>1, <1>10, NextTurn
<1>12. ConnectionsAreDealt'
  <2>. SUFFICES ASSUME NEW i \in 1 .. n + 1
                PROVE  /\ dealt'[i] = [client |-> i, peer |-> i,
                             loop |-> IF numThreads = 0 THEN Base
                                      ELSE 1 + ((i - 1) % numThreads)]
                       /\ dealt'[i].loop \in ready \cup {Base}
    BY <1>0, <1>9 DEF ConnectionsAreDealt
  <2>1. CASE i \in 1 .. n
    BY <1>9, <2>1 DEF IInv, ServerInv, ConnectionsAreDealt, n
  <2>2. CASE i = n + 1
    <3>1. i = c /\ i - 1 = n
      BY <1>1, <2>2 DEF n
    <3>2. entry = [client |-> i, peer |-> i, loop |-> NextLoop]
      BY <3>1 DEF entry
    <3>. QED  BY <1>4, <1>5, <1>8, <1>9, <2>2, <3>1, <3>2
  <2>. QED  BY <1>1, <2>1, <2>2
<1>13. conn[c] = "none"
  BY <1>0, <1>1 DEF IInv, DealtInv, n, States
<1>14. /\ conn' \in [Clients -> States] /\ tasks' \in Queues /\ TaskInv'
       /\ \E x \in States : conn' = [conn EXCEPT ![c] = x]
  <2>1. Matches(tasks, conn) /\ Unique(tasks) /\ NoTask(tasks, c)
    BY <1>0, <1>13, IdleHasNoTask DEF IInv, TaskInv
  <2>2. CASE NextLoop = Base
    <3>1. conn' = [conn EXCEPT ![c] = "connected"] /\ tasks' = tasks
      BY <2>2 DEF NewConnection
    <3>2. conn' \in [Clients -> States] /\ Matches(tasks', conn')
      BY <1>0, <2>1, <3>1, ChangeKeeps DEF States
    <3>. QED  BY <1>0, <2>1, <3>1, <3>2 DEF TaskInv, States
  <2>3. CASE NextLoop # Base
    <3>1. /\ conn' = [conn EXCEPT ![c] = "connecting"]
          /\ tasks' = Posted(tasks, NextLoop, <<"establish", c>>)
      BY <2>3 DEF NewConnection, Post
    <3>2. Awaiting("establish") = "connecting" /\ "establish" \in Kinds
      BY DEF Awaiting, Kinds
    <3>3. tasks' \in Queues /\ Matches(tasks', conn') /\ Unique(tasks')
      BY <1>0, <2>1, <3>1, <3>2, PostKeeps
    <3>. QED  BY <1>0, <3>1, <3>3 DEF TaskInv, States
  <2>. QED  BY <2>2, <2>3
<1>15. LifetimesAreNested'
  <2>1. \A d \in Clients : d # c => conn'[d] = conn[d]
    BY <1>0, <1>14
  <2>. QED  BY <1>0, <1>7, <2>1 DEF IInv, LifetimesAreNested
<1>16. DealtInv'
  <2>1. \A d \in Clients : d # c => conn'[d] = conn[d]
    BY <1>0, <1>14
  <2>2. \A d \in Clients : d <= n => d <= n + 1
    BY <1>1 DEF Clients
  <2>3. c <= n + 1
    BY <1>1 DEF n
  <2>. QED  BY <1>9, <2>1, <2>2, <2>3 DEF IInv, DealtInv, n
<1>17. PoolInv' /\ TurnInv'
  BY <1>0, <1>9, <1>10 DEF IInv, PoolInv, TurnInv
<1>18. connections' \subseteq Clients
  BY <1>7 DEF IInv, ServerInv, TypeOK
<1>. QED
  BY <1>9, <1>11, <1>12, <1>14, <1>15, <1>16, <1>17, <1>18 DEF n

-----------------------------------------------------------------------------
(* The steps, by what they leave alone                                      *)

\* What connections, tasks and turns say stays true while they are left alone.
LEMMA ConnectionsSame ==
    ASSUME IInv, UNCHANGED <<numThreads, dealt, next, conn, tasks>>, ready \subseteq ready',
           main' = "starting" => main = "starting"
    PROVE  ConnectionsAreDealt' /\ TurnInv' /\ DealtInv' /\ TaskInv'
<1>1. ConnectionsAreDealt'
  BY DEF IInv, ServerInv, ConnectionsAreDealt
<1>2. TurnInv'
  BY DEF IInv, TurnInv
<1>3. DealtInv' /\ TaskInv'
  BY DEF IInv, DealtInv, TaskInv, Matches, Unique
<1>. QED  BY <1>1, <1>2, <1>3

LEMMA ArrivalSame ==
    ASSUME IInv, UNCHANGED <<dealt, accepted, address, arrived, backlog>>,
           accept' = "done" <=> accept = "done",
           main' # "gone" => main # "gone",
           main' \in {"starting", "gone"} => main' = main /\ accept' = accept
    PROVE  ArrivalInv'
BY DEF IInv, ArrivalInv, Pending

\* A loop thread is created, published, entered or taken over by startLoop.
LEMMA ThreadStep ==
    ASSUME IInv, NEW w \in Workers,
           CreateThread(w) \/ PublishLoop(w) \/ EnterLoop(w) \/ StartLoop(w)
    PROVE  IInv'
<1>0. /\ TypeOK /\ loops \in Seq(Workers) /\ Len(loops) \in Nat /\ w \in Nat
      /\ numThreads \in Nat /\ next \in Nat
  BY SMTT(60), LenProperties, ThreadsAssumption DEF IInv, ServerInv, TypeOK, Workers
<1>1. /\ UNCHANGED <<main, numThreads, told, died, tasks, clientVars, acceptVars, dealVars>>
      /\ UNCHANGED <<connections, conn, faultVars>>
      /\ ready \subseteq ready'
  BY DEF CreateThread, PublishLoop, EnterLoop, StartLoop
<1>2. ConnectionsAreDealt' /\ TurnInv' /\ DealtInv' /\ TaskInv' /\ ArrivalInv'
  BY <1>1, ConnectionsSame, ArrivalSame DEF dealVars, acceptVars, clientVars
<1>3. CASE StartLoop(w)
  <2>1. /\ w = Len(loops) + 1 /\ w <= numThreads /\ main = "starting"
        /\ loops' = Append(loops, w) /\ ready' = ready \cup {w}
        /\ thread' = thread /\ quit' = quit
    BY <1>3 DEF StartLoop, Starting
  <2>2. /\ loops' \in Seq(Workers) /\ Len(loops') = Len(loops) + 1
        /\ \A i \in 1 .. Len(loops) : loops'[i] = loops[i]
        /\ loops'[Len(loops) + 1] = w
    BY <1>0, <2>1, AppendProperties
  <2>3. \A i \in 1 .. Len(loops') : loops'[i] = i /\ i \in ready'
    <3>1. \A i \in 1 .. Len(loops') : i \in 1 .. Len(loops) \/ i = w
      BY <1>0, <2>1, <2>2
    <3>. QED  BY <2>1, <2>2, <3>1 DEF IInv, PoolInv
  <2>4. PoolInv'
    BY <1>0, <1>1, <2>1, <2>2, <2>3 DEF IInv, PoolInv
  <2>5. next' = 0 \/ next' \in 1 .. Len(loops') - 1
    BY <1>0, <1>1, <2>2 DEF TypeOK, dealVars
  <2>6. TypeOK'
    BY <1>0, <1>1, <2>1, <2>2, <2>5
       DEF TypeOK, clientVars, acceptVars, dealVars, faultVars
  <2>7. LifetimesAreNested'
    BY <1>1, <2>1 DEF IInv, LifetimesAreNested
  <2>. QED  BY <1>2, <2>4, <2>6, <2>7 DEF IInv, ServerInv
<1>4. CASE CreateThread(w) \/ PublishLoop(w) \/ EnterLoop(w)
  <2>1. /\ loops' = loops /\ ready' = ready /\ quit' \subseteq quit
        /\ \E x \in {"constructing", "published", "looping"} :
              thread' = [thread EXCEPT ![w] = x]
    BY <1>4 DEF CreateThread, PublishLoop, EnterLoop
  <2>2. w <= numThreads /\ (main = "gone" => FALSE)
    BY <1>4 DEF CreateThread, PublishLoop, EnterLoop, Starting, IInv, PoolInv,
                LifetimesAreNested
  <2>3. PoolInv'
    BY <1>0, <1>1, <2>1, <2>2 DEF IInv, PoolInv, TypeOK
  <2>4. thread' \in [Workers -> {"none", "constructing", "published", "looping", "leaving",
                                "exited"}]
    BY <1>0, <2>1 DEF TypeOK
  <2>5. TypeOK'
    BY <1>0, <1>1, <2>1, <2>4 DEF TypeOK, clientVars, acceptVars, dealVars, faultVars
  <2>6. LifetimesAreNested'
    BY <1>1, <2>2 DEF IInv, LifetimesAreNested
  <2>. QED  BY <1>2, <2>3, <2>5, <2>6 DEF IInv, ServerInv
<1>. QED  BY <1>3, <1>4

\* A loop returns, and its thread destroys it with the tasks it had.
LEMMA ExitLoopStep ==
    ASSUME IInv, NEW w \in Workers, ExitLoop(w) \/ LeaveThread(w)
    PROVE  IInv'
<1>0. TypeOK /\ tasks \in Queues /\ errors \in 0 .. MaxErrors /\ w \in Loops
  BY DEF IInv, ServerInv, TypeOK, Queues, Loops
<1>1. /\ UNCHANGED <<main, numThreads, loops, ready, quit, told, clientVars, acceptVars, dealVars>>
      /\ UNCHANGED <<connections, conn, starved>>
      /\ thread[w] \in {"looping", "leaving"}
      /\ \E x \in {"leaving", "exited"} : thread' = [thread EXCEPT ![w] = x]
      /\ main = "gone" => FALSE
      /\ tasks' = tasks \/ tasks' = [tasks EXCEPT ![w] = <<>>]
  BY DEF ExitLoop, LeaveThread, faultVars, IInv, LifetimesAreNested
<1>2. errors' \in 0 .. MaxErrors /\ died' \subseteq Workers
  <2>1. CASE UNCHANGED <<died, errors>>
    BY <1>0, <2>1 DEF TypeOK
  <2>2. CASE errors < MaxErrors /\ errors' = errors + 1 /\ died' = died \cup {w}
    BY <1>0, <2>2, ErrorsAssumption DEF TypeOK
  <2>. QED  BY <2>1, <2>2 DEF ExitLoop, LeaveThread, faultVars
<1>3. /\ tasks' \in Queues
      /\ \A l \in Loops : tasks'[l] = tasks[l] \/ \A i \in 1 .. Len(tasks'[l]) : FALSE
  <2>1. CASE tasks' = tasks
    BY <1>0, <2>1
  <2>2. CASE tasks' = [tasks EXCEPT ![w] = <<>>]
    BY <1>0, <2>2 DEF Queues
  <2>. QED  BY <1>1, <2>1, <2>2
<1>4. TaskInv'
  <2>1. Matches(tasks', conn')
    <3>. SUFFICES ASSUME NEW l \in Loops, NEW i \in 1 .. Len(tasks'[l])
                  PROVE  conn'[tasks'[l][i][2]] = Awaiting(tasks'[l][i][1])
      BY DEF Matches
    <3>1. tasks'[l] = tasks[l] /\ i \in 1 .. Len(tasks[l])
      BY <1>3
    <3>. QED  BY <1>1, <3>1 DEF IInv, TaskInv, Matches
  <2>2. Unique(tasks')
    <3>. SUFFICES ASSUME NEW l \in Loops, NEW m \in Loops, NEW i \in 1 .. Len(tasks'[l]),
                         NEW j \in 1 .. Len(tasks'[m]), tasks'[l][i][2] = tasks'[m][j][2]
                  PROVE  l = m /\ i = j
      BY DEF Unique
    <3>1. tasks'[l] = tasks[l] /\ tasks'[m] = tasks[m]
      BY <1>3
    <3>. QED  BY <3>1 DEF IInv, TaskInv, Unique
  <2>. QED  BY <2>1, <2>2 DEF TaskInv
<1>5. ConnectionsAreDealt' /\ TurnInv' /\ DealtInv' /\ ArrivalInv'
  <2>1. ArrivalInv'
    BY <1>1, ArrivalSame DEF acceptVars, clientVars, dealVars
  <2>2. UNCHANGED <<numThreads, dealt, next, conn>>
    BY <1>1 DEF dealVars
  <2>3. ConnectionsAreDealt'
    BY <1>1, <2>2 DEF IInv, ServerInv, ConnectionsAreDealt
  <2>. QED  BY <1>1, <2>1, <2>2, <2>3 DEF IInv, TurnInv, DealtInv
<1>6. PoolInv'
  BY <1>0, <1>1 DEF IInv, PoolInv, TypeOK
<1>7. LifetimesAreNested'
  BY <1>0, <1>1 DEF IInv, LifetimesAreNested, TypeOK
<1>8. thread' \in [Workers -> {"none", "constructing", "published", "looping", "leaving",
                                "exited"}]
  BY <1>0, <1>1 DEF TypeOK
<1>9. TypeOK'
  <2>. HIDE DEF Queues
  <2>1. tasks' \in [Workers \cup {Base} -> Seq(Task)]
    BY <1>3 DEF Queues, Loops
  <2>. QED
    BY <1>0, <1>1, <1>2, <1>8, <2>1 DEF TypeOK, clientVars, acceptVars, dealVars
<1>. QED  BY <1>4, <1>5, <1>6, <1>7, <1>9 DEF IInv, ServerInv

\* asyncAccept leaves a request, or none and a starved server.
LEMMA AsyncAcceptFacts ==
    ASSUME TypeOK, NEW n \in 0 .. MaxErrors, AsyncAccept(n)
    PROVE  accept' \in {"prepared", "none"} /\ errors' \in 0 .. MaxErrors /\ starved' \in BOOLEAN
<1>1. n \in 0 .. MaxErrors /\ (n < MaxErrors => n + 1 \in 0 .. MaxErrors)
  BY ErrorsAssumption
<1>. QED  BY <1>1 DEF AsyncAccept, TypeOK

\* The accept request of the main loop is prepared, submitted or fails; start()
\* reaches the main loop.
LEMMA RequestStep ==
    ASSUME IInv, StartListening \/ Submit \/ AcceptFails \/ EndDrain \/ HandleFailed
    PROVE  IInv'
<1>0. TypeOK /\ errors \in 0 .. MaxErrors /\ MaxErrors \in Nat
  BY ErrorsAssumption DEF IInv, ServerInv, TypeOK
<1>1. /\ UNCHANGED <<threadVars, tasks, clientVars, accepted, address, dealVars>>
      /\ UNCHANGED <<connections, conn>>
      /\ accept # "done" /\ main' \notin {"starting", "gone"}
      /\ main' = main \/ (main = "starting" /\ main' = "looping" /\ Len(loops) = numThreads)
      /\ listening' \in BOOLEAN
  <2>1. CASE StartListening
    <3>1. main = "starting" /\ accept = "none"
      BY <2>1 DEF StartListening, IInv, ArrivalInv
    <3>. QED  BY <2>1, <3>1 DEF StartListening
  <2>2. CASE Submit
    BY <1>0, <2>2 DEF Submit, TypeOK
  <2>3. CASE AcceptFails
    BY <1>0, <2>3 DEF AcceptFails, TypeOK, IInv, ArrivalInv
  <2>4. CASE EndDrain
    BY <1>0, <2>4 DEF EndDrain, TypeOK
  <2>5. CASE HandleFailed
    BY <1>0, <2>5 DEF HandleFailed, TypeOK
  <2>. QED  BY <2>1, <2>2, <2>3, <2>4, <2>5
<1>2. /\ accept' \in {"none", "prepared", "submitted", "failed", "canceled"}
      /\ errors' \in 0 .. MaxErrors /\ starved' \in BOOLEAN
  <2>1. errors < MaxErrors => errors + 1 \in 0 .. MaxErrors
    BY <1>0
  <2>2. CASE StartListening \/ HandleFailed
    BY <1>0, <2>2, AsyncAcceptFacts DEF StartListening, HandleFailed, TypeOK
  <2>3. CASE EndDrain
    BY <1>0, <2>1, <2>3, AsyncAcceptFacts DEF EndDrain
  <2>4. CASE Submit
    BY <1>0, <2>4 DEF Submit, faultVars, TypeOK
  <2>5. CASE AcceptFails
    BY <1>0, <2>1, <2>5 DEF AcceptFails, TypeOK
  <2>. QED  BY <2>2, <2>3, <2>4, <2>5
<1>3. UNCHANGED <<numThreads, thread, loops, ready, quit, told, died, dealt, next, arrived, backlog>>
  BY <1>1 DEF threadVars, dealVars, clientVars
<1>4. ConnectionsAreDealt' /\ TurnInv' /\ DealtInv' /\ TaskInv'
  BY <1>1, <1>3, ConnectionsSame
<1>5. ArrivalInv'
  BY <1>1, <1>2, <1>3, ArrivalSame
<1>6. PoolInv'
  BY <1>1, <1>3 DEF IInv, PoolInv
<1>7. LifetimesAreNested'
  <2>1. CASE main' = main
    BY <1>1, <1>3, <2>1 DEF IInv, LifetimesAreNested
  <2>2. CASE main = "starting" /\ main' = "looping"
    <3>1. Len(dealt) = 0
      BY <2>2 DEF IInv, TurnInv
    <3>2. \A c \in Clients : ~(c <= Len(dealt))
      BY <3>1 DEF Clients
    <3>. QED  BY <1>1, <2>2, <3>2 DEF IInv, DealtInv, LifetimesAreNested
  <2>. QED  BY <1>1, <2>1, <2>2
<1>8. TypeOK'
  BY <1>0, <1>1, <1>2, <1>3 DEF TypeOK
<1>. QED  BY <1>4, <1>5, <1>6, <1>7, <1>8 DEF IInv, ServerInv

\* A client arrives and waits in the backlog.
LEMMA ArriveStep == IInv /\ Arrive => IInv'
<1>. SUFFICES ASSUME IInv, Arrive PROVE IInv'
  OBVIOUS
<1>0. /\ TypeOK /\ backlog \in Seq(Clients) /\ Len(backlog) \in Nat /\ Len(dealt) \in Nat
      /\ arrived \in 0 .. MaxClients /\ MaxClients \in Nat
  BY LenProperties, ThreadsAssumption DEF IInv, ServerInv, TypeOK
<1>1. /\ UNCHANGED <<main, threadVars, tasks, acceptVars, dealVars, connections, conn, faultVars>>
      /\ arrived < MaxClients /\ arrived' = arrived + 1
      /\ backlog' = Append(backlog, arrived')
  BY DEF Arrive
<1>2. arrived' \in Clients /\ arrived' \in 0 .. MaxClients
  BY <1>0, <1>1 DEF Clients
<1>3. /\ backlog' \in Seq(Clients) /\ Len(backlog') = Len(backlog) + 1
      /\ \A i \in 1 .. Len(backlog) : backlog'[i] = backlog[i]
      /\ backlog'[Len(backlog) + 1] = arrived'
  BY <1>0, <1>1, <1>2, AppendProperties
<1>4. ConnectionsAreDealt' /\ TurnInv' /\ DealtInv' /\ TaskInv'
  BY <1>1, ConnectionsSame DEF threadVars, dealVars
<1>5. ArrivalInv'
  <2>1. UNCHANGED <<main, accept, accepted, address, dealt>> /\ Pending' = Pending
    BY <1>1 DEF acceptVars, dealVars, Pending
  <2>2. Pending \in Nat
    BY DEF Pending
  <2>3. ASSUME main # "gone"
        PROVE  /\ arrived' = Len(dealt) + Pending + Len(backlog')
               /\ \A i \in 1 .. Len(backlog') : backlog'[i] = Len(dealt) + Pending + i
    <3>1. arrived = Len(dealt) + Pending + Len(backlog)
      BY <2>3 DEF IInv, ArrivalInv
    <3>2. \A i \in 1 .. Len(backlog') : i \in 1 .. Len(backlog) \/ i = Len(backlog) + 1
      BY <1>0, <1>3
    <3>3. arrived' = Len(dealt) + Pending + (Len(backlog) + 1)
      BY <1>0, <1>1, <2>2, <3>1
    <3>. QED  BY <1>3, <2>3, <3>2, <3>3 DEF IInv, ArrivalInv
  <2>. QED  BY <2>1, <2>3 DEF IInv, ArrivalInv
<1>6. PoolInv' /\ LifetimesAreNested'
  BY <1>1 DEF IInv, PoolInv, LifetimesAreNested, threadVars
<1>7. TypeOK'
  BY SMTT(60), <1>0, <1>1, <1>2, <1>3 DEF TypeOK, threadVars, acceptVars, dealVars, faultVars
<1>. QED  BY <1>4, <1>5, <1>6, <1>7 DEF IInv, ServerInv

\* The oldest of the backlog, and what is left.
LEMMA BacklogFacts ==
    ASSUME IInv, backlog # <<>>, main # "gone"
    PROVE  /\ Head(backlog) \in Clients /\ Head(backlog) = Len(dealt) + Pending + 1
           /\ Tail(backlog) \in Seq(Clients) /\ Len(Tail(backlog)) = Len(backlog) - 1
           /\ Len(backlog) \in Nat \ {0}
           /\ \A i \in 1 .. Len(Tail(backlog)) :
                 Tail(backlog)[i] = Len(dealt) + Pending + (i + 1)
<1>0. backlog \in Seq(Clients)
  BY DEF IInv, ServerInv, TypeOK
<1>1. /\ Head(backlog) \in Clients /\ Head(backlog) = backlog[1]
      /\ Tail(backlog) \in Seq(Clients) /\ Len(Tail(backlog)) = Len(backlog) - 1
      /\ Len(backlog) \in Nat \ {0}
      /\ \A i \in 1 .. Len(Tail(backlog)) : Tail(backlog)[i] = backlog[i + 1]
  BY <1>0, HeadTailProperties, EmptySeq
<1>2. 1 \in 1 .. Len(backlog) /\ \A i \in 1 .. Len(Tail(backlog)) : i + 1 \in 1 .. Len(backlog)
  BY <1>1
<1>3. \A i \in 1 .. Len(backlog) : backlog[i] = Len(dealt) + Pending + i
  BY DEF IInv, ArrivalInv
<1>. QED  BY <1>1, <1>2, <1>3

\* The accept request takes the oldest client.
LEMMA AcceptCompletesStep == IInv /\ AcceptCompletes => IInv'
<1>. SUFFICES ASSUME IInv, AcceptCompletes PROVE IInv'
  OBVIOUS
<1>0. /\ TypeOK /\ Len(dealt) \in Nat
  BY LenProperties DEF IInv, ServerInv, TypeOK
<1>1. /\ UNCHANGED <<main, threadVars, tasks, arrived, listening, dealVars, connections, conn>>
      /\ UNCHANGED faultVars
      /\ accept = "submitted" /\ accept' = "done" /\ backlog # <<>>
      /\ accepted' = Head(backlog) /\ address' = Head(backlog) /\ backlog' = Tail(backlog)
  BY DEF AcceptCompletes
<1>2. /\ Head(backlog) \in Clients /\ backlog' \in Seq(Clients)
  BY <1>0, <1>1, HeadTailProperties DEF TypeOK
<1>3. ConnectionsAreDealt' /\ TurnInv' /\ DealtInv' /\ TaskInv'
  BY <1>1, ConnectionsSame DEF threadVars, dealVars
<1>4. PoolInv' /\ LifetimesAreNested'
  BY <1>1 DEF IInv, PoolInv, LifetimesAreNested, threadVars
<1>5. TypeOK'
  BY <1>0, <1>1, <1>2 DEF TypeOK, threadVars, dealVars, faultVars
<1>6. main \notin {"starting", "gone"}
  BY <1>1 DEF IInv, ArrivalInv
<1>7. ArrivalInv'
  <2>1. UNCHANGED <<main, dealt, arrived>>
    BY <1>1 DEF dealVars
  <2>2. Pending = 0 /\ Pending' = 1
    BY <1>1 DEF Pending
  <2>3. /\ accepted' = Len(dealt) + 1 /\ address' = Len(dealt) + 1
        /\ \A i \in 1 .. Len(backlog') : backlog'[i] = Len(dealt) + 1 + i
        /\ Len(backlog') = Len(backlog) - 1 /\ Len(backlog) \in Nat
    BY <1>0, <1>1, <1>6, <2>2, BacklogFacts
  <2>4. arrived = Len(dealt) + Len(backlog)
    BY <1>0, <1>6, <2>2, <2>3 DEF IInv, ArrivalInv
  <2>5. arrived = Len(dealt) + 1 + Len(backlog')
    BY <1>0, <2>3, <2>4
  <2>. QED  BY <1>6, <2>1, <2>2, <2>3, <2>5 DEF ArrivalInv
<1>. QED  BY <1>3, <1>4, <1>5, <1>7 DEF IInv, ServerInv

\* handleRead hands the accepted client over and begins to drain the backlog.
LEMMA HandleAcceptedStep == IInv /\ HandleAccepted => IInv'
<1>. SUFFICES ASSUME IInv, HandleAccepted PROVE IInv'
  OBVIOUS
<1>0. TypeOK /\ dealt \in Seq(Dealing) /\ Len(dealt) \in Nat
  BY LenProperties DEF IInv, ServerInv, TypeOK, Dealing, Loops
<1>1. /\ UNCHANGED <<main, threadVars, clientVars, listening, address, faultVars>>
      /\ main = "looping" /\ accept = "done" /\ accept' = "draining" /\ accepted' = None
      /\ NewConnection(accepted, address)
  BY DEF HandleAccepted
<1>2. accepted = Len(dealt) + 1 /\ address = accepted /\ accepted \in Clients
  BY <1>0, <1>1 DEF IInv, ArrivalInv, TypeOK, Clients, None
<1>3. NewConnection(accepted, accepted)
  BY <1>1, <1>2
<1>4. /\ Len(dealt') = Len(dealt) + 1 /\ dealt' \in Seq(Dealing)
      /\ next' = 0 \/ next' \in 1 .. Len(loops') - 1
      /\ connections' \subseteq Clients /\ conn' \in [Clients -> States] /\ tasks' \in Queues
      /\ ConnectionsAreDealt' /\ LifetimesAreNested' /\ PoolInv' /\ TurnInv'
      /\ DealtInv' /\ TaskInv'
  BY <1>1, <1>2, <1>3, NewConnectionStep
<1>5. ArrivalInv'
  <2>1. UNCHANGED <<main, arrived, backlog>> /\ Pending = 1 /\ Pending' = 0
    BY <1>1 DEF clientVars, Pending
  <2>2. Len(dealt') + Pending' = Len(dealt) + Pending
    BY <1>0, <1>4, <2>1
  <2>. QED  BY <1>1, <2>1, <2>2 DEF IInv, ArrivalInv
<1>6. TypeOK'
  BY <1>0, <1>1, <1>4
     DEF TypeOK, threadVars, clientVars, faultVars, Dealing, Loops, States, Queues, None
<1>. QED  BY <1>4, <1>5, <1>6 DEF IInv, ServerInv

\* The drain hands the next client of the backlog over.
LEMMA DrainOneStep == IInv /\ DrainOne => IInv'
<1>. SUFFICES ASSUME IInv, DrainOne PROVE IInv'
  OBVIOUS
<1>0. TypeOK /\ dealt \in Seq(Dealing) /\ Len(dealt) \in Nat
  BY LenProperties DEF IInv, ServerInv, TypeOK, Dealing, Loops
<1>1. /\ UNCHANGED <<main, threadVars, arrived, listening, accept, accepted, faultVars>>
      /\ main = "looping" /\ accept = "draining" /\ backlog # <<>>
      /\ NewConnection(Head(backlog), Head(backlog)) /\ backlog' = Tail(backlog)
      /\ address' = Head(backlog)
  BY DEF DrainOne
<1>2. Pending = 0 /\ Pending' = 0
  BY <1>1 DEF Pending
<1>3. /\ Head(backlog) \in Clients /\ Head(backlog) = Len(dealt) + 1
      /\ backlog' \in Seq(Clients) /\ Len(backlog') = Len(backlog) - 1 /\ Len(backlog) \in Nat
      /\ \A i \in 1 .. Len(backlog') : backlog'[i] = Len(dealt) + (i + 1)
  BY <1>0, <1>1, <1>2, BacklogFacts
<1>4. /\ Len(dealt') = Len(dealt) + 1 /\ dealt' \in Seq(Dealing)
      /\ next' = 0 \/ next' \in 1 .. Len(loops') - 1
      /\ connections' \subseteq Clients /\ conn' \in [Clients -> States] /\ tasks' \in Queues
      /\ ConnectionsAreDealt' /\ LifetimesAreNested' /\ PoolInv' /\ TurnInv'
      /\ DealtInv' /\ TaskInv'
  BY <1>1, <1>3, NewConnectionStep
<1>5. ArrivalInv'
  <2>1. arrived = Len(dealt) + Len(backlog)
    BY <1>0, <1>1, <1>2, <1>3 DEF IInv, ArrivalInv
  <2>2. arrived = Len(dealt') + Len(backlog')
    BY <1>0, <1>3, <1>4, <2>1
  <2>3. \A i \in 1 .. Len(backlog') : backlog'[i] = Len(dealt') + i
    BY <1>0, <1>3, <1>4
  <2>4. Len(dealt') \in Nat
    BY <1>0, <1>4
  <2>. QED  BY <1>1, <1>2, <2>2, <2>3, <2>4 DEF ArrivalInv
<1>6. TypeOK'
  BY <1>0, <1>1, <1>3, <1>4
     DEF TypeOK, threadVars, faultVars, Dealing, Loops, States, Queues, None
<1>. QED  BY <1>4, <1>5, <1>6 DEF IInv, ServerInv

-----------------------------------------------------------------------------
(* Closing connections                                                      *)

\* forceClose of a connected connection; it stays in the registry unless the
\* server is being destroyed.
LEMMA RequestCloseFacts ==
    ASSUME IInv, NEW c \in Clients, conn[c] = "connected", RequestClose(c)
    PROVE  /\ conn' = [conn EXCEPT ![c] = "closing"] /\ conn' \in [Clients -> States]
           /\ tasks' \in Queues /\ TaskInv'
<1>0. conn \in [Clients -> States] /\ tasks \in Queues /\ Matches(tasks, conn) /\ Unique(tasks)
  BY DEF IInv, ServerInv, TypeOK, TaskInv, States, Queues, Loops
<1>1. /\ conn' = [conn EXCEPT ![c] = "closing"]
      /\ tasks' = Posted(tasks, LoopOf(c), <<"close", c>>)
  BY DEF RequestClose, Post
<1>2. NoTask(tasks, c) /\ "close" \in Kinds /\ Awaiting("close") = "closing"
  BY <1>0, IdleHasNoTask DEF Kinds, Awaiting
<1>3. tasks' \in Queues /\ Matches(tasks', conn') /\ Unique(tasks')
  BY <1>0, <1>1, <1>2, PostKeeps
<1>. QED  BY <1>0, <1>1, <1>3 DEF TaskInv, States

\* A step that changes only connections, their tasks and the registry.
LEMMA ConnectionStep ==
    ASSUME IInv, UNCHANGED <<main, threadVars, clientVars, acceptVars, dealVars, faultVars>>,
           connections' \subseteq Clients, conn' \in [Clients -> States], tasks' \in Queues,
           \A c \in Clients : conn[c] = "none" => conn'[c] = "none",
           main = "looping" => \A c \in Clients :
               conn'[c] \in {"connecting", "connected", "closing"} => c \in connections',
           TaskInv'
    PROVE  IInv'
<1>0. TypeOK
  BY DEF IInv, ServerInv
<1>1. UNCHANGED <<numThreads, thread, loops, ready, quit, told, died, dealt, next>>
  BY DEF threadVars, dealVars
<1>2. ArrivalInv'
  BY ArrivalSame DEF clientVars, acceptVars, dealVars
<1>3. ConnectionsAreDealt' /\ PoolInv' /\ TurnInv'
  BY <1>1 DEF IInv, ServerInv, ConnectionsAreDealt, PoolInv, TurnInv
<1>4. DealtInv'
  BY <1>1 DEF IInv, DealtInv
<1>5. LifetimesAreNested'
  BY <1>1 DEF IInv, LifetimesAreNested
<1>6. TypeOK'
  BY <1>0, <1>1 DEF TypeOK, clientVars, acceptVars, dealVars, faultVars, States, Queues, Loops
<1>. QED  BY <1>2, <1>3, <1>4, <1>5, <1>6 DEF IInv, ServerInv

LEMMA CloseStep ==
    ASSUME IInv, NEW c \in Clients, PeerLeaves(c) \/ ForceClose(c)
    PROVE  IInv'
<1>0. /\ conn \in [Clients -> States] /\ tasks \in Queues /\ TaskInv
      /\ connections \subseteq Clients
  BY DEF IInv, ServerInv, TypeOK, States, Queues, Loops
<1>1. CASE PeerLeaves(c)
  <2>1. /\ conn[c] = "connected" /\ RequestClose(c) /\ connections' = connections
        /\ UNCHANGED <<main, threadVars, clientVars, acceptVars, dealVars, faultVars>>
    BY <1>1 DEF PeerLeaves
  <2>2. /\ conn' = [conn EXCEPT ![c] = "closing"] /\ conn' \in [Clients -> States]
        /\ tasks' \in Queues /\ TaskInv'
    BY <2>1, RequestCloseFacts
  <2>3. \A d \in Clients : conn'[d] = IF d = c THEN "closing" ELSE conn[d]
    BY <1>0, <2>2
  <2>. QED
    BY <1>0, <2>1, <2>2, <2>3, ConnectionStep DEF IInv, LifetimesAreNested
<1>2. CASE ForceClose(c)
  <2>1. /\ main = "closing" /\ connections' = connections \ {c}
        /\ UNCHANGED <<main, threadVars, clientVars, acceptVars, dealVars, faultVars>>
        /\ IF conn[c] = "connected" THEN RequestClose(c) ELSE UNCHANGED <<conn, tasks>>
    BY <1>2 DEF ForceClose
  <2>2. /\ conn' \in [Clients -> States] /\ tasks' \in Queues /\ TaskInv'
        /\ \A d \in Clients : conn[d] = "none" => conn'[d] = "none"
    <3>1. CASE conn[c] = "connected"
      <4>1. /\ conn' = [conn EXCEPT ![c] = "closing"] /\ conn' \in [Clients -> States]
            /\ tasks' \in Queues /\ TaskInv'
        BY <2>1, <3>1, RequestCloseFacts
      <4>. QED  BY <1>0, <3>1, <4>1
    <3>2. CASE conn[c] # "connected"
      BY <1>0, <2>1, <3>2 DEF TaskInv, Matches, Unique
    <3>. QED  BY <3>1, <3>2
  <2>. QED  BY <1>0, <2>1, <2>2, ConnectionStep
<1>. QED  BY <1>1, <1>2

\* A loop runs its first task.
LEMMA RunTaskStep == ASSUME IInv, NEW l \in Loops, RunTask(l) PROVE IInv'
<1>. DEFINE t == Head(tasks[l])
            c == t[2]
            rest == [tasks EXCEPT ![l] = Tail(@)]
<1>0. /\ conn \in [Clients -> States] /\ tasks \in Queues /\ Matches(tasks, conn)
      /\ Unique(tasks) /\ connections \subseteq Clients /\ tasks[l] # <<>>
      /\ UNCHANGED <<main, threadVars, clientVars, acceptVars, dealVars, faultVars>>
  BY DEF IInv, ServerInv, TypeOK, TaskInv, States, Queues, Loops, RunTask
<1>1. /\ rest \in Queues /\ Matches(rest, conn) /\ Unique(rest) /\ NoTask(rest, c)
      /\ t[1] \in Kinds /\ c \in Clients /\ conn[c] = Awaiting(t[1])
  BY <1>0, PopKeeps
<1>2. \/ /\ t[1] = "establish" /\ conn' = [conn EXCEPT ![c] = "connected"]
         /\ tasks' = rest /\ UNCHANGED connections
      \/ /\ t[1] = "close" /\ conn' = [conn EXCEPT ![c] = "closed"]
         /\ IF l = Base THEN Remove(c, rest)
            ELSE /\ tasks' = Posted(rest, Base, <<"remove", c>>)
                 /\ UNCHANGED connections
      \/ /\ t[1] = "remove" /\ Remove(c, rest) /\ UNCHANGED conn
      \/ /\ t[1] = "destroy" /\ conn' = [conn EXCEPT ![c] = "destroyed"]
         /\ tasks' = rest /\ UNCHANGED connections
  BY DEF RunTask
<1>. HIDE DEF t, c, rest
<1>3. /\ Awaiting("establish") = "connecting" /\ Awaiting("close") = "closing"
      /\ Awaiting("remove") = "closed" /\ Awaiting("destroy") = "closed"
      /\ {"establish", "close", "remove", "destroy"} \subseteq Kinds
  BY DEF Awaiting, Kinds
<1>4. main = "looping" => \A d \in Clients :
          conn[d] \in {"connecting", "connected", "closing"} => d \in connections
  BY DEF IInv, LifetimesAreNested
<1>5. ASSUME NEW x \in {"connected", "destroyed"}, conn' = [conn EXCEPT ![c] = x],
             tasks' = rest, connections' = connections,
             x = "connected" => conn[c] = "connecting",
             conn[c] # "none"
      PROVE  IInv'
  <2>1. /\ conn' \in [Clients -> States]
        /\ \A d \in Clients : conn'[d] = IF d = c THEN x ELSE conn[d]
    BY <1>0, <1>5 DEF States
  <2>2. TaskInv'
    BY <1>0, <1>1, <1>5, ChangeKeeps DEF TaskInv
  <2>3. main = "looping" => \A d \in Clients :
            conn'[d] \in {"connecting", "connected", "closing"} => d \in connections'
    BY <1>1, <1>4, <1>5, <2>1
  <2>. QED  BY <1>0, <1>1, <1>5, <2>1, <2>2, <2>3, ConnectionStep
<1>6. ASSUME NEW kind \in {"remove", "destroy"}, NEW k,
             conn' = [conn EXCEPT ![c] = "closed"],
             tasks' = Posted(rest, k, <<kind, c>>),
             connections' \in {connections, connections \ {c}},
             conn[c] # "none"
      PROVE  IInv'
  <2>1. /\ conn' \in [Clients -> States]
        /\ \A d \in Clients : conn'[d] = IF d = c THEN "closed" ELSE conn[d]
    BY <1>0, <1>6 DEF States
  <2>2. kind \in Kinds /\ Awaiting(kind) = "closed"
    BY <1>3
  <2>3. tasks' \in Queues /\ Matches(tasks', conn') /\ Unique(tasks')
    BY <1>0, <1>1, <1>6, <2>2, PostKeeps
  <2>4. main = "looping" => \A d \in Clients :
            conn'[d] \in {"connecting", "connected", "closing"} => d \in connections'
    BY <1>1, <1>4, <1>6, <2>1
  <2>5. connections' \subseteq Clients
    BY <1>0, <1>6
  <2>. QED  BY <1>0, <1>1, <1>6, <2>1, <2>3, <2>4, <2>5, ConnectionStep DEF TaskInv
<1>7. CASE t[1] = "establish" /\ conn' = [conn EXCEPT ![c] = "connected"]
           /\ tasks' = rest /\ connections' = connections
  BY <1>1, <1>3, <1>5, <1>7
<1>8. CASE /\ t[1] = "close" /\ conn' = [conn EXCEPT ![c] = "closed"]
           /\ IF l = Base THEN Remove(c, rest)
              ELSE /\ tasks' = Posted(rest, Base, <<"remove", c>>)
                   /\ UNCHANGED connections
  BY <1>1, <1>3, <1>6, <1>8 DEF Remove
<1>9. CASE t[1] = "remove" /\ Remove(c, rest) /\ conn' = conn
  <2>1. conn[c] = "closed"
    BY <1>1, <1>3, <1>9
  <2>2. conn' = [conn EXCEPT ![c] = "closed"]
    BY <1>0, <1>9, <2>1
  <2>. QED  BY <1>6, <1>9, <2>1, <2>2 DEF Remove
<1>10. CASE t[1] = "destroy" /\ conn' = [conn EXCEPT ![c] = "destroyed"]
            /\ tasks' = rest /\ connections' = connections
  BY <1>1, <1>3, <1>5, <1>10
<1>. QED  BY <1>2, <1>7, <1>8, <1>9, <1>10

-----------------------------------------------------------------------------
(* The end of the server                                                    *)

LEMMA StopStep ==
    ASSUME IInv, ReturnFromLoop \/ DestroyPool \/ FindLoop \/ QuitThread \/ DestroyServer
    PROVE  IInv'
<1>0. /\ TypeOK /\ told \in Nat /\ numThreads \in Nat /\ numThreads <= MaxThreads
      /\ MaxThreads \in Nat
  BY ThreadsAssumption DEF IInv, ServerInv, TypeOK
<1>1. /\ UNCHANGED <<numThreads, thread, loops, ready, died, tasks, dealVars, arrived>>
      /\ UNCHANGED <<accepted, address, connections, conn, faultVars>>
      /\ main' \notin {"starting", "looping"}
  BY DEF ReturnFromLoop, DestroyPool, FindLoop, QuitThread, DestroyServer, threadVars,
         clientVars, acceptVars
<1>2. main \in {"looping", "closing", "joining", "quitting"}
  BY DEF ReturnFromLoop, DestroyPool, FindLoop, QuitThread, DestroyServer
<1>3. ConnectionsAreDealt' /\ TurnInv' /\ DealtInv' /\ TaskInv'
  BY <1>1, <1>2, ConnectionsSame DEF dealVars
<1>4. PoolInv'
  <2>1. main' = "quitting" => told' < numThreads
    BY <1>1, <1>2 DEF ReturnFromLoop, DestroyPool, FindLoop, QuitThread, DestroyServer,
                      threadVars
  <2>. QED  BY <1>1, <1>2, <2>1 DEF IInv, PoolInv
<1>5. CASE ReturnFromLoop \/ DestroyPool \/ FindLoop \/ QuitThread
  <2>1. /\ UNCHANGED <<clientVars, acceptVars>>
        /\ main' \in {"closing", "joining", "quitting", "terminated"}
        /\ quit' \subseteq Workers /\ told' \in 0 .. MaxThreads
    <3>1. CASE ReturnFromLoop \/ DestroyPool \/ FindLoop
      BY <1>0, <3>1 DEF ReturnFromLoop, DestroyPool, FindLoop, threadVars, TypeOK
    <3>2. CASE QuitThread
      <4>1. told < numThreads
        BY <3>2 DEF QuitThread, IInv, PoolInv
      <4>2. told + 1 \in Workers /\ told + 1 \in 0 .. MaxThreads
        BY <1>0, <4>1 DEF Workers
      <4>. QED  BY <1>0, <3>2, <4>2 DEF QuitThread, TypeOK
    <3>. QED  BY <1>5, <3>1, <3>2
  <2>2. ArrivalInv'
    BY <1>1, <1>2, <2>1, ArrivalSame DEF clientVars, acceptVars, dealVars
  <2>3. LifetimesAreNested'
    BY <2>1 DEF LifetimesAreNested
  <2>4. TypeOK'
    BY <1>0, <1>1, <2>1 DEF TypeOK, clientVars, acceptVars, dealVars, faultVars
  <2>. QED  BY <1>3, <1>4, <2>2, <2>3, <2>4 DEF IInv, ServerInv
<1>6. CASE DestroyServer
  <2>1. /\ main' = "gone" /\ told = numThreads /\ Joined /\ UNCHANGED threadVars
        /\ listening' = FALSE /\ accept' = "none" /\ backlog' = <<>>
    BY <1>6 DEF DestroyServer
  <2>2. ArrivalInv'
    BY <2>1 DEF ArrivalInv
  <2>3. LifetimesAreNested'
    <3>1. ASSUME NEW w \in Workers, thread[w] # "none" PROVE thread[w] = "exited"
      <4>1. w \in 1 .. told
        BY <1>0, <2>1, <3>1 DEF IInv, PoolInv, Workers
      <4>. QED  BY <2>1, <4>1 DEF Joined
    <3>. QED  BY <1>1, <2>1, <3>1 DEF LifetimesAreNested
  <2>4. TypeOK'
    <3>1. backlog' \in Seq(Clients) /\ UNCHANGED <<quit, told, next, dealt, errors, starved>>
      BY <1>1, <2>1, EmptySeq DEF threadVars, dealVars, faultVars
    <3>. QED  BY <1>0, <1>1, <2>1, <3>1 DEF TypeOK
  <2>. QED  BY <1>3, <1>4, <2>2, <2>3, <2>4 DEF IInv, ServerInv
<1>. QED  BY <1>5, <1>6

-----------------------------------------------------------------------------
(* The theorems                                                             *)

LEMMA InvStep == IInv /\ [Next]_vars => IInv'
<1>. SUFFICES ASSUME IInv, [Next]_vars PROVE IInv'
  OBVIOUS
<1>1. ASSUME NEW w \in Workers, StartPool(w) \/ ThreadFunc(w) PROVE IInv'
  <2>1. w \in Loops
    BY DEF Loops
  <2>. QED
    BY <1>1, <2>1, ThreadStep, RunTaskStep, ExitLoopStep DEF StartPool, ThreadFunc
<1>2. CASE StartListening \/ AcceptFails
  BY <1>2, RequestStep
<1>3. CASE MainLoop
  <2>1. Base \in Loops
    BY DEF Loops
  <2>. QED
    BY <1>3, <2>1, RequestStep, HandleAcceptedStep, DrainOneStep, RunTaskStep DEF MainLoop
<1>4. CASE ReturnFromLoop
  BY <1>4, StopStep
<1>5. CASE Stop
  BY <1>5, StopStep, CloseStep DEF Stop
<1>6. CASE AcceptCompletes
  BY <1>6, AcceptCompletesStep
<1>7. CASE Arrive
  BY <1>7, ArriveStep
<1>8. ASSUME NEW c \in Clients, PeerLeaves(c) PROVE IInv'
  BY <1>8, CloseStep
<1>9. CASE UNCHANGED vars
  <2>1. /\ UNCHANGED <<main, threadVars, clientVars, acceptVars, dealVars, faultVars>>
        /\ connections' = connections /\ conn' = conn /\ tasks' = tasks
    BY <1>9 DEF vars
  <2>2. /\ conn \in [Clients -> States] /\ tasks \in Queues /\ connections \subseteq Clients
        /\ TaskInv
    BY DEF IInv, ServerInv, TypeOK, States, Queues, Loops
  <2>3. TaskInv'
    BY <2>1, <2>2 DEF TaskInv, Matches, Unique
  <2>. QED  BY <2>1, <2>2, <2>3, ConnectionStep DEF IInv, LifetimesAreNested
<1>. QED
  BY <1>1, <1>2, <1>3, <1>4, <1>5, <1>6, <1>7, <1>8, <1>9 DEF Next

LEMMA InvInit == Init => IInv
<1>. SUFFICES ASSUME Init PROVE IInv
  OBVIOUS
<1>0. MaxThreads \in Nat /\ MaxClients \in Nat /\ MaxErrors \in Nat
  BY ThreadsAssumption, ErrorsAssumption
<1>1. /\ loops = <<>> /\ dealt = <<>> /\ backlog = <<>> /\ next = 0 /\ main = "starting"
      /\ accept = "none" /\ arrived = 0 /\ numThreads \in 0 .. MaxThreads
      /\ \A l \in Loops : tasks[l] = <<>>
      /\ \A c \in Clients : conn[c] = "none"
      /\ \A w \in Workers : thread[w] = "none"
  BY DEF Init, Loops
<1>2. Len(<<>>) = 0 /\ \A i \in 1 .. 0 : FALSE
  OBVIOUS
<1>3. TypeOK
  <2>1. /\ told \in 0 .. MaxThreads /\ arrived \in 0 .. MaxClients /\ errors \in 0 .. MaxErrors
    BY <1>0 DEF Init
  <2>2. /\ loops \in Seq(Workers) /\ backlog \in Seq(Clients)
        /\ dealt \in Seq([client : Clients, peer : Clients, loop : Workers \cup {Base}])
        /\ tasks \in [Workers \cup {Base} -> Seq(Task)]
    BY EmptySeq DEF Init
  <2>. QED  BY <2>1, <2>2 DEF Init, TypeOK
<1>4. ConnectionsAreDealt /\ LifetimesAreNested
  BY <1>1, <1>2 DEF ConnectionsAreDealt, LifetimesAreNested
<1>5. PoolInv /\ DealtInv /\ TaskInv
  BY <1>1, <1>2 DEF PoolInv, DealtInv, TaskInv, Matches, Unique
<1>6. TurnInv /\ ArrivalInv
  <2>1. numThreads # 0 => 0 % numThreads = 0
    BY <1>0, <1>1
  <2>2. Pending = 0
    BY <1>1 DEF Pending
  <2>. QED  BY <1>1, <1>2, <2>1, <2>2 DEF TurnInv, ArrivalInv
<1>. QED  BY <1>3, <1>4, <1>5, <1>6 DEF IInv, ServerInv

LEMMA InvariantHolds == Spec => []IInv
BY InvInit, InvStep, PTL DEF Spec

\* With any number of threads and clients, and whatever fails: the clients are
\* served in the order of arrival, each once and under its own address, and the
\* loops take turns with their buffers initialised (handleRead, newConnection,
\* getNextLoop, startLoop).
THEOREM ClientsAreDealt == Spec => []ServerInv
<1>1. IInv => ServerInv
  BY DEF IInv
<1>. QED  BY <1>1, InvariantHolds, PTL

\* The registry holds a connection until it is closed, as long as the main loop
\* runs, and when the server is gone no loop thread is left (removeConnection,
\* ~TcpServer, ~EventLoopThread).
THEOREM LifetimesNest == Spec => []LifetimesAreNested
<1>1. IInv => LifetimesAreNested
  BY DEF IInv
<1>. QED  BY <1>1, InvariantHolds, PTL
=============================================================================

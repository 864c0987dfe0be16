-------------------------- MODULE RecommendService --------------------------
(***************************************************************************)
(* The recommendation service and its clients: recommendationServiceTask of *)
(* src/recommend/recommend_server.cpp, a coroutine per connection, the store *)
(* and the handler they share, and the threads of recommend_client.cpp next  *)
(* to a pipelining client of another make. httpPingPongTask of src/test.cpp  *)
(* is the same coroutine without the routes.                                 *)
(*                                                                          *)
(* All connections are on one loop: between two co_awaits a coroutine runs   *)
(* alone. With more loops the caches are shared without a lock, which the    *)
(* code leaves undefined and this module leaves out. What lies below an      *)
(* asyncRead or asyncSend is in TcpConnection.tla and SendPath.tla: here a   *)
(* read returns a piece of what has arrived, 0 at its end, an error when the *)
(* kernel has canceled it after the read timeout, and a write is complete or *)
(* fails.                                                                    *)
(***************************************************************************)
EXTENDS Recommendation, HttpRequest

CONSTANTS
    Threads,       \* of recommend_client
    Main,          \* its main thread
    Other,         \* the pipelining client
    None,
    NumRequests,   \* -n
    Requests,      \* what Other may ask
    MaxAsked,      \* bound on what Other asks
    Faults         \* of "timeout", "connect", "write"

ASSUME NumRequestsAssumption == NumRequests \in Nat /\ MaxAsked \in Nat

ASSUME ClientsAssumption ==
    /\ IsFiniteSet(Threads) /\ Main \notin Threads
    /\ Other \notin Threads \union {Main}
    /\ None \notin Threads \union {Main, Other, "eof", "timeout", "asked", "write"}

ASSUME RequestsAssumption ==
    Requests \subseteq [line  : {<<"garbage">>} \union ({"line"} \X STRING \X STRING),
                       body  : Seq({"user", "count"} \X Nat),
                       close : BOOLEAN]

\* A connection for each request of the client threads, the health check and Other.
Conns == 1 .. Cardinality(Threads) * NumRequests + 2
Callers == Threads \union {Main}

VARIABLES
    pc,        \* of each coroutine: "none", "read" (in asyncRead), "canceled" (there, its
               \* read canceled), "parse", "handle", "send" (in asyncSend), "closed",
               \* "left" (returned, not closed)
    buffer,    \* its std::string buffer
    request,   \* what it parsed and answers: consumed, keepAlive, answer
    running,   \* the coroutine the loop is in
    why,       \* what ended it
    wire,      \* tokens sent by the client and not read
    back,      \* pieces of answers sent and not received
    owner,     \* the client of the connection
    gone,      \* connections the client has closed
    asked, answered,
    caller,    \* of each client thread: "connect", "send", "recv", "end", "done"
    using,     \* its connection
    local,     \* its localStats
    total      \* g_stats and the threads that have added to it

coroutineVars == <<pc, buffer, request, running, why>>
netVars    == <<wire, back, owner, gone, asked>>
clientVars == <<caller, using, local, total>>
serviceVars == <<storeVars, job>>
vars == <<coroutineVars, netVars, answered, clientVars, serviceVars>>

NoRequest == [consumed |-> 0, keepAlive |-> TRUE, answer |-> None]
NoStats   == [totalRequests |-> 0, successful |-> 0, failed |-> 0]

Init ==
    /\ pc = [c \in Conns |-> "none"]
    /\ buffer = [c \in Conns |-> <<>>]
    /\ request = [c \in Conns |-> NoRequest]
    /\ running = 0
    /\ why = [c \in Conns |-> None]
    /\ wire = [c \in Conns |-> <<>>]
    /\ back = [c \in Conns |-> <<>>]
    /\ owner = [c \in Conns |-> None]
    /\ gone = {}
    /\ asked = [c \in Conns |-> <<>>]
    /\ answered = [c \in Conns |-> <<>>]
    /\ caller = [t \in Callers |-> IF t = Main THEN "connect" ELSE "none"]
    /\ using = [t \in Callers |-> 0]
    /\ local = [t \in Callers |-> NoStats]
    /\ total = [stats |-> NoStats, merged |-> {}]
    /\ RecommendationInit

-----------------------------------------------------------------------------
(* The coroutine                                                            *)

\* asyncRead has returned a piece: it is appended and the buffer given back.
Read(c) ==
    /\ pc[c] = "read" /\ running = 0
    /\ \E n \in 1 .. Len(wire[c]) :
          /\ buffer' = [buffer EXCEPT ![c] = @ \o SubSeq(wire[c], 1, n)]
          /\ wire' = [wire EXCEPT ![c] = SubSeq(@, n + 1, Len(@))]
    /\ pc' = [pc EXCEPT ![c] = "parse"]
    /\ running' = c
    /\ UNCHANGED <<request, why, back, owner, gone, asked, answered,
                   clientVars, serviceVars>>

\* The kernel: the timeout linked to a read expires while nothing is there to read,
\* and cancels it. What arrives from now on is not read.
ReadTimesOut(c) ==
    /\ "timeout" \in Faults
    /\ pc[c] = "read" /\ running = 0 /\ wire[c] = <<>>
    /\ pc' = [pc EXCEPT ![c] = "canceled"]
    /\ UNCHANGED <<buffer, request, running, why, netVars, answered, clientVars,
                   serviceVars>>

\* asyncRead has returned 0, or the error of the canceled read: forceClose.
ReadEnd(c) ==
    /\ running = 0
    /\ \/ /\ pc[c] = "read" /\ wire[c] = <<>> /\ c \in gone
          /\ why' = [why EXCEPT ![c] = "eof"]
       \/ pc[c] = "canceled" /\ why' = [why EXCEPT ![c] = "timeout"]
    /\ pc' = [pc EXCEPT ![c] = "closed"]
    /\ UNCHANGED <<buffer, request, running, netVars, answered, clientVars, serviceVars>>

\* co_await asyncSend.
Send(c, parsed, answer) ==
    /\ request' = [request EXCEPT ![c] = [consumed  |-> parsed.consumed,
                                          keepAlive |-> parsed.keepAlive,
                                          answer    |-> answer]]
    /\ pc' = [pc EXCEPT ![c] = "send"]
    /\ running' = 0
    /\ UNCHANGED <<buffer, why, netVars, answered, clientVars>>

AnswerAtOnce(c, parsed, kind) ==
    /\ Send(c, parsed, [kind |-> kind, result |-> <<>>])
    /\ UNCHANGED serviceVars

\* By method and path: into the handler, or an answer at once.
Route(c, parsed) ==
    LET recommend == parsed.path = "/recommend" /\ parsed.method = "POST" IN
        \/ /\ recommend
           /\ \E json \in {ParseFromJson(parsed.body)} :
                 \/ ~json.ok /\ AnswerAtOnce(c, parsed, "error")
                 \/ /\ json.ok
                    /\ HandleRecommendation(json.user, json.count)
                    /\ pc' = [pc EXCEPT ![c] = "handle"]
                    /\ UNCHANGED <<buffer, request, running, why, netVars, answered,
                                   clientVars, storeVars>>
        \/ ~recommend /\ parsed.path = "/health" /\ AnswerAtOnce(c, parsed, "status")
        \/ ~recommend /\ parsed.path = "/stats" /\ AnswerAtOnce(c, parsed, "stats")
        \/ /\ ~recommend /\ parsed.path \notin {"/health", "/stats"}
           /\ AnswerAtOnce(c, parsed, "error")

\* A slip: the coroutine reads again before it looks for a second request.
ServeOnePerRead(c) ==
    /\ pc[c] = "parse" /\ running = c
    /\ \E parsed \in {Parse(buffer[c])} :
          \/ /\ parsed.consumed = 0 \/ answered[c] # <<>>
             /\ pc' = [pc EXCEPT ![c] = "read"]
             /\ running' = 0
             /\ UNCHANGED <<buffer, request, why, netVars, answered, clientVars,
                            serviceVars>>
          \/ parsed.consumed > 0 /\ answered[c] = <<>> /\ Route(c, parsed)

\* One turn of the inner loop, up to asyncSend or into the handler.
Serve(c) ==
    /\ pc[c] = "parse" /\ running = c
    /\ \E parsed \in {Parse(buffer[c])} :
          \/ /\ parsed.consumed = 0
             /\ pc' = [pc EXCEPT ![c] = "read"]
             /\ running' = 0
             /\ UNCHANGED <<buffer, request, why, netVars, answered, clientVars,
                            serviceVars>>
          \/ parsed.consumed > 0 /\ Route(c, parsed)

Handle(c) ==
    /\ pc[c] = "handle" /\ running = c
    /\ Recommending
    /\ UNCHANGED <<coroutineVars, netVars, answered, clientVars>>

HandleDone(c) ==
    /\ pc[c] = "handle" /\ running = c /\ job.at = "done"
    /\ \E parsed \in {Parse(buffer[c])} :
          Send(c, parsed, [kind |-> "items", result |-> job.result])
    /\ job' = NoJob
    /\ UNCHANGED storeVars

\* A slip: the request stays in the buffer.
SentKeepsRequest(c) ==
    /\ pc[c] = "send" /\ running = 0
    /\ answered' = [answered EXCEPT ![c] = Append(@, request[c].answer)]
    /\ back' = [back EXCEPT ![c] = IF c \in gone THEN <<>> ELSE
                                   @ \o <<"header", request[c].answer.kind>>]
    /\ request' = [request EXCEPT ![c] = NoRequest]
    /\ pc' = [pc EXCEPT ![c] = IF request[c].keepAlive THEN "parse" ELSE "closed"]
    /\ running' = IF request[c].keepAlive THEN c ELSE 0
    /\ why' = [why EXCEPT ![c] = IF request[c].keepAlive THEN @ ELSE "asked"]
    /\ UNCHANGED <<buffer, wire, owner, gone, asked, clientVars, serviceVars>>

\* asyncSend has returned: the request is erased; forceClose if it asked for it.
Sent(c) ==
    /\ pc[c] = "send" /\ running = 0
    /\ buffer' = [buffer EXCEPT ![c] = SubSeq(@, request[c].consumed + 1, Len(@))]
    /\ answered' = [answered EXCEPT ![c] = Append(@, request[c].answer)]
    /\ back' = [back EXCEPT ![c] = IF c \in gone THEN <<>> ELSE
                                   @ \o <<"header", request[c].answer.kind>>]
    /\ request' = [request EXCEPT ![c] = NoRequest]
    /\ pc' = [pc EXCEPT ![c] = IF request[c].keepAlive THEN "parse" ELSE "closed"]
    /\ running' = IF request[c].keepAlive THEN c ELSE 0
    /\ why' = [why EXCEPT ![c] = IF request[c].keepAlive THEN @ ELSE "asked"]
    /\ UNCHANGED <<wire, owner, gone, asked, clientVars, serviceVars>>

\* asyncSend has failed, the client being gone: co_return without forceClose.
SendFails(c) ==
    /\ pc[c] = "send" /\ running = 0
    /\ "write" \in Faults /\ c \in gone
    /\ pc' = [pc EXCEPT ![c] = "left"]
    /\ why' = [why EXCEPT ![c] = "write"]
    /\ request' = [request EXCEPT ![c] = NoRequest]
    /\ UNCHANGED <<buffer, running, netVars, answered, clientVars, serviceVars>>

RecommendationServiceTask(c) ==
    \/ Read(c) \/ ReadEnd(c) \/ Serve(c) \/ Handle(c) \/ HandleDone(c)
    \/ Sent(c) \/ SendFails(c)

-----------------------------------------------------------------------------
(* The clients                                                              *)

Header(name, value, spelled) == <<name, value, spelled>>

Tokens(r, spelled) ==
    <<r.line>>
    \o (IF r.body = <<>> THEN <<>> ELSE <<Header("length", Len(r.body), spelled)>>)
    \o (IF r.close THEN <<Header("connection", "close", spelled)>> ELSE <<>>)
    \o <<<<"end">>>> \o r.body

Health == [line |-> <<"line", "GET", "/health">>, body |-> <<>>, close |-> TRUE]
Recommend(user) == [line  |-> <<"line", "POST", "/recommend">>,
                    body  |-> <<<<"user", user>>, <<"count", 10>>>>,
                    close |-> FALSE]

\* send() of a request.
Ask(c, r, spelled) ==
    /\ asked' = [asked EXCEPT ![c] = Append(@, r)]
    /\ wire' = [wire EXCEPT ![c] = @ \o Tokens(r, spelled)]

\* connect(): the coroutine of the new connection goes to its first asyncRead.
Open(c, client) ==
    /\ pc[c] = "none" /\ \A d \in 1 .. c - 1 : pc[d] # "none"
    /\ pc' = [pc EXCEPT ![c] = "read"]
    /\ owner' = [owner EXCEPT ![c] = client]
    /\ UNCHANGED <<buffer, request, running, why, wire, back, gone, asked,
                   answered, serviceVars>>

Hangup(c) ==
    /\ gone' = gone \union {c}
    /\ back' = [back EXCEPT ![c] = <<>>]

\* To keep the model small, after the health check.
OtherOpens(c) ==
    /\ caller[Main] = "done"
    /\ \A d \in Conns : owner[d] # Other
    /\ Open(c, Other)
    /\ UNCHANGED clientVars

\* It sends its requests without waiting for answers, its header names in lower
\* case.
OtherAsks(c, r) ==
    /\ owner[c] = Other /\ c \notin gone /\ pc[c] # "closed"
    /\ Len(asked[c]) < MaxAsked
    /\ Ask(c, r, "lower")
    /\ UNCHANGED <<coroutineVars, back, owner, gone, answered, clientVars,
                   serviceVars>>

OtherLeaves(c) ==
    /\ owner[c] = Other /\ c \notin gone
    /\ Hangup(c)
    /\ UNCHANGED <<coroutineVars, wire, owner, asked, answered, clientVars,
                   serviceVars>>

\* What clientThreadFunc does after a request, and healthCheck.
Count(t, connected, success) ==
    LET stats0 == local[t]
        counted == [totalRequests |-> stats0.totalRequests + (IF connected THEN 1 ELSE 0),
                    successful |-> stats0.successful + (IF success THEN 1 ELSE 0),
                    failed |-> stats0.failed + (IF success THEN 0 ELSE 1)]
        requests == IF t = Main THEN 1 ELSE NumRequests
    IN  /\ local' = [local EXCEPT ![t] = counted]
        /\ caller' = [caller EXCEPT ![t] =
                        IF counted.successful + counted.failed = requests THEN "end"
                                                                          ELSE "connect"]
        /\ UNCHANGED total

\* A slip: a connect that fails is not counted.
ConnectFailsUncounted(t) ==
    /\ caller[t] = "connect" /\ "connect" \in Faults
    /\ caller' = [caller EXCEPT ![t] = "end"]
    /\ UNCHANGED <<coroutineVars, netVars, answered, using, local, total, serviceVars>>

ConnectFails(t) ==
    /\ caller[t] = "connect" /\ "connect" \in Faults
    /\ Count(t, FALSE, FALSE)
    /\ UNCHANGED <<coroutineVars, netVars, answered, using, serviceVars>>

Connect(t, c) ==
    /\ caller[t] = "connect"
    /\ Open(c, t)
    /\ caller' = [caller EXCEPT ![t] = "send"]
    /\ using' = [using EXCEPT ![t] = c]
    /\ UNCHANGED <<local, total>>

\* The client program writes its header names capitalised. A server that has
\* closed does not get the request.
SendRequest(t) ==
    LET c == using[t]
        user == local[t].successful + local[t].failed + 1
    IN
    /\ caller[t] = "send"
    /\ IF pc[c] = "closed" THEN UNCHANGED <<asked, wire>>
       ELSE Ask(c, IF t = Main THEN Health ELSE Recommend(user), "Upper")
    /\ caller' = [caller EXCEPT ![t] = "recv"]
    /\ UNCHANGED <<coroutineVars, back, owner, gone, answered, using, local,
                   total, serviceVars>>

\* One recv, which takes what there is: what it looks for may not be in it. It
\* returns 0 when the server has closed. Then the client closes.
Receive(t) ==
    LET c == using[t]
        wanted == IF t = Main THEN "status" ELSE "items"
    IN
    /\ caller[t] = "recv"
    /\ \/ \E n \in 1 .. Len(back[c]) :
             Count(t, TRUE, wanted \in ToSet(SubSeq(back[c], 1, n)))
       \/ /\ back[c] = <<>> /\ pc[c] = "closed"
          /\ Count(t, TRUE, FALSE)
    /\ Hangup(c)
    /\ UNCHANGED <<coroutineVars, wire, owner, asked, answered, using,
                   serviceVars>>

\* Under g_statsMutex.
Merge(t) ==
    /\ t \in Threads /\ caller[t] = "end"
    /\ total' = [stats |-> [f \in DOMAIN NoStats |-> total.stats[f] + local[t][f]],
                 merged |-> total.merged \union {t}]
    /\ caller' = [caller EXCEPT ![t] = "done"]
    /\ UNCHANGED <<coroutineVars, netVars, answered, using, local, serviceVars>>

\* main starts the threads if the server is healthy and exits otherwise.
StartThreads ==
    /\ caller[Main] = "end"
    /\ caller' = [t \in Callers |->
                    IF t = Main THEN "done"
                    ELSE IF local[Main].successful = 0 THEN "none"
                    ELSE IF NumRequests = 0 THEN "end" ELSE "connect"]
    /\ UNCHANGED <<coroutineVars, netVars, answered, using, local, total, serviceVars>>

ClientThreadFunc(t) ==
    \/ ConnectFails(t) \/ SendRequest(t) \/ Receive(t) \/ Merge(t)
    \/ \E c \in Conns : Connect(t, c)

-----------------------------------------------------------------------------
\* What a coroutine does between two co_awaits touches nothing the clients see:
\* they take their steps before it or after it.
Clients ==
    /\ running = 0
    /\ \/ \E c \in Conns :
             \/ OtherOpens(c) \/ OtherLeaves(c)
             \/ \E r \in Requests : OtherAsks(c, r)
       \/ \E t \in Callers : ClientThreadFunc(t)
       \/ StartThreads

Next ==
    \/ \E c \in Conns : RecommendationServiceTask(c) \/ ReadTimesOut(c)
    \/ Clients

Spec == Init /\ [][Next]_vars

\* The loop thread goes on as long as a coroutine can, with what can be read, a read
\* that was canceled, a write that ends, a client that is gone, and so does the
\* client program. Nobody owes a timeout or a request of Other.
LoopRuns == \E c \in Conns : RecommendationServiceTask(c)

ProgramRuns == running = 0 /\ (StartThreads \/ \E t \in Callers : ClientThreadFunc(t))

FairSpec == Spec /\ WF_vars(LoopRuns) /\ WF_vars(ProgramRuns)

-----------------------------------------------------------------------------
(* Properties                                                               *)

Stats == [totalRequests : Nat, successful : Nat, failed : Nat]

TypeOK ==
    /\ pc \in [Conns -> {"none", "read", "canceled", "parse", "handle", "send", "closed",
                        "left"}]
    /\ running \in {0} \union Conns
    /\ \A c \in Conns : (running = c) <=> (pc[c] \in {"parse", "handle"})
    /\ (job = NoJob) <=> \A c \in Conns : pc[c] # "handle"
    /\ why \in [Conns -> {None, "eof", "timeout", "asked", "write"}]
    /\ owner \in [Conns -> Callers \union {Other, None}]
    /\ gone \subseteq Conns
    /\ caller \in [Callers -> {"none", "connect", "send", "recv", "end", "done"}]
    /\ using \in [Callers -> {0} \union Conns]
    /\ local \in [Callers -> Stats] /\ total.stats \in Stats

Malformed(r) == r.line = <<"garbage">>

\* However the stream is cut into reads, what a coroutine has in its buffer,
\* with what is still to be read, starts where the first unanswered request
\* starts; a coroutine that waits for more, or whose read has been canceled, has no
\* whole request to answer, and one that has read the end of the stream has
\* answered every request in front of a malformed one (the loops of
\* recommendationServiceTask and HttpRequest::parse).
FramingIsKept ==
    \A c \in Conns :
        LET n == Len(answered[c])
            spelled == IF owner[c] = Other THEN "lower" ELSE "Upper"
            open == [i \in 1 .. Len(asked[c]) - n |-> Tokens(asked[c][n + i], spelled)]
        IN  /\ pc[c] \in {"read", "canceled", "send"} =>
                  buffer[c] \o wire[c] = FlattenSeq(open)
            /\ pc[c] \in {"read", "canceled"} /\ open # <<>> =>
                  \/ Malformed(asked[c][n + 1])
                  \/ Len(buffer[c]) < Len(open[1])
            /\ why[c] = "eof" => open = <<>> \/ Malformed(asked[c][n + 1])

\* The types of the variables, and the framing of every connection.
ServiceInv == TypeOK /\ FramingIsKept

\* The summary of the client program accounts for every request of every thread
\* that has ended, connected or not, and a success is an answer of the server.
CountsAddUp ==
    LET answers == {c \in Conns : /\ owner[c] \in total.merged
                                  /\ answered[c] # <<>> /\ answered[c][1].kind = "items"}
    IN  /\ total.stats.successful + total.stats.failed
              = NumRequests * Cardinality(total.merged)
        /\ total.stats.successful <= Cardinality(answers)
        /\ Cardinality(answers) <= total.stats.totalRequests

Fits(r, a) ==
    LET recommend == r.line = <<"line", "POST", "/recommend">>
        json == ParseFromJson(r.body)
    IN  CASE recommend /\ json.ok -> /\ a.kind = "items"
                                     /\ BestFor(json.user, json.count, a.result)
          [] recommend /\ ~json.ok -> a.kind = "error"
          [] ~recommend /\ r.line[3] = "/health" -> a.kind = "status"
          [] ~recommend /\ r.line[3] = "/stats" -> a.kind = "stats"
          [] OTHER -> a.kind = "error"

Closes(r) == r.close

\* Pipelined or not, requests are answered in order, once, with the best items
\* whether their vectors were cached or not, and not after one that closes.
Session == INSTANCE HttpSession

ImplementsHttpSession == Session!SessionSpec

\* In the end every well-formed request behind well-formed ones that do not close
\* is answered, unless its client has hung up: no coroutine waits for ever with
\* a request in its buffer. A connection whose read timed out is closed without an
\* answer to what arrived after the kernel had canceled the read: those requests are
\* lost, and only they (FramingIsKept).
Answerable(c) ==
    {n \in DOMAIN asked[c] : /\ \A i \in 1 .. n : ~Malformed(asked[c][i])
                             /\ \A i \in 1 .. n - 1 : ~Closes(asked[c][i])}

RequestsAreAnswered ==
    <>[](\A c \in Conns :
            c \in gone \/ why[c] = "timeout" \/ Answerable(c) = DOMAIN answered[c])

\* The client program ends, too.
ClientEnds == <>(caller[Main] = "done" /\ \A t \in Threads : caller[t] \in {"none", "done"})

\* Neither a request that has been read nor the client program is left waiting.
NobodyWaitsForEver == RequestsAreAnswered /\ ClientEnds
=============================================================================

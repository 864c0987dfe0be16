---------------------------- MODULE HttpRequest -----------------------------
(***************************************************************************)
(* HttpRequest::parse and RecommendRequest::parseFromJson of src/recommend  *)
(* (the parse of src/test.cpp is the same text). The bytes are tokens:      *)
(*   <<"line", method, path>>       a request line                          *)
(*   <<"garbage">>                  a first line that is no request line     *)
(*   <<"length", n, spelling>>      Content-Length, n being tokens            *)
(*   <<"connection", v, spelling>>  Connection, v "close" or "keep-alive"     *)
(*   <<"end">>                      the empty line                           *)
(*   <<"user", n>>, <<"count", n>>  the fields of a JSON body                 *)
(* A spelling is "Upper" or "lower". Numbers are small: the code adds and     *)
(* multiplies them without looking at their width.                            *)
(***************************************************************************)
EXTENDS Naturals, Sequences, FiniteSetsExt

First(positions) == IF positions = {} THEN 0 ELSE Min(positions)

\* find() of the capitalised name in everything that was received, then of the
\* lower case name if the former is nowhere.
Find(buffer, name) ==
    LET at(spelling) == {i \in DOMAIN buffer : /\ buffer[i][1] = name
                                               /\ buffer[i][3] = spelling}
    IN  IF at("Upper") # {} THEN First(at("Upper")) ELSE First(at("lower"))

Incomplete == [consumed |-> 0]

\* A slip: the end of the header counts as the end of the request.
ParseNoBody(buffer) ==
    LET headerEnd == First({i \in DOMAIN buffer : buffer[i] = <<"end">>})
        connection == Find(buffer, "connection")
    IN  IF headerEnd = 0 \/ buffer[1][1] # "line" THEN Incomplete
        ELSE [consumed  |-> headerEnd,
              method    |-> buffer[1][2],
              path      |-> buffer[1][3],
              body      |-> SubSeq(buffer, headerEnd + 1, Len(buffer)),
              keepAlive |-> ~(connection \in 1 .. headerEnd
                                /\ buffer[connection][2] = "close")]

\* What is consumed is 0 when the header or the body has not all arrived, and
\* as well when the first line is no request line.
Parse(buffer) ==
    LET headerEnd == First({i \in DOMAIN buffer : buffer[i] = <<"end">>})
        length == Find(buffer, "length")
        contentLength == IF length \in 1 .. headerEnd THEN buffer[length][2] ELSE 0
        connection == Find(buffer, "connection")
        total == headerEnd + contentLength
    IN  IF headerEnd = 0 \/ buffer[1][1] # "line" \/ Len(buffer) < total THEN Incomplete
        ELSE [consumed  |-> total,
              method    |-> buffer[1][2],
              path      |-> buffer[1][3],
              body      |-> SubSeq(buffer, headerEnd + 1, total),
              keepAlive |-> ~(connection \in 1 .. headerEnd
                                /\ buffer[connection][2] = "close")]

\* The first field of each name counts; without a count it is 10.
ParseFromJson(body) ==
    LET field(name) == First({i \in DOMAIN body : body[i][1] = name}) IN
    [ok    |-> field("user") # 0 /\ body[field("user")][2] > 0,
     user  |-> IF field("user") = 0 THEN 0 ELSE body[field("user")][2],
     count |-> IF field("count") = 0 THEN 10 ELSE body[field("count")][2]]
=============================================================================

---------------------------- MODULE HttpSession -----------------------------
(***************************************************************************)
(* What an HTTP server promises on each of its connections: the requests are *)
(* answered in the order they were made, each once, with an answer that fits *)
(* it, and nothing is answered after a request that asks to close. A request *)
(* that is malformed is never answered, nor is anything behind it.           *)
(***************************************************************************)
EXTENDS Naturals, Sequences

CONSTANTS
    Conns,
    Malformed(_),      \* of a request
    Closes(_),         \* of a request
    Fits(_, _)         \* of a request and an answer
VARIABLES
    asked,       \* requests of each connection, in order
    answered     \* answers of each connection, in order

SessionInit ==
    /\ asked = [c \in Conns |-> <<>>]
    /\ answered = [c \in Conns |-> <<>>]

Ask(c) ==
    /\ Len(asked'[c]) = Len(asked[c]) + 1
    /\ asked' = [asked EXCEPT ![c] = Append(@, asked'[c][Len(asked[c]) + 1])]
    /\ UNCHANGED answered

Answer(c) ==
    LET n == Len(answered[c]) + 1 IN
    /\ n <= Len(asked[c])
    /\ \A i \in 1 .. n : ~Malformed(asked[c][i])
    /\ \A i \in 1 .. n - 1 : ~Closes(asked[c][i])
    /\ Len(answered'[c]) = n
    /\ Fits(asked[c][n], answered'[c][n])
    /\ answered' = [answered EXCEPT ![c] = Append(@, answered'[c][n])]
    /\ UNCHANGED asked

SessionSpec ==
    SessionInit /\ [][\E c \in Conns : Ask(c) \/ Answer(c)]_<<asked, answered>>
=============================================================================

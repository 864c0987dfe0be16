------------------------- MODULE MCRecommendService -------------------------
EXTENDS RecommendService

Post(body, close) ==
    [line |-> <<"line", "POST", "/recommend">>, body |-> body, close |-> close]

\* A request for two of the items, one that is not valid and closes, one without
\* a user, one for the statistics, one for a page there is not, a malformed one.
SomeRequests ==
    {Post(<<<<"user", 2>>, <<"count", 2>>>>, FALSE),
     Post(<<<<"user", 1>>, <<"count", 101>>>>, TRUE),
     Post(<<<<"count", 1>>>>, FALSE),
     [line |-> <<"line", "GET", "/stats">>, body |-> <<>>, close |-> FALSE],
     [line |-> <<"line", "GET", "/none">>, body |-> <<>>, close |-> TRUE],
     [line |-> <<"garbage">>, body |-> <<>>, close |-> FALSE]}

\* User 1 likes the items in the order 2, 1, 3; user 2 in the order 3, 1, 2.
SomeSimilarity ==
    [p \in (1 .. 2) \X (1 .. 3) |->
        IF p[1] = 1 THEN <<6, 10, 0>>[p[2]] ELSE <<5, 3, 9>>[p[2]]]
=============================================================================

---------------------------- MODULE MCStructures ----------------------------
EXTENDS Structures

TheCapacityKey == <<"loop", "capacity">>

\* The key written out and within its section, numbers and no number, another
\* section, the end of all sections, and lines that are refused.
SomeFileLines ==
    {<<"set", <<"loop", "capacity">>, n>> : n \in {0, 1, 2, 25}}
        \union {<<"set", <<"capacity">>, n>> : n \in {4, 5, 30, NotANumber}}
        \union {<<"section", s>> : s \in {<<>>, <<"loop">>, <<"log">>}}
        \union {<<"blank">>, <<"no_equals">>, <<"no_key">>}
=============================================================================

----------------------------- MODULE ByteStream -----------------------------
(***************************************************************************)
(* What the sending half of a connection promises: the bytes that were      *)
(* appended reach the peer in order, none twice and none left out, and the  *)
(* end of the stream is told when all that was said has been heard.         *)
(***************************************************************************)
EXTENDS Integers

VARIABLES
    said,   \* bytes appended so far
    heard,  \* bytes the peer has received, the first ones of those said
    ended   \* the write side has been shut down

StreamInit == said = 0 /\ heard = 0 /\ ended = FALSE

Say  == said' > said /\ UNCHANGED <<heard, ended>>
Hear == /\ ~ended
        /\ heard' > heard /\ heard' <= said
        /\ UNCHANGED <<said, ended>>
End  == /\ heard = said
        /\ ended' = TRUE
        /\ UNCHANGED <<said, heard>>

StreamSpec == StreamInit /\ [][Say \/ Hear \/ End]_<<said, heard, ended>>
=============================================================================

------------------------------- MODULE Session -------------------------------
(***************************************************************************)
(* The life of a TCP connection as its server sees it: accepted and listed, *)
(* taken off the list, its descriptor closed, its memory given back, in     *)
(* this order and once. A connection may lose its last reference before     *)
(* anybody closes the descriptor, even as it leaves the list (the functor   *)
(* that would close it finds a full queue): the destructor of its socket    *)
(* does it then.                                                            *)
(***************************************************************************)
CONSTANT Conns
VARIABLE status

SessionTypeOK ==
    status \in [Conns -> {"none", "listed", "delisted", "closed", "freed"}]

SessionInit == status = [c \in Conns |-> "none"]

Step(c, from, to) ==
    /\ status[c] \in from
    /\ status' = [status EXCEPT ![c] = to]

SessionNext ==
    \E c \in Conns :
        \/ Step(c, {"none"}, "listed")
        \/ Step(c, {"listed"}, "delisted")
        \/ Step(c, {"delisted"}, "closed")
        \/ Step(c, {"listed", "delisted", "closed"}, "freed")

SessionSpec == SessionInit /\ [][SessionNext]_status
=============================================================================

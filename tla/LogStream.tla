----------------------------- MODULE LogStream -----------------------------
(***************************************************************************)
(* What the logger promises its callers: an entry it accepts waits in line  *)
(* and is written once, in the order of acceptance. Entries still waiting   *)
(* when the logger is destroyed are given up together.                      *)
(***************************************************************************)
EXTENDS Naturals, Sequences

CONSTANT Entries

VARIABLES pending,   \* accepted entries, not yet written
          out        \* entries written so far

lsVars == <<pending, out>>

LogInit == pending = <<>> /\ out = <<>>

\* An entry is accepted at most once.
Accept(e) ==
    /\ \A i \in 1 .. Len(pending) : pending[i] # e
    /\ \A i \in 1 .. Len(out) : out[i] # e
    /\ pending' = Append(pending, e)
    /\ out' = out

WriteNext ==
    /\ pending # <<>>
    /\ out' = Append(out, Head(pending))
    /\ pending' = Tail(pending)

GiveUp == pending' = <<>> /\ out' = out

LogSpec ==
    LogInit /\ [][(\E e \in Entries : Accept(e)) \/ WriteNext \/ GiveUp]_lsVars
=============================================================================

------------------------------ MODULE Executor ------------------------------
(***************************************************************************)
(* What an EventLoop promises to the threads that hand it tasks: accepted  *)
(* tasks run one after the other, each once, in the order in which they    *)
(* were accepted, and every one of them runs unless the loop stops.        *)
(***************************************************************************)
EXTENDS Naturals, Sequences

CONSTANT Tasks

VARIABLES accepted,  \* every task accepted so far, in order
          ran,       \* the tasks that have run, in order
          stopped    \* the loop has returned

exVars == <<accepted, ran, stopped>>

ExecutorInit ==
    /\ accepted = <<>>
    /\ ran = <<>>
    /\ stopped = FALSE

Accept(x) ==
    /\ accepted' = Append(accepted, x)
    /\ UNCHANGED <<ran, stopped>>

RunNext ==
    /\ ~stopped
    /\ Len(ran) < Len(accepted)
    /\ ran' = Append(ran, accepted[Len(ran) + 1])
    /\ UNCHANGED <<accepted, stopped>>

Stop ==
    /\ ~stopped
    /\ stopped' = TRUE
    /\ UNCHANGED <<accepted, ran>>

ExecutorNext == (\E x \in Tasks : Accept(x)) \/ RunNext \/ Stop

ExecutorSafety   == ExecutorInit /\ [][ExecutorNext]_exVars
ExecutorFairness == WF_exVars(RunNext)
ExecutorSpec     == ExecutorSafety /\ ExecutorFairness
=============================================================================

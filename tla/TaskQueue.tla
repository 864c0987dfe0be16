----------------------------- MODULE TaskQueue -----------------------------
(***************************************************************************)
(* What the pending-task queue of an EventLoop promises: a bounded FIFO    *)
(* with three visible instants per operation. An enqueue takes its place   *)
(* at the tail (Claim) and becomes readable later (Publish); a dequeue     *)
(* takes the head (Take) and gives its cell back later (Release). A call   *)
(* may also be refused: full while a cell is still being given back,       *)
(* empty while the task at the head is still being written. LockFreeQueue  *)
(* implements this module and EventLoop is built from it.                  *)
(***************************************************************************)
EXTENDS Naturals, Sequences

CONSTANTS Producers, Consumers, Items, Capacity, None

VARIABLES queue,    \* tasks in the order their places were claimed
          adding,   \* the task a producer has placed and not yet published
          holding,  \* the task a consumer has taken and not yet moved out
          answer    \* what the last call of each thread returned

tqVars == <<queue, adding, holding, answer>>

Threads == Producers \cup Consumers

TaskQueueTypeOK ==
    /\ queue \in Seq(Items)
    /\ adding \in [Producers -> Items \cup {None}]
    /\ holding \in [Consumers -> Items \cup {None}]
    /\ answer \in [Threads -> {"none", "ok", "no"}]

TaskQueueInit ==
    /\ queue = <<>>
    /\ adding = [p \in Producers |-> None]
    /\ holding = [c \in Consumers |-> None]
    /\ answer = [t \in Threads |-> "none"]

Unpublished(x) == \E p \in Producers : adding[p] = x

Call(t) ==
    /\ answer' = [answer EXCEPT ![t] = "none"]
    /\ UNCHANGED <<queue, adding, holding>>

Claim(p, x) ==
    /\ adding[p] = None
    /\ Len(queue) < Capacity
    /\ queue' = Append(queue, x)
    /\ adding' = [adding EXCEPT ![p] = x]
    /\ UNCHANGED <<holding, answer>>

Publish(p) ==
    /\ adding[p] # None
    /\ adding' = [adding EXCEPT ![p] = None]
    /\ answer' = [answer EXCEPT ![p] = "ok"]
    /\ UNCHANGED <<queue, holding>>

Refuse(p) ==
    /\ Len(queue) = Capacity \/ \E c \in Consumers : holding[c] # None
    /\ answer' = [answer EXCEPT ![p] = "no"]
    /\ UNCHANGED <<queue, adding, holding>>

Take(c) ==
    /\ holding[c] = None
    /\ queue # <<>>
    /\ ~Unpublished(Head(queue))
    /\ holding' = [holding EXCEPT ![c] = Head(queue)]
    /\ queue' = Tail(queue)
    /\ UNCHANGED <<adding, answer>>

Release(c) ==
    /\ holding[c] # None
    /\ holding' = [holding EXCEPT ![c] = None]
    /\ answer' = [answer EXCEPT ![c] = "ok"]
    /\ UNCHANGED <<queue, adding>>

FindEmpty(c) ==
    /\ queue # <<>> => Unpublished(Head(queue))
    /\ answer' = [answer EXCEPT ![c] = "no"]
    /\ UNCHANGED <<queue, adding, holding>>

TaskQueueNext ==
    \/ \E t \in Threads : Call(t)
    \/ \E p \in Producers :
          \/ \E x \in Items : Claim(p, x)
          \/ Publish(p)
          \/ Refuse(p)
    \/ \E c \in Consumers : Take(c) \/ Release(c) \/ FindEmpty(c)

TaskQueueSpec == TaskQueueInit /\ [][TaskQueueNext]_tqVars
=============================================================================

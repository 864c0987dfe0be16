\* Up to two loop threads and three clients; two things go wrong: an accept
\* fails, the ring is full, or a loop dies.
\* A destroyed server rests, so deadlock is not checked.
CONSTANTS
    MaxClients = 3
    MaxThreads = 2
    MaxErrors = 2
SPECIFICATION FairSpec
CHECK_DEADLOCK FALSE
INVARIANTS ServerInv LifetimesAreNested
PROPERTIES ArrivedIsServed StopEnds

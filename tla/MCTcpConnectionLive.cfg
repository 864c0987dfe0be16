\* Two connections, a buffer for each, queues that do not overflow, no failure.
\* No connection is left to accept in the end, so deadlock is not checked.
CONSTANTS
    Conns = {c1, c2}
    BufferCount = 2
    Capacity = 6
    Timed = TRUE
    Faults = {}
SPECIFICATION FairSpec
PROPERTY DeadPeerIsReleased
CHECK_DEADLOCK FALSE

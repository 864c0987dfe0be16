\* One connection, writes may fail.
\* No connection is left to accept in the end, so deadlock is not checked.
CONSTANTS
    Conns = {c1}
    BufferCount = 1
    Capacity = 3
    Timed = TRUE
    Faults = {"write_error"}
SPECIFICATION FairSpec
PROPERTY DeadPeerIsReleased
CHECK_DEADLOCK FALSE

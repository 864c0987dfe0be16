\* Two connections, a buffer for each, queues of one task, and everything that
\* can fail.
\* No connection is left to accept in the end, so deadlock is not checked.
CONSTANTS
    Conns = {c1, c2}
    BufferCount = 2
    Capacity = 1
    Timed = TRUE
    Faults = {"write_error", "sq_full", "late_timer", "shutdown"}
SPECIFICATION Spec
SYMMETRY ConnSymmetry
INVARIANTS ConnectionInv ContextsOutliveRequests BuffersAreConserved
PROPERTY ImplementsSession
CHECK_DEADLOCK FALSE

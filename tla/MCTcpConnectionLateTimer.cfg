\* One connection whose link timeout may expire while its read is completing.
\* No connection is left to accept in the end, so deadlock is not checked.
CONSTANTS
    Conns = {c1}
    BufferCount = 1
    Capacity = 3
    Timed = TRUE
    Faults = {"late_timer"}
SPECIFICATION Spec
INVARIANT SubmitsOnOpenSocket
CHECK_DEADLOCK FALSE

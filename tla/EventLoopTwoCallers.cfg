\* Two threads hand tasks to the loop, the main thread and the loop thread itself,
\* past the water marks of a queue of three.
\* The loop may wait for ever when nobody calls it, so deadlock is not checked.
CONSTANTS
    Others = {p1}
    Loop = loop
    MaxTasks = 3
    MaxOwnTasks = 1
    Capacity = 3
    HighWater = 2
    LowWater = 1
    DrainLimit = 3
    Io = {io}
    Wake = wake
    SqSize = 2
    EarlyIo = {io}
    EarlyCalls = {}
    None = None
SPECIFICATION Spec
CHECK_DEADLOCK FALSE
INVARIANTS CallbackTellsTransitions

\* One other thread with two tasks and the loop thread with one, on a queue of two
\* with both water marks in reach: some of them may be refused. An acceptor, a
\* connection, and a submission queue of two entries for three contexts: requests get
\* lost, the read of the wakeup descriptor among them.
\* The loop may wait for ever when nobody calls it, so deadlock is not checked.
CONSTANTS
    Others = {p1}
    Loop = loop
    MaxTasks = 2
    MaxOwnTasks = 1
    Capacity = 2
    HighWater = 1
    LowWater = 0
    DrainLimit = 2
    Io = {io1, io2}
    Wake = wake
    SqSize = 2
    EarlyIo = {io1}
    EarlyCalls = {}
    None = None
SPECIFICATION FairSpec
CHECK_DEADLOCK FALSE
INVARIANTS TypeOK NoLostWakeup WakeupArmed
PROPERTIES ImplementsExecutorSafety AcceptedTasksRun QuitStopsLoop

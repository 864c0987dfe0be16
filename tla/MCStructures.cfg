\* Three keys and caches of 0 to 2; three messages of up to two payload bytes, or
\* of three, which is refused; two threads and two blocks of two slots; files of
\* up to three lines; two callers and four entries against a log queue of three,
\* passes of two and log files of two lines, one restart of the logger and two
\* different seconds.
\* A channel that has refused, a file that was read and a logger that was shut down
\* for good have no further step, so deadlock is not checked.
CONSTANTS
    Keys = {1, 2, 3}
    Values = {1, 2}
    MaxCapacity = 2
    Reserved = 2
    InitialSize = 4
    Empty = Empty
    HeaderLength = 3
    MaxMessageLength = 2
    Payloads = {0, 2, 3}
    MaxSent = 3
    PoolThreads = {a, b}
    BlockSlots = 2
    MaxBlocks = 2
    Nobody = Nobody
    DefaultCapacity = 12
    CapacityKey <- TheCapacityKey
    NotANumber = NotANumber
    FileLines <- SomeFileLines
    MaxLines = 3
    Threads = {t1, t2}
    QueueSize = 3
    MaxBatch = 2
    MaxFileSize = 2
    MaxEntries = 4
    MaxInits = 2
    MaxSecond = 2
SPECIFICATION Spec
CHECK_DEADLOCK FALSE
INVARIANTS FramesArrive SlotsAreExclusive OptionsAreSound LoggerInv
PROPERTIES ImplementsRecencyCache ImplementsLogStream

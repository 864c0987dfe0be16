\* Two callers and four entries against a queue of three, and passes of two: the
\* worker finds more entries at the shutdown than one pass writes.
\* Once shut down for good the logger rests, so deadlock is not checked.
CONSTANTS
    Threads = {t1, t2}
    QueueSize = 3
    MaxBatch = 2
    MaxFileSize = 2
    MaxEntries = 4
    MaxInits = 1
    MaxSecond = 1
SPECIFICATION LoggerFairSpec
CHECK_DEADLOCK FALSE
PROPERTIES QueuedIsWritten

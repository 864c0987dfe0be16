\* Messages of up to four bytes against water marks of three and one, every
\* strategy, everything but writes that fail on an open connection.
\* A sender that gave up or used up MaxSaid stops, so deadlock is not checked.
CONSTANTS
    Strategies = {"discard", "close", "block", "pass"}
    High = 3
    Low = 1
    MaxMessage = 4
    MaxSaid = 9
    Faults = {"shutdown", "destroy", "regbuf", "sendfile"}
SPECIFICATION FairSpec
CHECK_DEADLOCK FALSE
INVARIANTS TypeOK OutputIsBounded
PROPERTIES FinCutsNothing ImplementsByteStream SenderIsResumed

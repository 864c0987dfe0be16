\* One client thread with one request and a client that pipelines two; three
\* items, room for one user and two items.
\* The clients stop in the end, so deadlock is not checked.
CONSTANTS
    Keys = {1, 2, 3}
    ItemCount = 3
    UserCapacity = 1
    ItemCapacity = 2
    Similarity <- SomeSimilarity
    Threads = {t1}
    Main = main
    Other = other
    None = None
    NumRequests = 1
    Requests <- SomeRequests
    MaxAsked = 2
    Faults = {"timeout", "connect", "write"}
SPECIFICATION FairSpec
CHECK_DEADLOCK FALSE
INVARIANTS ServiceInv CountsAddUp
PROPERTIES ImplementsHttpSession NobodyWaitsForEver

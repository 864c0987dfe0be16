\* Two producers with two tasks each against two consumers on two slots: the
\* ring is filled, a call is refused, and the ring is lapped. A call of enqueue
\* begins while fewer than two positions are claimed.
\* Liveness is checked, so there is no symmetry.
CONSTANTS
    Producers = {p1, p2}
    Consumers = {c1, c2}
    Size = 2
    MaxCalls = 2
    MaxPosition = 2
    Empty = Empty
SPECIFICATION FairSpec
INVARIANTS TypeOK SlotExclusive TakenTaskIsReal SizeNeverWraps
PROPERTIES ImplementsTaskQueue EveryCallReturns

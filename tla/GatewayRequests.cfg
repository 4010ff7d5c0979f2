SPECIFICATION FairSpec
CONSTANTS
    Request = {1, 2, 3}
    Client = {a1, a2}
    Key = {k1, k2}
    None = None
    License = {2}
    MaxInFlight = 2
    IpLimit = 2
    KeyLimit = 1
    MaxBuckets = 1
    Window = 2
    Timeout = 1
    MaxTime = 3
INVARIANT SlotsAreExact
INVARIANT RateIsBounded
PROPERTY RefusalIsEarned
PROPERTY ServedWasEntitled
PROPERTY SlotsReturn
CHECK_DEADLOCK FALSE

\* Three calls of two users while the books change: which calls a snapshot finds, and that cached and returned orders are those of the gate.
SPECIFICATION Spec
CONSTANTS
    c1 = c1
    c2 = c2
    c3 = c3
    u1 = u1
    u2 = u2
    Users = {u1, u2}
    Calls = {c1, c2, c3}
    Lookups = {c3}
    Unsubscribers = {}
    InitialBook = 0
    MaxChanges = 2
    Deadlines = FALSE
    Faults = FALSE
SYMMETRY Symmetry
CHECK_DEADLOCK FALSE
INVARIANTS
    TypeOK
    PendingSnapExact
    CacheTracksFeed
    SubscriberSeesStart

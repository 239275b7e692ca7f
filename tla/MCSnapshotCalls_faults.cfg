\* Two calls, one of them a lookup, and an Unsubscribe, with everything that can go wrong.
SPECIFICATION FairSpec
CONSTANTS
    c1 = c1
    c2 = c2
    t1 = t1
    u1 = u1
    Users = {u1}
    Calls = {c1, c2}
    Lookups = {c2}
    Unsubscribers = {t1}
    InitialBook = 1
    MaxChanges = 2
    Deadlines = TRUE
    Faults = TRUE
CHECK_DEADLOCK FALSE
INVARIANT UnlockedOnlyByUnsubscribe
PROPERTIES
    CacheNeverGoesBack
    PendingDrained

\* Two parallel GetSnapshot: one checks the cache before the snapshot arrives and registers after all waiting calls were woken.
SPECIFICATION FairSpec
CONSTANTS
    c1 = c1
    c2 = c2
    u1 = u1
    Users = {u1}
    Calls = {c1, c2}
    Lookups = {}
    Unsubscribers = {}
    InitialBook = 0
    MaxChanges = 0
    Deadlines = FALSE
    Faults = FALSE
CHECK_DEADLOCK FALSE
PROPERTIES EveryCallReturns

\* Two gates that change three times, then stop.
CONSTANTS
    NumGates = 2
    Users = {u1}
    Calls = {}
    Unsubscribers = {}
    Movers = {m1}
    MaxChanges = 3
    ReadyCap = 2
    StatusCap = 1
    Faults = FALSE
SPECIFICATION FairSpec
CHECK_DEADLOCK FALSE
INVARIANTS
    TypeOK
    NoLostReadiness
PROPERTY Settles

\* Two calls and an Unsubscribe of one user while a gate changes; a move may fail.
CONSTANTS
    NumGates = 2
    Users = {u1}
    Calls = {c1, c2}
    Unsubscribers = {t1}
    Movers = {m1}
    MaxChanges = 1
    ReadyCap = 1
    StatusCap = 1
    Faults = TRUE
SPECIFICATION Spec
SYMMETRY Symmetry
CHECK_DEADLOCK FALSE
INVARIANTS
    CallUsesAssigned
    RoundRobin

\* Two users, a reader and two deletions at any time, three mutexes.
CONSTANTS
    Users = {u1, u2}
    Input = input
    Readers = {r1}
    Deleters = {d1, d2}
    MaxMutexes = 3
    NoMutex = NoMutex
SPECIFICATION Spec
SYMMETRY Symmetry
CHECK_DEADLOCK FALSE
INVARIANTS
    TypeOK
    LockedHasOrders
    UserExclusive
    CrashNeedsOvertaking

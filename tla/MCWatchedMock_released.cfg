\* A user with fixtures or with expectations, whose calls overlap and take their time.
SPECIFICATION Spec
SYMMETRY Symmetry
CONSTANTS
    c1 = c1
    c2 = c2
    u1 = u1
    i1 = i1
    Never = Never
    NoOrders = NoOrders
    NoOrder = NoOrder
    Users = {u1}
    Callers = {c1, c2}
    Releaser = w1
    Goroutines = {c1, c2, w1}
    Ids = {i1}
    MaxExpected = 1
    Expected <- SomeExpectations
    TicksPerSecond = 2
    Duration = 2
    MaxTime = 7
    Lag = 1
    MaxCall = 3
CHECK_DEADLOCK FALSE
INVARIANTS
    IocNeverRests
    CrashNeedsWindow
    KeptAreWatched
    NotReleasedEarly
PROPERTIES
    
    ImplementsLease

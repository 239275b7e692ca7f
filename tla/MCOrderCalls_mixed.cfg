\* A NewOrder, a CancelOrder and a ReplaceOrder of two orders, with deadlines and failed sends.
SPECIFICATION Spec
CONSTANTS
    i1 = i1
    i2 = i2
    k1 = k1
    n1 = n1
    r1 = r1
    t1 = t1
    t2 = t2
    NoOrder = NoOrder
    NoReply = NoReply
    NoCall = NoCall
    News = {n1}
    Cancels = {k1}
    Replaces = {r1}
    Ids = {i1, i2}
    Terms = {t1, t2}
    Quantity = 2
    IdReuse = "never"
    Deadlines = {n1, k1, r1}
    Faults = {n1, k1, r1}
    Casts <- EveryCall
SYMMETRY Symmetry
CHECK_DEADLOCK FALSE
INVARIANTS
    TypeOK
    ReadYourWrites
    CacheTracksBook
    CancelRejectIsOwn

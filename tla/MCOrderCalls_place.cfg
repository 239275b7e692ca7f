\* A NewOrder that may trade twice and a CancelOrder of it, with deadlines and
\* failed sends; or two NewOrder with one client order id.
SPECIFICATION FairSpec
CONSTANTS
    i1 = i1
    k1 = k1
    n1 = n1
    n2 = n2
    n3 = n3
    t1 = t1
    NoOrder = NoOrder
    NoReply = NoReply
    NoCall = NoCall
    News = {n1, n2, n3}
    Cancels = {k1}
    Replaces = {}
    Ids = {i1}
    Terms = {t1}
    Quantity = 2
    IdReuse = "in parallel"
    Deadlines = {n1, k1}
    Faults = {n1, k1}
    Casts = {{n1, k1}, {n2, n3}}
CHECK_DEADLOCK FALSE
INVARIANTS
    CompleteReply
    CancelMeansGone
    PendingExact
    RejectMeansNotPlaced
PROPERTY EveryCallReturns

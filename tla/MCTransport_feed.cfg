\* One request of any kind, and what the gate may answer to it.
CONSTANTS
    IdWidth = 2
    Nul = "0"
    Chars = {"a"}
    Users = {1, 2}
    MaxUint = 3
    Symbols = {"s1", "s2"}
    Prices = {"p1"}
    Requests <- SomeRequests
    Reasons = {"duplicateOrder", "selfTrade"}
    MaxSends = 1
    MaxMessages = 3
    ReportsCap = 1
SPECIFICATION FairSpec
CHECK_DEADLOCK FALSE
INVARIANTS
    OrdersAsRequested
    RefusalsFindTheirCall
    AnswersUnderstood
PROPERTY ImplementsFeed

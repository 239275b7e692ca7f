\* Strings of up to three words, any step may fail, and flags change meanwhile.
SPECIFICATION Spec
CONSTANTS
    s1 = s1
    Words <- SomeWords
    MaxWords = 3
    MaxPort = 3
    Failures = TRUE
    EarlyChanges = 2
    LateChanges = 0
    Setters = {s1}
CHECK_DEADLOCK FALSE
INVARIANTS
    TypeOK
    TraderAsWritten

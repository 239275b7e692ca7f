\* Two changes of the links or the gate, which are then left alone.
CONSTANTS
    Spawned = {t1}
    Loop = loop
    MaxChanges = 2
    MaxInbox = 1
    ReadyCap = 2
SPECIFICATION FairSpec
CHECK_DEADLOCK FALSE
INVARIANTS
    TypeOK
    ReadyFollowsInputs
PROPERTY ReadySettles

SPECIFICATION FairSpec
CONSTANTS
    Keys = {k1, k2}
    MaxChanges = 4
    MayFail = TRUE
INVARIANTS
    NotificationsInOrder
    PendingSignalled
    Converges
    ThreadDoneBeforeFree
PROPERTIES
    CallsEnd
    PendingProcessed
CHECK_DEADLOCK FALSE

SPECIFICATION FairSpec
CONSTANTS
    Keys = {k1, k2, k3}
    Usable = {k1, k2}
    SockSize = 2
    MaxChanges = 4
    MayFail = TRUE
INVARIANTS
    TypeOK
    Accurate
    RefreshComplete
PROPERTIES
    EventuallyAccurate

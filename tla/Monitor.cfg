SPECIFICATION FairSpec
CONSTANTS
    Devs = {d1, d2}
    Keys = {k1}
    Ifaces = {0, 1}
    Results <- AllResults
    MaxCallbacks = 3
    MaxRefs = 1
    CarefulApp = TRUE
    Nil = Nil
INVARIANTS
    RefcountExact
    UniqueInTable
    MirrorAccurate
    SafeIteration
    OnlineOnlyInTable
PROPERTIES
    RefreshReturns

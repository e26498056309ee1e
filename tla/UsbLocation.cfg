SPECIFICATION Spec
CONSTANTS
    Platforms = {"vista", "xp", "darwin"}
    Threads = {t1, t2}
    Walkers = {t1}
    Controllers = {c1, c2, c3}
    Hubs = {h, h2}
    Devices = {d1}
    Functions = {f}
    FunctionOf <- McFunctionOf
    Sockets <- McSockets
    MaxTier = 2
    MaxDepth = 3
    MaxIndex = 2
    MayFail = TRUE
    QueryMayFail = FALSE
    c1 = c1
    c2 = c2
    h = h
    h2 = h2
    NoThread = NoThread
    Nowhere = Nowhere
INVARIANTS
    TypeOK
    LocationRight
PROPERTIES
    NotIgnored
    ListFixed

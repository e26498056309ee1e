SPECIFICATION FairSpec
CONSTANTS
    Threads = {t1, t2}
    Systems <- BothSystems
    Types <- BothTypes
    BufSize = 2
    Sizes = {1, 2}
    MaxData = 3
    MaxFaults = 2
    None = None
INVARIANTS
    TypeOK
    DescriptorExact
    BufferOutlivesRequest
PROPERTIES
    ImplementsChannel
    DataRead
CHECK_DEADLOCK FALSE

SPECIFICATION FairSpec
CONSTANTS
    MaxReports = 2
    MaxArrivals = 5
    Timeouts <- AllTimeouts
INVARIANTS
    NoLostWakeup
    RemovalSignalled
    ReportsRight
    ThreadDoneBeforeFree
PROPERTIES
    CallsEnd

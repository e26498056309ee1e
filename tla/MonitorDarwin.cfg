SPECIFICATION FairSpec
CONSTANTS
    Sessions = {s1, s2, s3}
    LongIds = {s3}
    Classes = {hid, serial}
    Terminated = Terminated
    MayFail = TRUE
INVARIANTS
    TypeOK
    NothingLost
    PendingSignalled
    NoStaleError
PROPERTIES
    EventuallyAccurate

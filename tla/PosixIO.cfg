SPECIFICATION FairSpec
CONSTANTS
    Kinds = {"hidraw", "hidraw26", "serial_osx"}
    Descriptors <- McDescriptors
    ReportSize = 2
    Sizes = {1, 4}
    Timeouts <- McTimeouts
    Instants <- McInstants
    LastStart = 995
    Entries <- McEntries
    MaxSet = 2
INVARIANTS
    TypeOK
    ParsedRight
    ReportWhole
    DeadlineClose
PROPERTIES
    CallsEnd

SPECIFICATION Spec
CONSTANTS
    EVENT_BUFFER_SIZE = 1
    Watched = {1}
    MaxOpens = 2
    MaxEvents = 2
    MaxFaults = 1
INVARIANTS
    ScopesNest
    ReadersLearnOfDisconnect
PROPERTIES
    ScopesSettle
CHECK_DEADLOCK FALSE

SPECIFICATION FairSpec
CONSTANTS
    c1 = c1
    Client <- OneClient
    ByteCap = 4
    MaxChunk = 2
    Offset <- Offsets
    MaxAttach = 3
    NoId = NoId
CHECK_DEADLOCK FALSE
INVARIANTS
    NoLostWakeup
    EndedIsComplete
    NoGapOnResume
PROPERTIES
    StreamEnds
    ImplementsFairDelivery

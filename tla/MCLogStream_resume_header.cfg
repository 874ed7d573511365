SPECIFICATION Spec
CONSTANTS
    c1 = c1
    Client <- OneClient
    ByteCap = 2
    MaxChunk = 1
    Offset <- Offsets
    MaxAttach = 2
    NoId = NoId
CHECK_DEADLOCK FALSE
INVARIANTS
    ResumeAfterLastEventId

SPECIFICATION Spec
CONSTANTS
    s1 = s1
    s2 = s2
    j1 = j1
    NoSession = NoSession
    Session <- OneSession
    Job <- OneJob
    LogByteCap = 1
    DrainBufSize = 1
    MaxWritten = 1
    MayClosePipes = FALSE
    MayFork = FALSE
    MaySystemFail = FALSE
CHECK_DEADLOCK FALSE
PROPERTIES
    CloseLeavesNoLiveJob

SPECIFICATION FairSpec
CONSTANTS
    s1 = s1
    s2 = s2
    j1 = j1
    NoSession = NoSession
    Session <- TwoSessions
    Job <- OneJob
    LogByteCap = 2
    DrainBufSize = 2
    MaxWritten = 2
    MayClosePipes = TRUE
    MayFork = TRUE
    MaySystemFail = TRUE
CHECK_DEADLOCK FALSE
INVARIANTS
    NoSilentLoss
    StatusHasCause
    RunningIsCancellable
    NoLeakedCancelEntry
    AuditIsHistory
PROPERTIES
    ImplementsLifecycle
    DeadJobFinishes
    CancelledProcessDies

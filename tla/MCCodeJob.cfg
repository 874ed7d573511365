SPECIFICATION FairSpec
CONSTANTS
    JobId = JobId
    LogByteCap = 2
    DrainBufSize = 2
    MaxText = 3
    MayFork = TRUE
CHECK_DEADLOCK FALSE
INVARIANTS
    InterruptIsNotLost
    NothingOutlivesTheJob
    StatusTellsTheRun
PROPERTIES
    ImplementsLifecycle
    CancelledJobEnds
    CancelledChildDies

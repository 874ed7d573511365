SPECIFICATION FairSpec
CONSTANTS
    FrameCount = 3
    PollTimeout = 5
    PollInterval = 2
    MaxFaults = 3
    MaxKeepAlives = 1
INVARIANTS
    FramesAreThoseSent
    SuccessIsTrue
    NothingLeftBehind
PROPERTY DemoEnds
CHECK_DEADLOCK FALSE

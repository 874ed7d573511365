SPECIFICATION Spec
CONSTANTS
    ByteCap = 3
    MaxLen = 1
    MaxAttempts = 2
    Time <- Times
    NanosPerSec = 3
    MaxSecs = 2
CHECK_DEADLOCK FALSE
INVARIANTS
    FileHoldsEvents

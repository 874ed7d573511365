SPECIFICATION Spec
CONSTANTS
    ByteCap = 3
    MaxLen = 2
    MaxAttempts = 3
    Time <- Times
    NanosPerSec = 3
    MaxSecs = 2
CHECK_DEADLOCK FALSE
INVARIANTS
    AckedSurvives
    OpensWhole
    MemoryIsFile
PROPERTIES
    ImplementsDurableLog

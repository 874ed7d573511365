SPECIFICATION Spec
CONSTANTS
    c1 = c1
    c2 = c2
    j1 = j1
    Client <- TwoClients
    Job <- OneJob
    MaxSessions = 2
SYMMETRY Symmetry
INVARIANTS
    ClosedIsClosed
    RefusedOnlyAfterClose
    SessionsKeepApart
    LogIsOrdered
    StartedIsAudited

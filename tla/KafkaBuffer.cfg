SPECIFICATION FairSpec
CONSTANTS
    Messages = {m1, m2, m3}
    NoMessage = NoMessage
    MaxSize = 2
    MaxRetries = 2
    FailureThreshold = 2
    HalfOpenRequests = 1
    MaxFaults = 3
    MaxCloses = 2
INVARIANTS TypeOK OneFate WithinRetryBudget
PROPERTIES UsesBreaker WaitEndsWhileClosed
CHECK_DEADLOCK FALSE

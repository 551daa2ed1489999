SPECIFICATION FairSpec
CONSTANTS
    Callers = {c1, c2, c3}
    Requests = {r1, r2, r3}
    Drainers = {d1, d2}
    FailureThreshold = 2
    HalfOpenRequests = 2
    MaxQueueSize = 2
    MaxRetries = 2
    NoRequest = NoRequest
    MaxFaults = 3
INVARIANTS TypeOK ClosedBelowThreshold ProbingAlwaysAdmits
           UntriedRequestsAreKept QueuedHaveRetriesLeft DeliveredOnce
PROPERTY Recovery

SPECIFICATION FairSpec
CONSTANTS
    expire_stale = expire_stale
    w1 = w1
    w2 = w2
    Kinds <- OneKind
    Slots = 2
    Workers <- OneWorker
    Cadence = 2
    MaxAttempts = 2
    Backoff <- ShortBackoff
    JobLease = 1
    FaultPoints = {"failing"}
    MaxFaults = 1
PROPERTIES FailedIsTransient

SPECIFICATION FairSpec
CONSTANTS
    expire_stale = expire_stale
    w1 = w1
    w2 = w2
    Kinds <- OneKind
    Slots = 2
    Workers <- TwoWorkers
    Cadence = 2
    MaxAttempts = 2
    Backoff <- ShortBackoff
    JobLease = 1
    FaultPoints <- Survivable
    MaxFaults = 1
INVARIANTS OneAtATime
PROPERTIES CadenceKept RecurringKindRuns

SPECIFICATION FairSpec
CONSTANTS
    e1 = e1  e2 = e2  w1 = w1  w2 = w2
    Attempts <- TwoAttempts
    Endpoints <- TwoEndpoints
    EndpointOf <- OddEven
    BadPayload <- Last
    Workers <- TwoWorkers
    Serves <- OneKeyless
    HmacPermitted = TRUE
    Budget = 1
    MaxAttempts = 2
    Threshold = 2
    OpenDuration = 1
    Backoff <- ShortBackoff
    HooksLease = 1
    RequestTimeout = 1
    MaxFaults = 1
    MaxOps = 1
INVARIANTS OneOutcomePerDelivery CountedMeansSent
PROPERTIES BacklogDrains

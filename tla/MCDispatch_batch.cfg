SPECIFICATION Spec
CONSTANTS
    r1 = r1
    r2 = r2
    r3 = r3
    p1 = p1
    p2 = p2
    d1 = d1
    d2 = d2
    NoRoute = NoRoute
    Messages = {1, 2}
    Dispatchers = {d1}
    Receivers = {h1}
    Routes <- OneRoute
    Providers <- OneProvider
    ProviderOf <- RouteProvider
    Budget = 2
    MaxAttempts = 2
    MaxHops = 1
    DispatchLease = 1
    RetryBackoff = 1
    DlrBackoff = 0
    Validity = 4
    Delays <- Now
    UncertainGrace = 1
    MaxCrashes = 0
    DbFaults = FALSE
PROPERTIES ImplementsMessageLife

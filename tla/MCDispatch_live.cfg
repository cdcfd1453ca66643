SPECIFICATION FairSpec
CONSTANTS
    r1 = r1
    r2 = r2
    r3 = r3
    p1 = p1
    p2 = p2
    d1 = d1
    d2 = d2
    NoRoute = NoRoute
    Messages = {1}
    Dispatchers = {d1}
    Receivers = {h1, h2}
    Routes <- TwoRoutes
    Providers <- TwoProviders
    ProviderOf <- RouteProvider
    Budget = 1
    MaxAttempts = 2
    MaxHops = 1
    DispatchLease = 1
    RetryBackoff = 1
    DlrBackoff = 1
    Validity = 5
    Delays <- AnyTime
    UncertainGrace = 1
    MaxCrashes = 1
    DbFaults = FALSE
PROPERTIES HandedOverResolves

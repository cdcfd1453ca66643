SPECIFICATION MCSpec
CONSTANTS
  pa = pa pb = pb x1 = x1 x2 = x2 b1 = b1 b2 = b2 z1 = z1
  Unset = Unset
  RouteIds = {1, 2, 3}
  ProviderIds = {pa, pb}
  RouteTable <- MCRouteTable
  Candidate <- MCCandidate
  DrawUnits = 12
  Draws = {0, 3, 4, 11}
  Slots = {x1, x2}
  MaxHops = 2
  Threshold = 2
  OpenTime = 1
  Submissions = {b1, b2}
  Lifetime = 10
  Latency = 1
  MaxNow = 11
  Resets = FALSE
  Gsm7Single = 4
  Gsm7Concatenated = 3
  Ucs2Single = 3
  Ucs2Concatenated = 2
  MaxParts = 5
  MaxBody = 5
  Keys = {"+", "-", "x", "0", "2", "6", "8"}
  Regions = {"CM", "FR"}
  CodeOf <- MCCodeOf
  Idd <- MCIdd
  General <- MCGeneral
  Plan <- MCPlan
  PrefixRows <- MCPrefixRows
  MaxE164 = 4
  LegacyLen = 2
  MaxTyped = 6
  Integrators = {pa, pb}
  Strays = {z1}
  AudienceOf <- MCAudienceOf
  Templates <- MCTemplates
  Values = {"m", "a/b", "a%2Fb", "..", "(empty)"}
  Mutating <- MCMutating
  SendKeys = {"k"}
  ErrorStatuses = {409, 403}
  MaxServerKey = 3
  MaxCalls = 2
SYMMETRY Sym
INVARIANTS RoutesAreFair
INVARIANTS TextsAreReadRight RotationBreaksNobody CallsReachAndAreAnswered
INVARIANTS SubmissionsAreSafe
PROPERTY CircuitOpensWhenDue
CHECK_DEADLOCK FALSE

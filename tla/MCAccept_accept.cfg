SPECIFICATION MCSpec
CONSTANTS
  Nothing = Nothing
  s1 = s1 s2 = s2 h1 = h1 h2 = h2 p1 = p1 p2 = p2 d1 = d1 d2 = d2
  Sends = {s1, s2}
  Handlers = {h1, h2}
  Kinds <- MCKinds
  Quotas = {1, 2}
  MaxTries = 2
  MaxChanges = 1
  Events <- MCEvents
  Endpoints = {p1, p2}
  Drainers = {d1, d2}
  MaxFaults = 2
INVARIANTS QuotaOvershootBounded SentOnceAndToldSo NoEventLost
PROPERTIES OutboxEmpties
CHECK_DEADLOCK FALSE

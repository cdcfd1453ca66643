SPECIFICATION MCSpec
CONSTANTS
  None = None
  c1 = c1 u1 = u1 u2 = u2 p1 = p1 kc1 = kc1 ku1 = ku1 ku2 = ku2 q1 = q1 q2 = q2
  n1 = n1 a1 = a1 a2 = a2 a3 = a3
  l1 = l1 l2 = l2 v1 = v1 v2 = v2 h1 = h1 h2 = h2 e1 = e1 E1 = E1
  o1 = o1 s1 = s1 d1 = d1 d2 = d2
  NonceNames = {n1}
  Attempts = {a1, a2, a3}
  Window = 1
  MaxClock = 4
  NoRow = NoRow
  Clients = {c1}
  Users = {u1, u2}
  Persons = {p1}
  ClientKeys = {kc1}
  ConsoleKeys = {ku1, ku2}
  Requests = {q1, q2}
  StandingTtl = 2
  FetchTime = 1
  KeyLife = 2
  MaxEdits = 2
  UserRoles = {"viewer", "owner"}
  ScopeNames = {"pair"}
  Logins = {l1, l2}
  Visits = {v1, v2}
  People = {h1, h2}
  Spellings = {e1, E1}
  MailboxOf <- MCMailboxOf
  AddressesOf <- MCAddressesOf
  NoOne = NoOne
  Rotators = {o1}
  Servers = {s1}
  Doors = {d1, d2}
  MaxKeys = 2
  Overlap = 3
  Refresh = 1
  TokenTtl = 1
  MinReload = 2
  MaxKeyClock = 3
  Runners = {q1, q2}
  Paths = {e1}
  MaxSetupRuns = 3
  MaxConsoleEdits = 1
  NoRowYet = NoRowYet
  NoPassword = NoPassword
SYMMETRY Sym
INVARIANTS StandingFresh PairingKeysAreOperators
INVARIANTS SignedInAsSelf LiveTokensVerify SetupHolds
PROPERTIES AcceptedOnceInWindow OwnRaceIsNotAClash
CHECK_DEADLOCK FALSE

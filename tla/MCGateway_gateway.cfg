SPECIFICATION MCSpec
CONSTANTS
  t1 = t1 t2 = t2 t3 = t3 r1 = r1 w1 = w1 e1 = e1 E1 = E1 e2 = e2
  Calls = {t1, t2, t3}
  LookupKinds <- MCLookupKinds
  LookupBudget = 1
  Hour = 1
  MaxLookClock = 2
  Mutations = {t1, t2}
  Auditors = {r1}
  Viewers = {w1}
  AnchorLag = 2
  CommitTime = 1
  MaxAuditClock = 4
  NoAnchor = NoAnchor
  Posts = {t1, t2}
  Addresses = {e1, E1, e2}
  KeyOf <- MCKeyOf
  EmailBurst = 2
  EmailRefill = 1
  AllBurst = 3
  AllRefill = 1
  MaxVersion = 1
  Operators = {t1, t2}
  Deliveries = {r1}
  Audiences = {e1, e2}
  MaxRowVersion = 4
  Nothing = Nothing
  Tasks = {t1, t2}
  Kids = {e1}
  DocTtl = 1
  JwksTtl = 2
  MinRefresh = 1
  AnswerTime = 1
  MaxIdpClock = 3
  Nobody = Nobody
  Never = Never
  CallbackPosts = {t1, t2}
  Envelopes <- MCEnvelopes
  Certs = {e1, E1, e2}
  Served = {e1, e2}
  MaxCachedCerts = 1
  FetchInterval = 2
  MaxCallClock = 4
  Unfetched = Unfetched
  Migrators = {r1, w1}
  Embedded <- MCEmbedded
  MaxMigrateRuns = 2
  NoMigrator = NoMigrator
  Backers = {"sched", "drill", "manual"}
  Period = 1
  Retention = 4
  DrillRetention = 4
  MaxRun = 1
  MaxBackupClock = 6
  MaxCommands = 1
  MaxBackupFaults = 1
  Long = Long
  Documents <- MCDocuments
  Environments <- MCEnvironments
  GeneratedIds = {"appc"}
  MaxDocEdits = 1
SYMMETRY Sym
INVARIANTS LookupBudgetHolds AnchoredOnce ReceiverKeepsUp
INVARIANTS KnownKeysServe AnswersAreRight
INVARIANTS AppliedOnceInOrder HealthyMeansRecoverable BootHolds
PROPERTY NobodyCrowdedOut
CHECK_DEADLOCK FALSE

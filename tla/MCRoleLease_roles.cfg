SPECIFICATION FairSpec
CONSTANTS
    n1 = n1
    n2 = n2
    dispatch = dispatch
    scheduler = scheduler
    Free = Free
    Orphan = Orphan
    Nodes <- TwoNodes
    Roles <- TwoRoles
    Keys <- TwoKeys
    KeyOf <- RoleKey
    MaxFaults = 3
    SessionsLost = TRUE
INVARIANTS ExclusiveWhileSessionLives NoLeakedLock
PROPERTIES RoleServedAgain

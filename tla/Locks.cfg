SPECIFICATION LocksSpec
CONSTANTS
    a1 = a1
    a2 = a2
    k1 = k1
    k2 = k2
    p1 = p1
    p2 = p2
    Keys = {k1, k2}
    PoolAccounts = {a1, a2}
    Pools = {p1, p2}
    Txs = {t1, t2}
    NoAccount = NoAccount
    NoTx = NoTx
    Limit = 1
    PoolOf <- PoolOfKey
    Priority <- PriorityInPool
    RowOrder <- Ids
    Faults = 1
    Attempts = {s1, s2, s3}
    Users = {u1, u2}
    Address = Address
    NoAttempt = NoAttempt
    FailureLimit = 1
    Window = 1
    MaxClock = 1
    Callers = {c1, c2, c3}
    NoEntry = 0
    MaxExchanges = 6
    Listers = {h1, h2}
    Sources = {"s1", "s2", "s3"}
    OwnerOf <- Owners
    ModelsOf <- Catalogues
    Slots = 2
    ToolIndexes = {0, 1}
    CustomTools = {1}
    NameParts = 2
    MaxChunks = 4
INVARIANTS
    AssignSafe LoginSafe RetryUsesAnotherToken OwnersIndependentOfOrder StreamFaithful
PROPERTIES
    ImplementsKeyBindings NoLoginWhileBlocked NobodyWaitsForever
CHECK_DEADLOCK FALSE

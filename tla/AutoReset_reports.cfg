SPECIFICATION Spec
CONSTANTS
    w1 = w1
    w2 = w2
    a1 = a1
    a2 = a2
    c1 = c1
    c2 = c2
    b1 = b1
    b2 = b2
    None = None
    CycleTimeout = 1
    BatchLease = 2
    RetryLease = 1
    Workers = {w1}
    Accounts = {a1, a2}
    Credits = {c1, c2}
    AccountOf <- TwoAccounts
    ExpiryRank <- Ranks
    Batches = {b1, b2}
    MaxClaims = 2
    BatchSize = 2
    GateSize = 1
    MaxEvents = 0
INVARIANTS
    ReportIsTrue
CHECK_DEADLOCK FALSE

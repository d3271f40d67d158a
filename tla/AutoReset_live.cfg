SPECIFICATION FairSpec
CONSTANTS
    w1 = w1
    w2 = w2
    a1 = a1
    a2 = a2
    c1 = c1
    c2 = c2
    b1 = b1
    b2 = b2
    None = None
    CycleTimeout = 1
    BatchLease = 2
    RetryLease = 1
    Workers = {w1}
    Accounts = {a1}
    Credits = {c1}
    AccountOf <- OneCredit
    ExpiryRank <- OneRank
    Batches = {b1}
    MaxClaims = 2
    BatchSize = 1
    GateSize = 2
    MaxEvents = 2
PROPERTIES
    ResetsProgress
CHECK_DEADLOCK FALSE

SPECIFICATION ServingSpec
CONSTANTS
    Accounts = {a1}
    Providers = {"codex"}
    Workers = {w1, w2}
    NoTime = NoTime
    UnhealthyAfter = 2
    CheckInterval = 3
    MaxCooldown = 1
    Batch = 2
    Gate = 1
    CheckTime = 1
    ClaimTime = 3
    ActivityTTL = 1
    KeepOrders = FALSE
    MaxInFlight = 1
    Reqs = {b1, b2}
    Sizes = {3, 4}
    Chunk = 2
    MaxInt = 20
    DefaultLimits <- Limits
    MaxChoices = {1}
    InflightChoices = {4}
    MaxAttempts = 1
    ResponsesCopies = 2
    ChatCopies = 4
    CompactCopies = 8
    Gateways = {g1, g2}
    RequestLimit = 2
    Skew = 1
    MaxMinute = 3
    MaxRequests = 4
    Refreshers = {f1, f2}
    Processes = {p1, p2}
    NoRefresher = NoRefresher
    MaxRefreshes = 4
    MaxLost = 1
    States = {s1, s2}
    Callbacks = {k1, k2, k3}
    MaxGoogle = 1
    Notifiers = {n1, n2}
    Stride = 600
    LastDay = 2
    MaxDelay = 59
    Items = {0, 1}
    MaxText = 2
    Candidates <- Shapes
    MaxCandidates = 3
    Margin = 5
    MaxAge = 15
    Pollers = {o1, o2}
    BillingKeys = {x1, x2}
    NoKey = NoKey
    RefreshInterval = 3
    RetryAfter = {0, 4}
    MaxMinutes = 4
SYMMETRY Symmetry
INVARIANTS
    AccountSafe BudgetIsExact WindowWithinLimit CredentialUsable CodeExchangedOnce
    NoticeIsTrue ScheduleSafe ChatFaithful BillingSafe
PROPERTIES
    AloneIsAdmitted CredentialOnlyAdvances QuotaMovesPay
CHECK_DEADLOCK FALSE

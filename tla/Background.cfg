SPECIFICATION BackgroundSpec
CONSTANTS
    Accounts = {a1}
    Providers = {"codex", "copilot", "antigravity", "openai_compatible"}
    Workers = {w1}
    NoTime = NoTime
    UnhealthyAfter = 3
    CheckInterval = 3
    MaxCooldown = 2
    Batch = 2
    Gate = 1
    CheckTime = 1
    ClaimTime = 3
    ActivityTTL = 0
    KeepOrders = FALSE
    MaxInFlight = 1
    Logins = {l1, l2}
    MaxPendingLogins = 1
    Reporters = {r1, r2}
    Payloads = {d1, d2}
    NoPayload = NoPayload
    Lease = 2
    RetryDelay = 1
    SendTime = 1
    MaxReportAttempts = 3
    RedeemOutcomes = {"reset", "nothing"}
    Limits <- SomeLimits
    MaxTries = 2
    MaxPages = 2
    MaxNoise = 1
INVARIANTS
    DeviceLoginSafe ReportSafe OperationSafe
PROPERTIES
    Recovers EverythingSettles
CHECK_DEADLOCK FALSE

SPECIFICATION HealthSpec
CONSTANTS
    Accounts = {a1}
    Providers = {"codex"}
    Workers = {w1}
    NoTime = NoTime
    UnhealthyAfter = 2
    CheckInterval = 3
    MaxCooldown = 1
    Batch = 2
    Gate = 1
    CheckTime = 1
    ClaimTime = 3
    ActivityTTL = 0
    KeepOrders = TRUE
    MaxInFlight = 1
INVARIANT DisabledStaysDisabled
CHECK_DEADLOCK FALSE

SPECIFICATION Spec
CONSTANTS
    Streams = {d}
    DefaultStream = d
    Accounts = {a1, a2}
    Codex = {a1, a2}
    Earlier = {}
    NoAccount = NoAccount
    NoResponse = NoResponse
    MaxTurns = 3
    MaxOthers = 0
    MaxTurnsPerConnection = 2
    MaxTurnsPerAccount = 2
    MaxNamedStreams = 1
    MaxRememberedIDs = 2
    MaxProviderAttempts = 2
    ForceHTTPBridge = FALSE
INVARIANTS
    ContinuationStaysOnAccount
CHECK_DEADLOCK FALSE

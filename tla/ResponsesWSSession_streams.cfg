SPECIFICATION Spec
CONSTANTS
    Streams = {d, s}
    DefaultStream = d
    Accounts = {a1, a2}
    Codex = {a1, a2}
    Earlier = {}
    NoAccount = NoAccount
    NoResponse = NoResponse
    MaxTurns = 2
    MaxOthers = 0
    MaxTurnsPerConnection = 2
    MaxTurnsPerAccount = 2
    MaxNamedStreams = 1
    MaxRememberedIDs = 1
    MaxProviderAttempts = 2
    ForceHTTPBridge = FALSE
SYMMETRY AccountSymmetry
INVARIANTS
    SessionInv EventAttribution NoReplayAfterOutput NoStrandedTurn NothingLeaks
CHECK_DEADLOCK FALSE

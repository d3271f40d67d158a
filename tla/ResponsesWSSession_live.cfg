SPECIFICATION FairSpec
CONSTANTS
    Streams = {d}
    DefaultStream = d
    Accounts = {a1, a2}
    Codex = {a1}
    Earlier = {r0}
    NoAccount = NoAccount
    NoResponse = NoResponse
    MaxTurns = 1
    MaxOthers = 1
    MaxTurnsPerConnection = 2
    MaxTurnsPerAccount = 1
    MaxNamedStreams = 1
    MaxRememberedIDs = 1
    MaxProviderAttempts = 2
    ForceHTTPBridge = FALSE
INVARIANTS
    AccountTurnsExact
PROPERTIES
    SessionEnds
CHECK_DEADLOCK FALSE

SPECIFICATION Spec
CONSTANTS
    Conns = {c1, c2}
    Keys = {k1, k2}
    Accounts = {a1, a2}
    NoAccount = NoAccount
    MaxConnections = 2
    MaxConnectionsPerKey = 1
INVARIANTS
    HubSafe
PROPERTIES
    HubSettles
CHECK_DEADLOCK FALSE

\* Two nodes that bootstrap with each other.
CONSTANTS
    none = none
    undefined = undefined
    None = none
    Undefined = undefined
    Node <- MCNode
    StoredAt <- MCStoredAt
    ReadAt <- MCReadAt
    GatewayAt <- MCGatewayAt
    Given <- MCOther
    Listed <- MCOther
    Callers <- MCCallers
    MaxCalls = 2
    MaxRestarts = 1
SPECIFICATION Spec
INVARIANTS
    PingExchanges
PROPERTIES
    BootstrapEnds
    RequestsAreDropped
CHECK_DEADLOCK FALSE

\* Three nodes, two requests, and one restart, switching or cleaning of stored keys.
CONSTANTS
    Node <- MCThreeNodes
    None = None
    MaxRequests = 2
    MaxEvents = 1
SPECIFICATION Spec
INVARIANTS
    TwoPartyKeys
    KeysOfTheirNodeIfEnabled
    DropsAreStale
PROPERTIES
    FindValueExchanges
CHECK_DEADLOCK FALSE

\* A value that one node stored and another one looks up.
CONSTANTS
    ID_BITS = 2
    BIT_SIZE = 3
    K_BUCKET_SIZE = 2
    v1 = v1
    v2 = v2
    None = None
    Node <- MCThreeNodes
    Callers <- MCThreeNodes
    Value <- MCOneValue
    HashOf <- MCHashOne
    Traffic <- MCTraffic
    REPLICAS = 1
    QUERIED = 4
    ALPHA = 1
    MaxCalls = 2
    MaxRestarts = 0
SPECIFICATION Spec
INVARIANTS
    FindsStoredValue

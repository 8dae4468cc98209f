\* Three calls about two values, at once or in turn, on a node that keeps no copy
\* and asks one peer at a time.
CONSTANTS
    ID_BITS = 3
    BIT_SIZE = 4
    K_BUCKET_SIZE = 2
    v1 = v1
    v2 = v2
    None = None
    Node <- MCFarNodes
    Callers <- MCFarCaller
    Value <- MCValue
    HashOf <- MCFarHash
    Traffic <- MCFarTraffic
    REPLICAS = 1
    QUERIED = 4
    ALPHA = 1
    MaxCalls = 3
    MaxRestarts = 0
SPECIFICATION Spec
INVARIANTS
    TypeOK
    ValueIntegrity
    WriterFindsItsValue

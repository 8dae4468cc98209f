\* Two calls about a value of two replicas, and two restarts of any nodes meanwhile.
CONSTANTS
    ID_BITS = 3
    BIT_SIZE = 4
    K_BUCKET_SIZE = 2
    v1 = v1
    v2 = v2
    None = None
    Node <- MCFarNodes
    Callers <- MCFarCaller
    Value <- MCOneValue
    HashOf <- MCReplicaHash
    Traffic <- MCFarTraffic
    REPLICAS = 2
    QUERIED = 4
    ALPHA = 2
    MaxCalls = 2
    MaxRestarts = 2
SPECIFICATION Spec
INVARIANTS
    AckedReplicaHolds
    WriterFindsItsValue
PROPERTIES
    EveryCallReturns

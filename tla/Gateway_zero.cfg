\* The only gateway is node 0, which looks itself up.
CONSTANTS
    ID_BITS = 2
    BIT_SIZE = 3
    K_BUCKET_SIZE = 2
    A = A
    B = B
    Chain = {A}
    Node <- MCNode
    Serves <- MCServesZero
    Finders <- MCNode0
    Tables <- MCTables
    Primary <- MCPrimaryA
    Specific <- MCSpecific
    TextKeys = {}
    None = None
    Text = Text
    REPLICAS = 1
    QUERIED = 3
    MaxEvents = 2
SPECIFICATION Spec
INVARIANTS
    FindsStoredGateway
CHECK_DEADLOCK FALSE

\* Two gateways of one chain, lookups on one of them, keys that collide.
CONSTANTS
    ID_BITS = 2
    BIT_SIZE = 3
    K_BUCKET_SIZE = 2
    A = A
    B = B
    Chain = {A, B}
    Node <- MCNode
    Serves <- MCServes
    Finders <- MCNode1
    Tables <- MCTables
    Primary <- MCPrimary
    Specific <- MCSpecific
    TextKeys <- MCTextKeys
    None = None
    Text = Text
    REPLICAS = 1
    QUERIED = 3
    MaxEvents = 3
SPECIFICATION Spec
INVARIANTS
    TypeOK
    FoundIfHeld
PROPERTIES
    LookupReturns
    ImplementsRegistry
CHECK_DEADLOCK FALSE

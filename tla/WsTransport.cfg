\* Three nodes.
CONSTANTS
    Node <- MCNode
    Lists <- MCLists
    Unsteady <- MCUnsteady
    Senders <- MCSenders
    MaxDials = 3
    MaxSends = 1
    MaxEvents = 1
SPECIFICATION Spec
INVARIANTS
    TypeOK
    EntryIsOpen
    NeighborsHaveSockets
    HandledOnce
PROPERTIES
    BroadcastReaches
CHECK_DEADLOCK FALSE

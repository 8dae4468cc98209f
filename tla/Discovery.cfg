\* Overlapping rounds of node 4, and a restart of that node or of one that answers.
CONSTANTS
    ID_BITS = 3
    BIT_SIZE = 4
    K_BUCKET_SIZE = 2
    ALPHA = 2
    Node <- MCNode
    Discoverers <- MCDiscoverers
    Restarting <- MCRestarting
    Traffic <- MCTraffic
    MaxRounds = 2
    MaxRestarts = 1
SPECIFICATION Spec
INVARIANTS
    TypeOK
    RoundsAreShort
    NoHearsay
    ConnectedIsListed
    MeetBothWays
PROPERTIES
    RoundsEnd

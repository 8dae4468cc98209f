\* The table of the bootstrap node, which holds its own id from the start, and
\* findNode asked with every key and count of every reachable table.
CONSTANTS
    ID_BITS = 3
    BIT_SIZE = 4
    K_BUCKET_SIZE = 2
    self <- MCBootstrap
    Contacts <- MCBootstrapPeers
SPECIFICATION Spec
INVARIANTS
    TypeOK
    BucketsInv
    FullBucketIsForeign
    FindNodeComplete
    KeyBucketFirst
PROPERTIES
    NoEviction
    ImplementsKnownPeers

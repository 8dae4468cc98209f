\* One call; each datagram is lost or delivered up to three times.
CONSTANTS
    c1 = c1
    Call <- MCCall
    MaxCopies = 3
SPECIFICATION UdpSpec
INVARIANTS
    ResolvedMeansHandled
PROPERTIES
    ImplementsUdpCall
    EveryCallSettles
    OnlyEarlyAnswersAreLost
\* A node that sends nothing more is idle.
CHECK_DEADLOCK FALSE

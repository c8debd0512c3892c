CONSTANTS
    Nodes = {n1, n2, n3}
    MaxPeers = 1
    DialRatio = 1
    NoDial = {n3}
    maxActiveDialTasks = 1
    MaxStops = 1
SPECIFICATION FairSpec
CHECK_DEADLOCK FALSE
INVARIANTS
    PeersBounded
    DialLoopTicks
PROPERTIES
    HalfOpenEnds

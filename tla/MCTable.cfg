CONSTANTS
    n1 = n1
    n2 = n2
    n3 = n3
    Nodes = {n1, n2, n3}
    Live = {n1}
    Dead = {n3}
    nursery <- MCNursery
    bucketSize = 2
    maxReplacements = 1
    maxFindnodeFailures = 2
    MaxFails = 2
    MaxRequests = 2
    MaxNeighbors = 2
SPECIFICATION Spec
INVARIANTS
    BucketSound
PROPERTIES
    EvictsSilentOnly
    DeadLeave

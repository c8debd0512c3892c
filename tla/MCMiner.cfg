SPECIFICATION FairSpec
CONSTANT MaxStops = 2
INVARIANTS
    MinerSafe
    SteadySync
PROPERTIES
    DownloadsHaltMinerOnce
    MinesForGood

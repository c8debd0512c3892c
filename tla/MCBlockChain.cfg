SPECIFICATION Spec
CONSTANTS
  Nodes <- MCNodes
  Children <- MCChildren
  TopDown <- MCTopDown
  Blocks <- MCBlocks
  Genesis = "g"
  NoBlock = "none"
  Parent <- MCParent
  Difficulty <- MCDifficulty
  Time <- MCTime
  Root <- MCRoot
  Txs <- MCTxs
  Content <- MCContent
  Own = {"a2", "b1"}
  Bad = {"b3"}
  TriesInMemory = 2
  MaxTimeFuture = 1
  MaxTime = 2
  MaxBatch = 3
  MaxCap = 1
CHECK_DEADLOCK FALSE
INVARIANTS
    HeadSound
    StatesSound
PROPERTIES
    ImplementsCanonicalChain
    RipeBlocksLeave

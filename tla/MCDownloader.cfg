SPECIFICATION Spec
CONSTANTS
  Nodes <- MCNodes
  Children <- MCChildren
  TopDown <- MCTopDown
  Blocks <- MCBlocks
  Genesis = "g"
  NoBlock = "none"
  Parent <- MCParent
  Difficulty <- MCDifficulty
  Time <- MCTime
  Root <- MCRoot
  Txs = {}
  Content <- MCContent
  Own = {}
  Bad = {}
  TriesInMemory = 9
  MaxTimeFuture = 1
  MaxHeaderFetch = 3
  MaxBlockFetch = 2
  MaxCount = 2
  LocalBlocks = {"a1", "a2", "b1"}
  RemoteBlocks = {"a1", "a2", "a3", "a4", "b1", "b2"}
CHECK_DEADLOCK FALSE
INVARIANTS
    StoreSound
    QuietCallsEndWell
PROPERTIES
    EventuallySynced

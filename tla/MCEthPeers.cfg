SPECIFICATION Spec
CONSTANTS
  Nodes = {n1, n2}
  MaxTxs = 2
  Blocks = {b1}
  maxQueuedTxs = 1
  maxQueuedProps = 1
  maxQueuedAnns = 1
  minBroadcastPeers = 1
  Others = 1
  PackSize = 1
  MaxConns = 2
  MaxStops = 1
  MaxItems = 2
SYMMETRY NodeSymmetry
CHECK_DEADLOCK FALSE
INVARIANTS
    MarksHold
    PacksSound
    SameWhenQuiet
    HandshakesEnd

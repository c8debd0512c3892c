SPECIFICATION Spec
CONSTANTS
  Nibbles = {0, 1}
  None = None
  Addrs <- MCAddrs
  Key <- MCKey
  Alloc <- MCAlloc
  Txs <- MCTxs
  Pendings <- MCPendings
  From <- MCFrom
  To <- MCTo
  Nonce <- MCNonce
  Price <- MCPrice
  Gas <- MCGas
  Value <- MCValue
  Intrinsic <- MCIntrinsic
  Locals = {"b"}
  Coinbase = "m"
  TxGas = 2
  GasLimitBoundDivisor = 2
  MinGasLimit = 4
  GasFloor = 6
  GasCeil = 8
  GenesisGasLimit = 6
  MaxBlocks = 2
INVARIANTS
    ImportersAgree
    WorkIsReplay
    RootsCanonical
    BlocksSound

SPECIFICATION Spec
CONSTANTS
  Txs <- MCTxs
  Accounts = {"a", "b", "c"}
  From <- MCFrom
  Nonce <- MCNonce
  Price <- MCPrice
  Cost <- MCCost
  Blocks <- MCBlocks
  Genesis = "g"
  NoBlock = "none"
  Parent <- MCParent
  Number <- MCNumber
  Content <- MCContent
  StateNonce <- MCStateNonce
  Balance <- MCBalance
  Weight <- MCWeight
  Locals = {"b"}
  PriceLimit = 1
  PriceBump = 10
  AccountSlots = 1
  GlobalSlots = 4
  AccountQueue = 1
  GlobalQueue = 1
  Lifetime = 0
  MaxReorg = 1
  Messages <- MCMessages
  Prices = {1, 3}
  MaxItems = 8
  MaxTime = 1
INVARIANTS
    PoolConsistent
    PendingReady
PROPERTIES
    RunsKept
    ReorgReturns

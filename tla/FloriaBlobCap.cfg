SPECIFICATION Spec
CONSTANTS
  Account = {"user", "miner", "other", "zero"}
  NoAddress = "zero"
  Contracts = {"other"}
  Coinbase = "miner"
  OffChainSimulation = FALSE
  Blocks <- BlobBlocks
  Transactions <- BlobTransactions
  Balances <- LowBalances
  GasLefts = {9, 9000}
  Refunds = {0, 100000}
  ValueLimit = 262144
  NonceLimit = 4
  MaxTransactions = 2
INVARIANT
  EveryUnitIsAccountedFor
CHECK_DEADLOCK FALSE

SPECIFICATION SpecBoth
CONSTANTS
  Account = {"user", "miner", "other", "zero"}
  NoAddress = "zero"
  Contracts = {"other"}
  Coinbase = "miner"
  OffChainSimulation = FALSE
  Blocks <- AllBlocks
  Transactions <- AllTransactions
  Balances <- AllBalances
  GasLefts = {9, 9000}
  Refunds = {0, 100000}
  ValueLimit = 1048576
  NonceLimit = 4
  MaxTransactions = 2
INVARIANTS
  EveryUnitIsAccountedFor
  SetupIsPaid
  CallsExecutedOnce
  CreatesExecutedOnce
  OperaAgrees
  StateContractsAgree
PROPERTIES
  PurchaseIsCovered
CHECK_DEADLOCK FALSE

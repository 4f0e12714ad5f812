SPECIFICATION Spec
CONSTANTS
  Address <- RefundAddress
  Precompiled = {}
  StateContract = "zero"
  Driver = "zero"
  Sender = "user"
  NoAddress = "zero"
  Coinbase = "zero"
  Delegates = {}
  CreateAddress <- CreateByNonce
  Create2Address <- CreateBySalt
  Word = {0, 1, 2}
  ValueLimit = 8
  NonceLimit = 4
  MaxNonceIncrement = 2
  Amount = {0}
  Kinds = {"Call", "Create"}
  Effects = {"Sstore", "SelfDestruct"}
  DeployResults = {TRUE, FALSE}
  Revisions = {0, 1, 2}
  Worlds <- StorageWorlds
  MaxRecursiveDepth = 1
  MaxOps = 4
  MaxRefund = 1000000
PROPERTIES
  RejectedCodeEarnsNothing
CHECK_DEADLOCK FALSE

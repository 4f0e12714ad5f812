SPECIFICATION Spec
CONSTANTS
  Address <- NewAddress
  Precompiled = {}
  StateContract = "zero"
  Driver = "zero"
  Sender = "user"
  NoAddress = "zero"
  Coinbase = "zero"
  Delegates = {}
  CreateAddress <- CreateByNonce
  Create2Address <- CreateBySalt
  Word = {0, 1, 2}
  ValueLimit = 5
  NonceLimit = 4
  MaxNonceIncrement = 2
  Amount = {0, 1}
  Kinds = {"Call", "Create", "Create2"}
  Effects = {"Sstore", "SelfDestruct"}
  DeployResults = {TRUE, FALSE}
  Revisions = {0, 1, 2}
  Worlds <- StorageAndBalanceWorlds
  MaxRecursiveDepth = 3
  MaxOps = 3
  MaxRefund = 1000000
INVARIANTS
  ConstructionIsExclusive
PROPERTIES
  SupplyIsConserved
  RefundsAreJournalled
CHECK_DEADLOCK FALSE

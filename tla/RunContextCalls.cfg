SPECIFICATION Spec
CONSTANTS
  Address <- CallAddress
  Precompiled = {"pre"}
  StateContract = "sc"
  Driver = "driver"
  Sender = "user"
  NoAddress = "zero"
  Coinbase = "zero"
  Delegates = {"n1"}
  CreateAddress <- CreateByNonce
  Create2Address <- CreateBySalt
  Word = {0, 1}
  ValueLimit = 3
  NonceLimit = 4
  MaxNonceIncrement = 2
  Amount = {0, 1}
  Kinds = {"Call", "StaticCall", "CallCode", "DelegateCall", "Create"}
  Effects = {"Sstore", "Log", "SelfDestruct"}
  DeployResults = {TRUE, FALSE}
  Revisions = {6}
  Worlds <- EmptyStorageWorlds
  MaxRecursiveDepth = 2
  MaxOps = 3
  MaxRefund = 1000000
INVARIANTS
  BookkeepingIsExact
  StaticCallsChangeNothing
PROPERTIES
  FailureUndoes
CHECK_DEADLOCK FALSE

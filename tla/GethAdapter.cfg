SPECIFICATION Spec
CONSTANTS
  Contract = {c}
  Eoa = {e}
  Precompile = {p}
  Fresh = {n}
  NoAddress = none
  Slot = {s}
  Word = {0, 1, 2}
  Revisions = {0, 2, 5}
  refundShift = 1048576
  refundLimit = 16777216
  readOnlyBit = 64
  CallCreateDepth = 2
  GasLimit = 5
  MaxRefund = 1000000
INVARIANTS
  StaticCallsAreProtected
  NoGasLost
  RefundIsCovered
PROPERTIES
  RefundsAreJournalled
CHECK_DEADLOCK FALSE

SPECIFICATION Spec
CONSTANTS
  MaxUint64 = 11
  MaxAddress = 31
  MaxWord = 63
  MaxCodeSize = 4
  LastPush = 3
  MaxStackSize = 3
  BlockWindow = 2
  ForkLength = 3
  NewestSupportedRevision = 1
  MaxGasUsedByCt = 4
  MaxUint16 = 7
  ConstantValue = 1
  GasSample = 3
  Rule <- MCRule
  SolverBounds = {0, 1, 2, 5, 10, 11}
INVARIANTS
  GeneratedStatesSatisfyTheRule
  TestCasesHaveTheirValues
  RulesAreProbed
  IntervalSolverIsExact
CHECK_DEADLOCK FALSE

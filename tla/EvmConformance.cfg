SPECIFICATION Spec
CONSTANTS
  MaxStackSize = 8
  MaxMemoryExpansionSize = 2048
  MaxInitCodeSize = 12
  QuadCoeffDiv = 2
  Plenty = 64000
  Ctx <- TestCtx
  TestStates <- MCTestStates
INVARIANTS
  Conforms
  EvmzeroAgrees
  EvmrsAgrees
  SfvmAgrees
  SuperInstructionsAgree
  RulesDecideEveryState

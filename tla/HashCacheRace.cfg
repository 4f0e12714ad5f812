SPECIFICATION Spec
CONSTANTS
  Key = {zero, a, b}
  ZeroKey = zero
  Capacity = 2
  Thread = {t1, t2}
  NoThread = none
INVARIANT
  ReturnsTheHash

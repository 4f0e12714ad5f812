CONSTANTS
  Key = {z, a, b, c}
  Uncached = {u}
  ZeroKey = z
  Capacity = 3
  Thread = {t1, t2}
SPECIFICATION Spec
INVARIANTS
  PointersAreSafe
  CacheIsConsistent
  ReturnsTheValue
PROPERTY KeepsLruOrder

SPECIFICATION FairSpec
CONSTANTS
  Key = {zero, a, b, c}
  ZeroKey = zero
  Capacity = 3
  Thread = {t1, t2}
  NoThread = none
INVARIANTS
  IndexIsExact
  ListIsLinked
PROPERTIES
  EvictsLeastRecentlyUsed
  CallsReturn

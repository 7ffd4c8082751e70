CONSTANTS
  t1 = t1
  t2 = t2
  n1 = n1
  n2 = n2
  Invalid = Invalid
  Threads = {t1, t2}
  NativeIds = {n1, n2}
  Natives <- WithInvalid
  Counts <- SmallCounts
  IntMax = 7
  MaxSets = 2
  MaxCalls = 3
  MaxRaces = 1
SYMMETRY AnyOrder
SPECIFICATION SystemSpec
INVARIANT IdsAreTakenOnce
CHECK_DEADLOCK FALSE

CONSTANTS
  t1 = t1
  t2 = t2
  t3 = t3
  j1 = j1
  j2 = j2
  Names = {a}
  Threads = {t1, t2, t3}
  Jvms = {j1, j2}
  JvmOf <- TwoAndOne
  Tools = {c1, c2}
  Sizes = {2, 3}
  MaxLaps = 2
SPECIFICATION FairSpec
INVARIANT InStep
PROPERTIES PromptNeverCrashes TogetherTheyPass
CHECK_DEADLOCK FALSE

\* Threads register only themselves; a native id is reused.
CONSTANTS
  t1 = t1
  t2 = t2
  t3 = t3
  Threads <- ThreeThreads
  Early <- EarlyThread
  NativeIds <- TwoNatives
  Others <- None
  Truthful = FALSE
SPECIFICATION FairSpec
INVARIANT EntriesAreTrue
PROPERTIES LookupsAreRight SomeoneGetsIn
\* Every thread may be dead in the end.
CHECK_DEADLOCK FALSE

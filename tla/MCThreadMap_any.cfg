\* Threads register one another, with whatever id.
CONSTANTS
  t1 = t1
  t2 = t2
  t3 = t3
  Threads <- ThreeThreads
  Early <- EarlyThread
  NativeIds <- TwoNatives
  Others <- OneNative
  Truthful = FALSE
SPECIFICATION Spec
INVARIANTS TypeOK IndexIsFresh UniqueJavaIds
PROPERTY ImplementsRegistry
\* Every thread may be dead in the end.
CHECK_DEADLOCK FALSE

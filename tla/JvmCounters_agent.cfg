\* The agent loaded in every way, anything failing; two compiler threads.
CONSTANTS
  k1 = k1
  k2 = k2
  Compilers = {k1, k2}
  MaxCompilations = 3
  MaxCollections = 1
SPECIFICATION FairSpec
INVARIANTS StartupTypeOK GetIdBeforeEvents AllEventsOrNone LoadedMeansReady CountedOnce
PROPERTIES RegistrationSettled
\* The JVM ends.
CHECK_DEADLOCK FALSE

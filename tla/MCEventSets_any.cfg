\* Two event sets: every path of create, attach and destroy, and any order
\* of the measuring calls on the first one, time passing and PAPI failing.
SPECIFICATION Spec
CONSTANTS
  Counts = {1}
  EventArrays <- Names
  IdArrays <- OneId
  SampleIds = {7}
  Info <- MCInfo
  Attaching = {TRUE, FALSE}
  Client = "any"
  MaxPapiEvents = 2
  MaxSets = 2
  MaxIndex = 2
  MaxTime = 1
  MaxMeasurements = 1
INVARIANTS SnapshotsInOrder RowReportsItsCalls ValidIsLive SameComponent PapiColumns
PROPERTIES CreateDisturbsNothing
\* After an invalid memory access nothing more is defined.
CHECK_DEADLOCK FALSE

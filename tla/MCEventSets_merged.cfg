\* Samples push the end of one measurement out of a full buffer.
SPECIFICATION Spec
CONSTANTS
  Counts = {1, 2}
  EventArrays <- Wall
  IdArrays <- OneId
  SampleIds = {7}
  Info <- MCInfo
  Attaching = {FALSE}
  Client = "sampling"
  MaxPapiEvents = 2
  MaxSets = 1
  MaxIndex = 4
  MaxTime = 1
  MaxMeasurements = 3
INVARIANTS RowsAreMeasurements
\* After an invalid memory access nothing more is defined.
CHECK_DEADLOCK FALSE

\* One event set and a client that alternates start and stop.
SPECIFICATION FairSpec
CONSTANTS
  Counts = {1, 2}
  EventArrays <- OnePapi
  IdArrays <- PartlyInvalid
  SampleIds = {}
  Info <- MCInfo
  Attaching = {FALSE}
  Client = "alternating"
  MaxPapiEvents = 2
  MaxSets = 1
  MaxIndex = 4
  MaxTime = 1
  MaxMeasurements = 3
INVARIANTS TypeOK InBounds RowsAreMeasurements ResultsComplete RawReportsItsCalls AlternatingInv
PROPERTIES CallsReturn

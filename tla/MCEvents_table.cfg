CONSTANTS
  Presets <- TwoPresets
  Components <- TwoComponents
  Strangers = {"bogus"}
  MaxBad = 3
  MaxBadUsed = 0
  Kilo = 2
  Jumps = {3}
  MaxTime = 9
SPECIFICATION Spec
INVARIANTS ListIsComplete ListedMeansItself OldNamesAgree ValuesAreRight IntervalsNest
PROPERTY ListingEnds
CHECK_DEADLOCK FALSE

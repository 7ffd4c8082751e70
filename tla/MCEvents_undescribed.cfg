CONSTANTS
  Presets <- TwoPresets
  Components <- TwoComponents
  Strangers = {"bogus"}
  MaxBad = 3
  MaxBadUsed = 0
  Kilo = 2
  Jumps = {3}
  MaxTime = 9
SPECIFICATION Spec
INVARIANT ListedIsSupported
CHECK_DEADLOCK FALSE

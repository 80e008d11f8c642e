SPECIFICATION Spec
CONSTANTS
  Entry = {a, b}
  Torn = Torn
  MaxMeta = 3
  MaxLog = 3
  MaxKills = 1
  MaxPowerLosses = 1
  Mixed = TRUE
INVARIANT LogSurvives

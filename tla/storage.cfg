SPECIFICATION Spec
CONSTANTS
  Entry = {a, b}
  Torn = Torn
  MaxMeta = 3
  MaxLog = 3
  MaxKills = 3
  MaxPowerLosses = 3
  Mixed = FALSE
INVARIANTS LogSurvives MetaSurvives NeverRefuses WalMirrorsMemory

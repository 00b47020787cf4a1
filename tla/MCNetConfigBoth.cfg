CONSTANTS
  Configs <- MCConfigs
  MaxRows = 6
  MaxSessions = 3
  MaxRepeats = 1
  MaxCuts = 0
SPECIFICATION Spec
INVARIANT ExclusiveInFlash
CHECK_DEADLOCK FALSE

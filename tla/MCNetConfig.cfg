CONSTANTS
  Configs <- MCConfigs
  MaxRows = 6
  MaxSessions = 3
  MaxRepeats = 1
  MaxCuts = 2
SPECIFICATION Spec
INVARIANTS TypeOK ModbusAsSent INetAsSent
PROPERTIES ExclusiveWhenSaved
CHECK_DEADLOCK FALSE

CONSTANTS
  Configs <- MCConfigs
  PkgLimit = 3
  MaxComm = 8
  MaxGV = 4
  MaxSessions = 2
  MaxSends = 2
  MaxCuts = 2
  Capacity = 2
SPECIFICATION Spec
INVARIANTS TypeOK RunsWhatWasSent
PROPERTIES NoFalseRefusal KeptAcrossPowerCuts
CHECK_DEADLOCK FALSE

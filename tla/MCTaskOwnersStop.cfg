CONSTANTS
  NSlots = 4
  N = 2
  Configs <- MCConfigs
  INetModes <- MCTcp
SPECIFICATION Spec
PROPERTY StopKillsDebug

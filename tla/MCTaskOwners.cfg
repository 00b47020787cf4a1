CONSTANTS
  NSlots = 3
  N = 2
  Configs <- MCConfigs
  INetModes <- MCModes
SPECIFICATION Spec
INVARIANTS TypeOK OneSlotEach Held
PROPERTIES Installed StoppedByStudio ExclusiveAtEnd
CONSTRAINT Room

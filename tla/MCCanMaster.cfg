CONSTANTS
  Dicts <- MCDicts
  Values <- MCValues
  MaxBus = 2
  MaxFaults = 1
SPECIFICATION Spec
INVARIANTS TypeOK Repeated Written
PROPERTIES Configured Reaches BroughtBack

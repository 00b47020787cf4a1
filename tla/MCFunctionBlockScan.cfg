CONSTANTS
  MaxBlocks = 3
  MaxObjects = 4
  Graphs <- MCAll
SPECIFICATION FairSpec
INVARIANTS TypeOK OncePerScan Refreshed
PROPERTIES InputsFirst ScanEnds

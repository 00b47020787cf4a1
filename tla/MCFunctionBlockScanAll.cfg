CONSTANTS
  MaxBlocks = 3
  MaxObjects = 4
  Graphs <- MCBack
SPECIFICATION Spec
INVARIANT ScansAll

CONSTANTS
  PerType = 2
  MaxType = 1
  LoopType = 0
  MaxCounter = 2
  MaxCount = 1
  d1 = d1
  d2 = d2
  d3 = d3
  e1 = e1

  None = None
  Descs <- MCPair
  DescType <- MCType
  DebugDescs <- MCNoDebug
  DescRun <- MCRun
  DescTimer <- MCTimer
  DescCounter <- MCCounter
SPECIFICATION FairSpec
CONSTRAINT Intact
PROPERTY Served

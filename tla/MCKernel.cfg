CONSTANTS
  PerType = 2
  MaxType = 2
  LoopType = 0
  MaxCounter = 4
  MaxCount = 1
  d1 = d1
  d2 = d2
  d3 = d3
  e1 = e1

  None = None
  Descs <- MCAll
  DescType <- MCType
  DebugDescs <- MCDebug
  DescRun <- MCRun
  DescTimer <- MCTimer
  DescCounter <- MCCounter
SPECIFICATION Spec
INVARIANTS TypeOK RegisteredOnce CountExact SlotInRange NoTwins CallDue TickFair
CONSTRAINT Intact
PROPERTY WaitKept

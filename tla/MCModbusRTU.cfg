CONSTANTS
  Tables <- MCTables
  Values = {0, 1}
  MaxBurst = 5
  PerByte = 2
  Unread = 0
SPECIFICATION Spec
INVARIANTS TypeOK Believed ReadOwn
PROPERTIES TxEnds Settles

CONSTANTS
  Tables <- MCCoils
  Values = {0, 1}
  MaxBurst = 5
  PerByte = 2
  Unread = 0
SPECIFICATION Spec
PROPERTY AnswerEntered

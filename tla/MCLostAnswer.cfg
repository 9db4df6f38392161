CONSTANTS
  Programs <- MCFilePrograms
  Round = 10
  Lines = {0, 1}
  Signs = {128, 32768}
  In <- MCIn
SPECIFICATION Spec
INVARIANT AnswersReachTheCaller
CHECK_DEADLOCK FALSE

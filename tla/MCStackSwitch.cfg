CONSTANTS
  Programs <- MCSwitchPrograms
  Round = 10
  Lines = {0, 1}
  Signs = {128, 32768}
  In <- MCIn
SPECIFICATION Spec
PROPERTY StackSwitchesAreWhole
CHECK_DEADLOCK FALSE

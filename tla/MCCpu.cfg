CONSTANTS
  Programs <- MCPrograms
  Round = 10
  Lines = {0, 1}
  Signs = {128, 32768}
  In <- MCIn
SPECIFICATION Spec
INVARIANTS TypeOK InterruptsTransparent
PROPERTIES ImplementsFlagMachine ProgramsEnd
CHECK_DEADLOCK FALSE

SPECIFICATION Spec
CONSTANTS
  DeviceIrqs = {1, 3, 8}
  MaskedIrqs = {3}
  CommandWrites <- MCCommandWrites
  DataWrites <- MCDataWrites
INVARIANTS
  TypeOK
  CheckMatchesLines
  ActiveIsInService
  ActiveOutranksInterrupted
PROPERTIES
  StartsMostUrgent

SPECIFICATION MCSpec
CONSTANTS
  Counters = {0, 2}
  Radix = 2
  TicksPerSecond = 3
  PitTickRate = 2
  TickModulus = 256
  FirstCount <- SmallFirstCount
  Modes = {0, 2, 3}
  MaxCommands = 4
  Horizon = 6
INVARIANTS
  TypeOK
  TimerAlive
  RateGeneratorKeepsPhase
  StatusKept

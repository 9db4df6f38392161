SPECIFICATION LoopSpec
CONSTANTS
  Callback = {device, replay}
  CbData = {data}
  NoCallback = nocb
  NoData = nodata
  MaxEvents = 3
  Delays = {0, 1, 2}
  ChargeDiffs = {1}
  TickMarshalArg <- NoOption
  PeriodArg <- NoOption
  Horizon = 0
  MaxAdds = 0
  ReplayCallback = replay
  Records = 3
PROPERTIES
  EveryEventLeavesQueue

CONSTANTS
  Connections = {y1}
  MaxReadings = 2
  LastTick = 1
  Minute = 2
SPECIFICATION MetricsSpec
INVARIANT MinuteIsAggregated
CHECK_DEADLOCK FALSE

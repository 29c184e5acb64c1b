SPECIFICATION SysTickSpec
CONSTANTS
  Timeout = {a, b}
  MaxTicks = 4
  LoadValue = 4
  MaxCount = 15
  Threshold = 2
INVARIANT QueueMatchesDeltas

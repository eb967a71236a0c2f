\* Two windowed seats, a run of six ticks, one key; the relay drops nothing but what a failure loses.
SPECIFICATION NetplaySpec
CONSTANTS
  Move = Move
  MaxSteps = 6
  InputDelay <- DelayEven
  Feed <- FeedMove
  EndCommands <- NoEnd
  MaxRetries = 2
  MaxFed = 6
INVARIANT NoPressIsLost
CHECK_DEADLOCK FALSE

CONSTANTS
  h1 = h1
  h2 = h2
  l1 = l1
  l2 = l2
  Main = Main
  Free = Free
  Handler <- MCHandler
  Loop <- MCLoop
  Counts <- MCCounts
  Intervals <- MCIntervals
  MaxCount = 2
  MinInterval = 1
  MaxInterval = 1
  InitialCount = 2
  InitialInterval = 1
  MaxCalls = 2
  NumShards = 2
  shardIndex <- MCShardIndex
  MaxClock = 2
SPECIFICATION LiveControlSpec
INVARIANT
  ControlTypeOK
PROPERTIES
  NoStaleOverwrite
  PausedIsFrozen
  PopulationComplete

CONSTANTS
  h1 = h1
  h2 = h2
  l1 = l1
  l2 = l2
  Main = Main
  Free = Free
  Handler <- MCHandler
  Loop <- MCLoop
  Counts <- MCCounts
  Intervals <- MCIntervals
  MaxCount = 2
  MinInterval = 1
  MaxInterval = 2
  InitialCount = 1
  InitialInterval = 1
  MaxCalls = 2
SPECIFICATION LiveSpec
INVARIANTS
  TypeOK
  OneLoop
  ActiveIsTrue
  NoDoubleClose
  NoLostInterval
PROPERTIES
  EveryCallReturns
  KeepsTicking

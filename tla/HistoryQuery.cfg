CONSTANTS
  Blank = Blank
  Nil = Nil
  Capacity = 2
  Point <- MCPoint
  Limits <- MCLimits
  Resolution = 2
  Starts <- MCStarts
  Ends <- MCEnds
  DefaultSpan = 4
  DefaultPoints = 2
  MaxPoints = 3
SPECIFICATION QuerySpec
INVARIANTS
  QueryTypeOK
  LatestEndsTrack
  AnswerInOrder
PROPERTIES
  ImplementsBoundedHistory
  AnswerKeepsEnds
  AnswerIsComplete

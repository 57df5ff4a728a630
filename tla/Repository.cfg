CONSTANTS
  BatchSize = 2
  QueueSize = 1
  RetentionDays = 1
  MaxSnapshot = 2
  MaxRows = 3
  MaxDay = 4
SPECIFICATION Spec
INVARIANTS
  TypeOK
  RowsAccounted
  RowsHavePartition
PROPERTIES
  RetentionKept
  CloseReturns

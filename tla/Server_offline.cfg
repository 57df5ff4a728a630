CONSTANTS
  Publisher = "nil pointer"
  SampleInterval = 2
  Steps = {1}
  MaxTicks = 3
  ConnectAttempts = 2
  MaxReconnects = 2
SPECIFICATION LiveServerSpec
INVARIANT
  KeepsRunning

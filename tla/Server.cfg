CONSTANTS
  Publisher = "connected"
  SampleInterval = 2
  Steps = {1}
  MaxTicks = 3
  ConnectAttempts = 2
  MaxReconnects = 2
SPECIFICATION LiveServerSpec
INVARIANTS
  ServerTypeOK
  EverySnapshotAccounted
  NoUseAfterClose
PROPERTIES
  ImplementsMailbox
  NewestGetsOut
  ServerStops

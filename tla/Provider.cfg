\* The provider stops once it is disposed.
CHECK_DEADLOCK FALSE
CONSTANTS
  Servers = {a, b}
  Stalled = {}
  Drones = {x, y}
  None = None
  MaxGeneration = 3
SPECIFICATION Spec
INVARIANTS
  TypeOK
  OnlyConfiguredServer
  NoLeakedStream
  HistoryMatchesSelection
PROPERTIES
  ServerIsConnected

\* Server a may fall silent: the first URL configured, then changed to b.
CHECK_DEADLOCK FALSE
CONSTANTS
  Servers = {a, b}
  Stalled = {a}
  Drones = {x}
  None = None
  MaxGeneration = 2
SPECIFICATION Spec
PROPERTIES
  ServerIsConnected

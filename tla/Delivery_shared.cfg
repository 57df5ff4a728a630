\* a is an app behind ngrok, b one that is not.
CONSTANTS
  Conn = {a, b}
  Filtering = {}
  Limited = {a}
  Chunked = {a, b}
  Wanted = {}
  StreamLimit = 2
  PartSize = 2
  MaxDrones = 3
  MaxSequence = 1
SPECIFICATION Spec
PROPERTIES
  ShowsWholeSnapshots

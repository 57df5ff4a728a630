CONSTANTS
  Conn = {a, b}
  Filtering = {a}
  Limited = {a}
  Chunked = {b}
  Wanted = {1, 2, 3}
  StreamLimit = 2
  PartSize = 2
  MaxDrones = 3
  MaxSequence = 2
SPECIFICATION Spec
PROPERTIES
  ShowsWholeSnapshots

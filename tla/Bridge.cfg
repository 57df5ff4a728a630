CONSTANTS
  reader = reader
  stalled = stalled
  NoCall = NoCall
  Call <- MCCall
  Stalled <- MCStalled
  MaxSequence = 4
SPECIFICATION Spec
INVARIANTS
  TypeOK
  NoSendOnClosed
  LatestReachesChannel
PROPERTIES
  ImplementsMailboxes
  ReaderCatchesUp
  LeavingEnds

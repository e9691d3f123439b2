SPECIFICATION FairSpec
CONSTANTS
  MaxData = 2
  MaxWrite = 2
  SndBuf = 1
  Faults = {}
INVARIANT
  WaitingWriterIsPolled
PROPERTIES
  WriteReturns
  ConnectionEnds

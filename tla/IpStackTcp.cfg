SPECIFICATION Spec
CONSTANTS
  MaxData = 3
  MaxChain = 2
  MaxWrite = 2
  Cap = 2
  Faults = {"reset", "write", "memory", "handle", "timer", "close"}
INVARIANTS
  TypeOK
  StreamKept
  HeldNotFreed
  DataBlocksOnlyAfterAbort
  SourceKept
PROPERTIES
  ReaderStream
CHECK_DEADLOCK FALSE

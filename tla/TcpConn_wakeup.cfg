SPECIFICATION FairSpec
CONSTANTS
  MaxData = 1
  MaxWrite = 1
  SndBuf = 1
  Faults = {"rst"}
CHECK_DEADLOCK FALSE
PROPERTY
  WriteReturns

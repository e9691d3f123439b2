SPECIFICATION ReaderFairSpec
CONSTANTS
  MaxData = 1
  MaxWrite = 1
  SndBuf = 1
  Faults = {"interrupt", "rst", "timeout"}
PROPERTY
  LwipReleased
CHECK_DEADLOCK FALSE

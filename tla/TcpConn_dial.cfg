SPECIFICATION ReaderFairSpec
CONSTANTS
  MaxData = 1
  MaxWrite = 1
  SndBuf = 1
  Faults = {"dial"}
PROPERTY
  LwipReleased
CHECK_DEADLOCK FALSE

SPECIFICATION Spec
CONSTANTS
  MaxData = 2
  MaxWrite = 2
  SndBuf = 1
  Faults = {"dial", "rst", "timeout", "interrupt", "stop", "overtake"}
INVARIANTS
  TypeOK
  NoNilAssert
  CallbackTargetReachable
  LwipContinuesOnLivePcb
  NoUplinkLoss
  RxShutOnlyByReader
  ClosingHasNoUnreadData
PROPERTIES
  UplinkRefinement
  DownlinkRefinement
CHECK_DEADLOCK FALSE

SPECIFICATION FairSpec
CONSTANTS
  MaxData = 2
  Window = 1
  Styles = {"socks", "redirect"}
  Faults = {"reset", "rst", "plain", "reuse"}
INVARIANTS
  TypeOK
  SleepsOnlyAfterInterrupt
PROPERTIES
  StreamsRelayed
  RelayEnds
CHECK_DEADLOCK FALSE

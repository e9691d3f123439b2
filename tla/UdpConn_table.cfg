SPECIFICATION Spec
CONSTANTS
  MaxConns = 1
  MaxPackets = 1
  Cap = 1
  HasControl = TRUE
  ClosesOnError = TRUE
  Faults = {"connect"}
INVARIANTS
  ClosedLeavesTable

SPECIFICATION Spec
CONSTANTS
  MaxConns = 2
  MaxPackets = 3
  Cap = 2
  HasControl = FALSE
  ClosesOnError = TRUE
  Faults = {"connect", "send", "end", "stop"}
INVARIANTS
  TypeOK
  ReadyBeforeUse
  HandedOnce
  EarlyInOrder

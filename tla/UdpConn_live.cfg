SPECIFICATION FairSpec
CONSTANTS
  MaxConns = 1
  MaxPackets = 3
  Cap = 2
  HasControl = TRUE
  ClosesOnError = TRUE
  Faults = {"connect", "end", "stop"}
INVARIANT
  SocketsWatched
PROPERTIES
  RxReturns
  EarlyDelivered

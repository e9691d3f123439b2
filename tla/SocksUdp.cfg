SPECIFICATION FairSpec
CONSTANTS
  IPv4len = 1
  IPv6len = 2
  Size = 9
  Marks = {7, 8}
  Faults = {"step", "listen", "server", "send", "odd"}
INVARIANTS
  TypeOK
  HandedIsReceived
  SocketsFound
PROPERTY
  AssociationEnds
CHECK_DEADLOCK FALSE

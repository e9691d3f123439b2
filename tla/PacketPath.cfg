SPECIFICATION Spec
CONSTANTS
  Udp4 = {1, 2}
  Udp6 = {3}
  Tcp = {4}
  Short = 2
  Long = 3
  Marks = {1}
  Fetchers = {f1}
  Buffers = {b1, b2}
  BufSize = 3
  FetchSize = 4
  MaxPbufs = 2
  MaxAge = 1
  Cap = 1
INVARIANTS
  TypeOK
  DeliveredIntact
  FragmentsKept
  ReassBounded
  SentIntact
PROPERTY
  EntriesAge

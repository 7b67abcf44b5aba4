\* Liveness: two peers served together, packets with data, descriptors that suffice.
SPECIFICATION FairSpec
CONSTANTS
  Conns = {c1, c2}
  Packets <- LastPackets
  Strays <- None
  Data = Data
  MAX_CONNECTIONS = 2
  CONNECT_QUEUE = 2
  FdLimit = 7
  Inherited <- StdOpen
  MallocMayFail = FALSE
  ShortReads = FALSE
  MaxSent = 1
INVARIANTS
  ClosedNotServed
PROPERTIES
  HangUpSeen
  EscapeObeyed
  NobodyForgotten
CHECK_DEADLOCK FALSE

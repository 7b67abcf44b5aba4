\* Expected to be violated: a write to a connection that was reset kills the server.
SPECIFICATION Spec
CONSTANTS
  Conns = {c1}
  Packets <- AllPackets
  Strays <- None
  Data = Data
  MAX_CONNECTIONS = 1
  CONNECT_QUEUE = 1
  FdLimit = 5
  Inherited <- StdOpen
  MallocMayFail = FALSE
  ShortReads = FALSE
  MaxSent = 2
INVARIANTS
  SurvivesPeers
CHECK_DEADLOCK FALSE

\* Expected to be violated: SIGINT that arrives between the check of the flag and select is slept on.
SPECIFICATION FairSpec
CONSTANTS
  Conns = {c1}
  Packets <- AllPackets
  Strays <- None
  Data = Data
  MAX_CONNECTIONS = 1
  CONNECT_QUEUE = 1
  FdLimit = 5
  Inherited <- StdOpen
  MallocMayFail = FALSE
  ShortReads = FALSE
  MaxSent = 1
PROPERTIES
  SigintStops
CHECK_DEADLOCK FALSE

\* Safety of process_request: three packets of any kind on one connection, whatever fails.
SPECIFICATION Spec
CONSTANTS
  Conns = {c1}
  Packets <- MorePackets
  Strays <- AnyBytes
  Data = Data
  MAX_CONNECTIONS = 1
  CONNECT_QUEUE = 1
  FdLimit = 5
  Inherited <- StdOpen
  MallocMayFail = TRUE
  ShortReads = TRUE
  MaxSent = 3
INVARIANTS
  InSync
PROPERTIES
  ImplementsServing
CHECK_DEADLOCK FALSE

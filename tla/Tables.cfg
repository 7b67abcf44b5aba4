\* The event loop: three peers for two slots, with too few descriptors or enough.
SPECIFICATION Spec
CONSTANTS
  Conns = {c1, c2, c3}
  Packets <- TextOnly
  Strays <- None
  Data = Data
  MAX_CONNECTIONS = 2
  CONNECT_QUEUE = 2
  FdLimit = 6
  Inherited <- MayClose
  MallocMayFail = FALSE
  ShortReads = FALSE
  MaxSent = 1
SYMMETRY ConnSymmetry
INVARIANTS
  TypeOK
  DescriptorsAgree
  SnapshotFresh
  OnePlace
PROPERTIES
  ImplementsServing
CHECK_DEADLOCK FALSE

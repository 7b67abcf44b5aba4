SPECIFICATION Spec
CONSTANTS
  Programs = {"chopserver", "chopclient"}
  MAX_CONNECTIONS = 2
  MaxBuffers = 2
  MaxFaults = 3
INVARIANTS
  PointersSound
  LossIsFailure
CHECK_DEADLOCK FALSE

SPECIFICATION Spec
CONSTANTS
  Messages <- Nested
  MaxMessages = 3
  Window = 2
  Cuts = "anywhere"
  Callers = {"chopserver", "chopclient"}
  MayFail = TRUE
INVARIANTS
  TypeOK
  InStep
CHECK_DEADLOCK FALSE

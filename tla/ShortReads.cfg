SPECIFICATION Spec
CONSTANTS
  Messages <- Sized
  MaxMessages = 2
  Window = 2
  Cuts = "anywhere"
  Callers = {"chopserver"}
  MayFail = FALSE
INVARIANTS
  HeadersAreSent
CHECK_DEADLOCK FALSE

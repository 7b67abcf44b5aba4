SPECIFICATION Spec
CONSTANTS
  Messages <- Sleepy
  MaxMessages = 2
  Window = 2
  Cuts = "writes"
  Callers = {"chopserver"}
  MayFail = FALSE
INVARIANTS
  SleepersOnlyWake
CHECK_DEADLOCK FALSE

SPECIFICATION FairSpec
CONSTANTS
  Messages <- Flat
  MaxMessages = 2
  Window = 3
  Cuts = "anywhere"
  Callers = {"chopserver", "chopclient"}
  MayFail = TRUE
INVARIANTS
  PrintsWhatWasSent
  EscapeCloses
  ClientKeepsStep
PROPERTIES
  HangUpEnds
CHECK_DEADLOCK FALSE

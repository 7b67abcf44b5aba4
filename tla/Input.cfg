SPECIFICATION Spec
CONSTANTS
  Letters = {"a", "b"}
  Commands <- OneAndTwo
  BUF = 4
  MaxTyped = 7
  Kinds = {"terminal", "pipe"}
INVARIANTS
  LinesArrive
  NothingMadeUp
CHECK_DEADLOCK FALSE

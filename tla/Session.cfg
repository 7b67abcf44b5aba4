SPECIFICATION FairSpec
CONSTANTS
  Commands <- AllCommands
  Data = Data
  Room <- Room21
INVARIANTS
  TypeOK
  Understood
  BacklogBounded
  FlagsAgree
PROPERTIES
  ImplementsDialogue
  ExitEnds
  WritesEnd
CHECK_DEADLOCK FALSE

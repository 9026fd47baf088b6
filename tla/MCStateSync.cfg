\* Two runs of every command and two recipes under one name.
SPECIFICATION FairSpec
CONSTANTS
  Runs = {r1, r2}
  Names = {n1}
  Params = {standard, migration}
  Gates = {g1, g2}
  NoCR = NoCR
  NoName = NoName
  CommandLines <- AllCommands
INVARIANTS
  TypeOK
  TerminalIsNew
  GateKillsStaleStatus
  CompleteIsHonoured
  SameObjectSameRecipe
PROPERTY RunsEnd
\* Every run ends and the controller comes to rest.
CHECK_DEADLOCK FALSE

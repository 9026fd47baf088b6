\* Two nodes one after the other under the name, two status updates.
SPECIFICATION Spec
CONSTANTS
  Horizon = 6
  MaxNodes = 2
  MaxWrites = 2
  Timeout = 1
  Untils = {"Running", "Failed", "caught-up", "Ready"}
  AwaitTimeout = 3
  AttemptTimeout = 2
  BackOff = 1
INVARIANTS
  TypeOK
  ReadyInOrder
  ResyncVerified
  CommandsEndInTime
  ReachableIsFound
\* The commands end.
CHECK_DEADLOCK FALSE

\* Every flag, two --set expressions, every later layer.
SPECIFICATION Spec
CONSTANTS
  ArgSets <- MCArgSets
  SetExprs <- MCSetExprs
  MaxSets = 2
  Overrides <- MCOverrides
  ConfigFlags <- MCConfigFlags
  Quantities <- MCQuantities
  MaxConfigValues = 2
INVARIANTS
  NothingSmuggled
  IdentityHolds
  ConfigValuesMerged
  LastSetWins
PROPERTY SetIsLocal
\* A rendering ends.
CHECK_DEADLOCK FALSE

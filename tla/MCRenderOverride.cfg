\* A --set of a key that an --override writes too, refuted.
SPECIFICATION Spec
CONSTANTS
  ArgSets <- MCNodes
  SetExprs <- MCSetExprs
  MaxSets = 2
  Overrides <- MCOverrides
  ConfigFlags <- MCConfigFlags
  Quantities <- MCQuantities
  MaxConfigValues = 2
INVARIANT SetBeatsOverride
\* A rendering ends.
CHECK_DEADLOCK FALSE

\* Complete of another run's recipe, refuted.
SPECIFICATION Spec
CONSTANTS
  Runs = {r1, r2, r3}
  Names = {n1}
  Params = {standard, migration}
  Gates = {g1}
  NoCR = NoCR
  NoName = NoName
  CommandLines <- RaceCommands
SYMMETRY RunSymmetry
INVARIANT CompletedThisRecipe
\* Every run ends and the controller comes to rest.
CHECK_DEADLOCK FALSE

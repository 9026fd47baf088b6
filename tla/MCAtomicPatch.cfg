\* Three patch commands on one file, with failures, kills and power losses.
SPECIFICATION Spec
CONSTANTS
  Patchers = {p1, p2, p3}
SYMMETRY PatcherSymmetry
INVARIANTS
  TypeOK
  WholeDocuments
  PermissionsHold
  OnlyOverlapsLose
PROPERTY ImplementsAtomicFile
\* Every command ends.
CHECK_DEADLOCK FALSE

\* Three blocks, every divergence of receipts and state, every failed layer.
SPECIFICATION Spec
CONSTANTS
  Top = 3
  Blocks <- MCBlocks
  Shadows <- MCShadows
INVARIANTS
  MigrationFailsClosed
  NothingEscapes
  NoFalseAlarm
\* The scan ends.
CHECK_DEADLOCK FALSE

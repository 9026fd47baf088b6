\* The transactions behind a LastResultsHash mismatch, refuted.
SPECIFICATION Spec
CONSTANTS
  Top = 2
  Blocks <- MCBlocks
  Shadows <- MCShadows
INVARIANT AttributionIsAccurate
\* The scan ends.
CHECK_DEADLOCK FALSE

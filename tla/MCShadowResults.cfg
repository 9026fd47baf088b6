\* Five keys, two to an answer; three records, every flush, every failure.
SPECIFICATION FairResults
CONSTANTS
  N = 3
  K = 5
  Content <- MCContent
  EmitKey = 5
  PageSize = 2
INVARIANTS
  ResultsTypeOK
  SealMatches
  ListingIsFaithful
  BlocksCover
PROPERTIES
  ImplementsAtomicPublish
  Returns
\* The emit returns, the commands end.
CHECK_DEADLOCK FALSE

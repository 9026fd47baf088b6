\* Two attempts of a Job against one sidecar.
SPECIFICATION FairSpec
CONSTANTS
  MaxAttempts = 2
  Horizon = 7
  UploadDeadline = 2
  RequestTimeout = 1
  PollBound = 4
INVARIANTS
  OkIsOwnUpload
  PollBoundIsLast
  NoRedundantUpload
PROPERTY AttemptsEnd
\* The attempts are used up and the clock stops at its horizon.
CHECK_DEADLOCK FALSE

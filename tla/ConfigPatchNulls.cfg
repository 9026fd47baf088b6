\* A null that is written, refuted.
SPECIFICATION Spec
CONSTANTS
  Keys = {"evm", "p2p", "custom"}
  AppKeys = {"evm"}
  ConfigKeys = {"p2p"}
  ClientKeys = {}
  InnerKeys = {"inner"}
  Scalars = {1, 2}
INVARIANT NullsAreRemoved
\* One patch.
CHECK_DEADLOCK FALSE

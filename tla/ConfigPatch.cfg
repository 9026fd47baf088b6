\* A key of two of the targets and an unknown one; every document and patch.
SPECIFICATION Spec
CONSTANTS
  Keys = {"evm", "p2p", "custom"}
  AppKeys = {"evm"}
  ConfigKeys = {"p2p"}
  ClientKeys = {}
  InnerKeys = {"inner"}
  Scalars = {1, 2}
INVARIANTS
  GuessIsUnanimous
  MergeLaw
\* One patch.
CHECK_DEADLOCK FALSE

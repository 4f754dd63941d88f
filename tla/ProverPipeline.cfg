CONSTANTS
  Calls = {p}
  Keys = {k1, k2}
  NoKey = NoKey
SPECIFICATION Spec
INVARIANT BothProversUsedTheReportedKey
CHECK_DEADLOCK FALSE

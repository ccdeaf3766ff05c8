SPECIFICATION FairSpec
CONSTANTS
  Calls = {a, b, c}
  MaxCalls = 2
  CrashLimit = 2
  MaxChildren = 3
INVARIANT ChildrenObey
PROPERTY CallsKeepPromise
PROPERTY CallsAndStopEnd
CHECK_DEADLOCK FALSE

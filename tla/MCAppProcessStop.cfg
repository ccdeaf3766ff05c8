SPECIFICATION Spec
CONSTANTS
  Calls = {a}
  MaxCalls = 1
  CrashLimit = 2
  MaxChildren = 2
PROPERTY StopWaitsForCalls
CHECK_DEADLOCK FALSE

SPECIFICATION MCSpec
CONSTANTS
  N = 1
  Tasks = {t, u}
  MaxTasks = 1
  MaxEdits = 0
  MaxCrashes = 0
  Versions = {1}
  MaxInterrupts = 1
INVARIANT StoppedBeforeProbe
CHECK_DEADLOCK FALSE

SPECIFICATION MCSpec
CONSTANTS
  N = 2
  Tasks = {t, u, w, x}
  MaxTasks = 2
  MaxEdits = 1
  MaxCrashes = 1
  Versions = {1, 2}
  MaxInterrupts = 2
SYMMETRY TaskSymmetry
INVARIANT GatedThroughout
INVARIANT NothingRepeated
INVARIANT UpgradeIsSafe
PROPERTY IntentRestored
PROPERTY EndsInService
CHECK_DEADLOCK FALSE

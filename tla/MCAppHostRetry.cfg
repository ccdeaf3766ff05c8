SPECIFICATION Spec
CONSTANTS
  Versions <- MCVersions
  Packages <- MCPackages
  Declares <- MCDeclares
  Perms = {p}
  Calls = {k}
  Ops = {o}
  MaxJobs = 1
  MaxEdits = 0
  MaxCrashes = 0
INVARIANT RetryAccepted
CHECK_DEADLOCK FALSE

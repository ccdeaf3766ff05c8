SPECIFICATION Spec
CONSTANTS
  Versions <- MCVersions
  Packages <- MCPackages
  Declares <- MCDeclares
  Perms = {p}
  Calls = {k}
  Ops = {o}
  MaxJobs = 3
  MaxEdits = 0
  MaxCrashes = 1
INVARIANT DowngradeRefused
CHECK_DEADLOCK FALSE

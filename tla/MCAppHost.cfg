SPECIFICATION FairSpec
CONSTANTS
  Versions <- MCVersions
  Packages <- MCPackages
  Declares <- MCDeclares
  Perms = {p}
  Calls = {k}
  Ops = {o}
  MaxJobs = 3
  MaxEdits = 1
  MaxCrashes = 1
INVARIANT ServesOneEnabled
INVARIANT EnabledIsAdmitted
INVARIANT UploadsAreComplete
PROPERTY JobsEnd
CHECK_DEADLOCK FALSE

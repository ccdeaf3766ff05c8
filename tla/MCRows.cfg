SPECIFICATION MCSpec
CONSTANTS
  Versions <- MCVersions
  Packages <- MCPackages
  Declares <- MCDeclares
  Perms = {p, q}
  MaxRevision = 7
  Uploads = {a, b}
  Records = {r}
  Intents = {x, y}
  Editors = {a, b}
  Limit = 2
  MaxTime = 2
  MaxChanges = 3
  Forever = Forever
  Hosts = {a, b}
  Runs = {x, y}
  MaxAttempts = 2
  MaxWriteFaults = 1
  NoRun = NoRun
  Events = {x, y}
  Workers = {a, b}
  Handlers = 2
  BatchSize = 2
  MaxDeliveries = 2
  MaxLosses = 1
SYMMETRY MCSymmetry
INVARIANT EnabledOnlyBySettlement
INVARIANT GrantsAreBound
INVARIANT RunsHold
INVARIANT EventsHold
PROPERTY NoCredentialRevival
PROPERTY RepositoryAgrees
PROPERTY AttachmentsKept
CHECK_DEADLOCK FALSE

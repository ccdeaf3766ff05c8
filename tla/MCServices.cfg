SPECIFICATION Spec
CONSTANTS
  People = {p, q}
  Clients = {c, d}
  Images = {i1, i2, i3}
  NoImage = NoImage
  Notices = {n}
  Channels = {ch}
  Recipients = {r}
  Workers = {v, w}
  MaxAttempts = 2
  NoIntent = NoIntent
  Items = {i, j}
  Days = 4
  Schedules <- MCSchedules
  CatchUp = 2
  NoItem = NoItem
  Staff = {p, q}
  Groups = {c, d}
  Roles = {a, m}
  Default = m
  Permissions <- MCPermissions
  RuleSets <- MCRuleSets
  Owners = {v, w}
  MaxRevisions = 2
  NoRole = NoRole
  NoPermission = NoPermission
SYMMETRY MCSymmetry
INVARIANT SignedHasEvidence
INVARIANT DeliveryIsAccounted
INVARIANT WorkHolds
INVARIANT NoBlindEdit
PROPERTY AttendanceKept
PROPERTY IntroductionKeepsRoles
CHECK_DEADLOCK FALSE

SPECIFICATION MCSpec
CONSTANTS
  Periods = {p, q}
  People = {a, b, e}
  Clients = {c, d}
  Days = 2
  DayShifts = {day}
  NightShifts = {night}
  Rests = {}
  MaxAssignments = 2
  MaxReplacements = 2
  Nothing = Nothing
  Callers = {c, d}
  Rules = {x, y}
  Profiles = {p, q}
  Requests = {u, v}
  Records = {x, y}
  Decisions = {keep}
  MaxTime = 2
  MaxRuns = 2
  MaxAdvances = 2
  Forever = 3
SYMMETRY MCSymmetry
INVARIANT CoverHolds
INVARIANT AlignmentHolds
PROPERTY PublishedRosters
PROPERTY AlignmentMoves
CHECK_DEADLOCK FALSE

SPECIFICATION MCSpec
CONSTANTS
  Requests = {r, s}
  Identities = {i, j}
  MaxChanges = 2
  MaxClears = 2
  Nobody = Nobody
  Reads = {k}
  Writes = {w}
  Concurrency = 2
  Turns = {"t", "u"}
  People = {"p", "q"}
  Placements <- MCPlacements
  Capacity = 1
  MaxFaults = 1
  MaxRestarts = 1
  NoTurn = NoTurn
INVARIANT NothingStale
INVARIANT EvidenceCoexisted
INVARIANT AuditTellsTheTruth
INVARIANT OneRunEach
PROPERTY WritesKeepPromise
PROPERTY InvocationsAnswered
PROPERTY EndingIsFinal
PROPERTY TurnsEnd
CHECK_DEADLOCK FALSE

SPECIFICATION MCSpec
CONSTANTS
  Hosts = {g}
  Runs = {r, s}
  MaxAttempts = 2
  MaxWriteFaults = 0
  NoRun = NoRun
  Entries = {e}
  Processes = {p, q}
  Edits = {k, l}
  MaxVersion = 2
  MaxChanges = 2
  MaxFaults = 1
  Nobody = Nobody
  Lost = Lost
INVARIANT IndexHolds
PROPERTY RunsEnd
PROPERTY EventuallyIndexed
CHECK_DEADLOCK FALSE

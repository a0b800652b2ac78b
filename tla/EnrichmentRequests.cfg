SPECIFICATION Spec
CONSTANTS
  Items = {i1, i2}
  Procs = {p1}
  Requests = {r1, r2}
  NoItem = NoItem
  NoProc = NoProc
  MaxJobs = 3
  MaxRetries = 2
  Backoff <- MCBackoff
  BatchSize = 1
  MaxFaults = 1
SYMMETRY MCSymmetry
INVARIANTS
  OneLiveJob
  OutboxExplainsStatus
PROPERTY StaysInLifecycle

SPECIFICATION Spec
CONSTANTS
  Items = {i1, i2}
  Procs = {p1, p2}
  Requests = {r1}
  NoItem = NoItem
  NoProc = NoProc
  MaxJobs = 2
  MaxRetries = 2
  Backoff <- MCBackoff
  BatchSize = 2
  MaxFaults = 1
SYMMETRY MCSymmetry
INVARIANTS
  TypeOK
  NoLockCycle
  OneEnricherPerItem
  CallsAccountedFor

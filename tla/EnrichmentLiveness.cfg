SPECIFICATION FairSpec
CONSTANTS
  Items = {i1}
  Procs = {p1, p2}
  Requests = {r1}
  NoItem = NoItem
  NoProc = NoProc
  MaxJobs = 2
  MaxRetries = 2
  Backoff <- MCBackoff
  BatchSize = 1
  MaxFaults = 1
PROPERTY
  ImplementsLifecycle
  RequestsEnd

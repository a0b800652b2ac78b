SPECIFICATION Spec
CONSTANTS
  a = a
  b = b
  Items = {i1, i2, i3}
  Tags = {a, b}
  Waiting = {i2}
  Archived = {i1}
  Wanted <- MCWanted
  MaxRequests = 2
  MaxFaults = 1
INVARIANTS
  TypeOK
  CountsDriftOnlyByRaces
PROPERTY
  EditsEnd
\* With every request used the user may stop.
CHECK_DEADLOCK FALSE

SPECIFICATION Spec
CONSTANTS
  Files = {f1}
  InvalidFiles = {}
  Tags = {g1}
  MaxEntries = 1
  MaxNotes = 2
  MaxFaults = 1
INVARIANTS
  SubmittedTextKept
  SuccessMeansAttached
PROPERTIES
  SaveEnds
\* The user may leave the box alone.
CHECK_DEADLOCK FALSE

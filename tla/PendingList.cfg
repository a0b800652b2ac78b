SPECIFICATION Spec
CONSTANTS
  Items = {i1}
  NoItem = NoItem
  Requests = {q1, q2}
  Polls = {p1, p2}
  MaxFaults = 1
INVARIANT
  OnlyLatePollsMislead
PROPERTY
  EnrichingIsFollowed
\* Every note may end up archived or discarded, with nothing left to do.
CHECK_DEADLOCK FALSE

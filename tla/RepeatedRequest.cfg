SPECIFICATION Spec
CONSTANTS
  Items = {i1, i2}
  Keys = {k1}
  Requests = {r1, r2}
  NoItem = NoItem
  NoKey = NoKey
  DailyLimit = 2
  ConcurrencyLimit = 1
  MaxDay = 1
PROPERTY RepeatsReturnTheItem
\* With every id used and discarded on the last day, the bounds end a behaviour.
CHECK_DEADLOCK FALSE

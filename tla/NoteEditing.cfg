SPECIFICATION Spec
CONSTANTS
  Items = {i1}
  NoItem = NoItem
  Titles = {t1, t2}
  InvalidTitles = {}
  Texts = {x1, blank}
  InvalidTexts = {blank}
  Summary = x1
  Tags = {g1}
  Uploads = {}
  Attachments = {}
  MaxSessions = 2
INVARIANTS
  TypeOK
  CleanMeansEqual
  OneRequestPerEditor
PROPERTIES
  SavingEnds
\* With every session used the users may stop.
CHECK_DEADLOCK FALSE

\* One note, saved once, in the library or the search results.
SPECIFICATION Spec
CONSTANTS
  Items = {i1}
  NoItem = NoItem
  Titles = {t1, t2}
  InvalidTitles = {}
  Texts = {x1, x2}
  InvalidTexts = {}
  Summary = x1
  Tags = {}
  Uploads = {}
  Attachments = {}
  MaxSessions = 1
PROPERTY UnsavedTypingIsKept
\* With every session used the users may stop.
CHECK_DEADLOCK FALSE

\* The library: three notes on pages of one, two of them perhaps archived at the
\* same time, two of them edited.  Two images, one of them without a tile, and two documents, two
\* clicks waiting.  Two saves of settings; three rows of tags, two names, two
\* colours, two changes; two names in the picker, one of them searched for, two
\* creations; two words to search for.  On the mobile client two notes, one of
\* them to be reviewed, two loads, two updates; three changes of the query, four
\* requests.
SPECIFICATION Spec
CONSTANTS
  Notes = {1, 2, 3}
  Limit = 1
  MaxTime = 2
  MaxVersion = 1
  MaxEdited = 2
  MaxDiscards = 1
  ImageCount = 2
  MaxTiles = 1
  Pdfs = {pdf}
  OtherFiles = {doc}
  NoFile = NoFile
  MaxClicks = 2
  a = a
  b = b
  Values = {a, b}
  Empty = Empty
  NoValue = NoValue
  TypedInProfile <- MCTyped
  MaxSaves = 2
  Names = {m, n}
  TypedInSearch = {m}
  MaxCreations = 2
  Words = {w1, w2}
  NoWord = NoWord
  MaxEdits = 1
  MaxTags = 3
  Colors = {gray, red}
  DefaultColor = gray
  MaxChanges = 2
  MobileNotes = {n1, n2}
  ToReview = {n1}
  NoNote = NoNote
  MaxLoads = 2
  MaxUpdates = 2
  MaxTyped = 3
  MaxRequests = 4
  MaxFaults = 1
INVARIANTS
  TypeOK
  PagesAreGapless
  
  UrlsOfTheirFile
  SavedSettingsStay
  CardsShowTheRow
  ResultsOfLastSearch
  OneTagPerName
  OnlyEarlyReadsMislead
  TextsOfTheirNote
  ListedForTheQuery
PROPERTIES
  LightboxShowsImage
  OnlyUnseenEditsAreUndone
  TagChoicesKept
\* With every load used the user of the mobile client may stop.
CHECK_DEADLOCK FALSE

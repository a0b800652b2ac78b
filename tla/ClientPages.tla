------------------------------ MODULE ClientPages ------------------------------
(***************************************************************************)
(* The pages and widgets of the clients that keep a state of their own and *)
(* share nothing but the backend: the library, the attachments of a note,  *)
(* the account settings, the tag settings, the tag picker and the search   *)
(* page of the web client, the detail screen and the library of the mobile *)
(* one.  The user stays with one of them.                                  *)
(***************************************************************************)
EXTENDS Integers, FiniteSets

CONSTANTS
  Notes, Limit, MaxTime, MaxVersion, MaxEdited, MaxDiscards,
  ImageCount, MaxTiles, Pdfs, OtherFiles, NoFile, MaxClicks,
  Values, Empty, NoValue, TypedInProfile, MaxSaves,
  Names, TypedInSearch, MaxCreations,
  Words, NoWord, MaxEdits,
  MaxTags, Colors, DefaultColor, MaxChanges,
  MobileNotes, NoNote, ToReview, MaxLoads, MaxUpdates,   \* ToReview: notes to be reviewed at first
  MaxTyped, MaxRequests,
  MaxFaults

ASSUME ClientPagesAssumption ==
  /\ Notes \subseteq Nat \ {0} /\ IsFiniteSet(Notes) /\ {Limit, MaxTime} \subseteq Nat \ {0}
  /\ ImageCount \in Nat \ {0} /\ MaxTiles \in Nat
  /\ Values # {} /\ NoValue \notin Values \cup {Empty}
  /\ TypedInProfile \in [{"nickname", "avatarUrl"} -> SUBSET (Values \cup {Empty})]
  /\ Names # {} /\ TypedInSearch \subseteq Names
  /\ NoWord \notin Words
  /\ MaxTags \in Nat /\ MaxChanges \in Nat /\ DefaultColor \in Colors
  /\ NoNote \notin MobileNotes /\ ToReview \subseteq MobileNotes
  /\ {MaxSaves, MaxLoads, MaxUpdates, MaxTyped, MaxVersion, MaxEdits, MaxFaults} \subseteq Nat
  /\ MaxRequests \in Nat \ {0}

VARIABLES
  route,
  \* the library
  archivedAt, discarded, version, editing, data, pageFetch, libraryError, savedVersion,
  \* the attachments
  attachments, downloadUrls, tiles, lightboxOpen, lightboxIndex, loadedUrls, wanted,
  previewOpen, previewAttachment, previewLoading, fileRequests, fileFaults,
  \* the account settings
  user, profile, me, profileError, dialogOpen, form, saves, savedFields, doubtful, misled, saveFaults,
  \* the tag settings
  tagRows, changes, listing, table, hasData, tagPage, createOpen, renameTarget, submitting,
  tagsMisled, tagFaults,
  \* the tag picker
  parent, isOpen, searchQuery, debouncedQuery, selectedTags, serverTags, cache, stale,
  tagSearches, creating,
  \* the search page
  isSignedIn, query, draft, searchState, searchMode, resultsOf, results, found, edits,
  searches, submitted, asked, isTagPopoverOpen,
  \* the detail screen of the mobile client
  detailItemId, itemId, isLoading, isUpdating, detailFailed, isDeleted, item, isEditing, inputs,
  isTagEditorOpen, tagEditorTags, loads, update, stored, crossed, begun, detailFaults,
  \* the library of the mobile client
  listQuery, searchJob, listLoading, isSearching, listFailed, items, listRequests, sent, typed,
  newest, overtaken, listFaults

Library == INSTANCE LibraryPaging
  WITH fetching <- pageFetch, isError <- libraryError, saved <- savedVersion
Attachments == INSTANCE AttachmentViewer WITH requests <- fileRequests, faults <- fileFaults
Account == INSTANCE AccountSettings
  WITH isError <- profileError, saved <- savedFields, faults <- saveFaults, Typed <- TypedInProfile
TagPage == INSTANCE TagManagement
  WITH rows <- tagRows, requests <- changes, page <- tagPage, misled <- tagsMisled,
       faults <- tagFaults, MaxRequests <- MaxChanges
Picker == INSTANCE TagPicker WITH fetching <- tagSearches, Typed <- TypedInSearch
Search == INSTANCE SearchPage WITH requests <- searches
MobileNote == INSTANCE MobileDetail
  WITH Notes <- MobileNotes, failed <- detailFailed, faults <- detailFaults
MobileList == INSTANCE MobileLibrary
  WITH Queries <- Words, Blank <- NoWord, query <- listQuery, isLoading <- listLoading,
       failed <- listFailed, requests <- listRequests, faults <- listFaults

libraryVars == <<archivedAt, discarded, version, editing, data, pageFetch, libraryError, savedVersion>>
attachmentVars ==
  <<attachments, downloadUrls, tiles, lightboxOpen, lightboxIndex, loadedUrls, wanted,
    previewOpen, previewAttachment, previewLoading, fileRequests, fileFaults>>
accountVars ==
  <<user, profile, me, profileError, dialogOpen, form, saves, savedFields, doubtful, misled, saveFaults>>
tagPageVars ==
  <<tagRows, changes, listing, table, hasData, tagPage, createOpen, renameTarget, submitting,
    tagsMisled, tagFaults>>
pickerVars ==
  <<parent, isOpen, searchQuery, debouncedQuery, selectedTags, serverTags, cache, stale, tagSearches, creating>>
searchVars ==
  <<isSignedIn, query, draft, searchState, searchMode, resultsOf, results, found, edits,
    searches, submitted, asked, isTagPopoverOpen>>
mobileNoteVars ==
  <<detailItemId, itemId, isLoading, isUpdating, detailFailed, isDeleted, item, isEditing, inputs,
    isTagEditorOpen, tagEditorTags, loads, update, stored, crossed, begun, detailFaults>>
mobileListVars ==
  <<listQuery, searchJob, listLoading, isSearching, listFailed, items, listRequests, sent, typed,
    newest, overtaken, listFaults>>
webVars == <<libraryVars, attachmentVars, accountVars, tagPageVars, pickerVars, searchVars>>
mobileVars == <<mobileNoteVars, mobileListVars>>
vars == <<route, webVars, mobileVars>>

Routes == {"library", "attachments", "account", "tags", "picker", "search", "mobileNote", "mobileList"}

\* Every page starts as its module says; a page the user is not on has one start.
Init ==
  /\ route \in Routes
  /\ Library!Init /\ Attachments!Init /\ Account!Init /\ TagPage!Init /\ Picker!Init /\ Search!Init
  /\ MobileNote!Init /\ MobileList!Init
  /\ route # "tags" => tagRows = [i \in TagPage!Ids |-> IF i = 1 THEN TagPage!FirstTag ELSE TagPage!NoRow]
  /\ route # "picker" => parent = "list" /\ serverTags = {}
  /\ route # "mobileNote" => \A n \in MobileNotes : stored[n].status = "ARCHIVED"
  /\ route = "mobileNote" => \A n \in MobileNotes : stored[n].status = "READY_TO_CONFIRM" <=> n \in ToReview

OnLibrary ==
  /\ route = "library" /\ Library!Next
  /\ UNCHANGED <<route, attachmentVars, accountVars, tagPageVars, pickerVars, searchVars, mobileVars>>

OnAttachments ==
  /\ route = "attachments" /\ Attachments!Next
  /\ UNCHANGED <<route, libraryVars, accountVars, tagPageVars, pickerVars, searchVars, mobileVars>>

OnAccount ==
  /\ route = "account" /\ Account!Next
  /\ UNCHANGED <<route, libraryVars, attachmentVars, tagPageVars, pickerVars, searchVars, mobileVars>>

OnTags ==
  /\ route = "tags" /\ TagPage!Next
  /\ UNCHANGED <<route, libraryVars, attachmentVars, accountVars, pickerVars, searchVars, mobileVars>>

OnPicker ==
  /\ route = "picker" /\ Picker!Next
  /\ UNCHANGED <<route, libraryVars, attachmentVars, accountVars, tagPageVars, searchVars, mobileVars>>

OnSearch ==
  /\ route = "search" /\ Search!Next
  /\ UNCHANGED <<route, libraryVars, attachmentVars, accountVars, tagPageVars, pickerVars, mobileVars>>

OnMobileNote ==
  /\ route = "mobileNote" /\ MobileNote!Next
  /\ UNCHANGED <<route, webVars, mobileListVars>>

OnMobileList ==
  /\ route = "mobileList" /\ MobileList!Next
  /\ UNCHANGED <<route, webVars, mobileNoteVars>>

Next ==
  \/ OnLibrary \/ OnAttachments \/ OnAccount \/ OnTags \/ OnPicker \/ OnSearch
  \/ OnMobileNote \/ OnMobileList

\* What the lightbox waits for is answered, or given up.
Fairness == WF_attachmentVars(route = "attachments" /\ Attachments!Progress)

Spec == Init /\ [][Next]_vars /\ Fairness

-----------------------------------------------------------------------------
\* The types of every page, with what a page's waiting and showing have to do
\* with each other in the code.
TypeOK ==
  /\ route \in Routes
  /\ Library!TypeOK /\ Attachments!TypeOK /\ Account!TypeOK /\ TagPage!TypeOK /\ Picker!TypeOK /\ Search!TypeOK
  /\ MobileNote!TypeOK /\ MobileList!TypeOK

\* However notes are archived and discarded between two pages, the library lists
\* them in order, none twice, and none left out (get_archived_by_user, useLibrary).
PagesAreGapless == Library!PagesAreGapless

\* The library shows a note older than the user was told is saved only where a
\* page was read between the answer to the save and its commit (useEditorSave's
\* invalidation, updateItem, get_db_session).
OnlyEarlyReadsHideSaves == Library!OnlyEarlyReadsHideSaves

\* An address is kept for the attachment it leads to, however late it comes
\* (fetchDownloadUrl, AttachmentLightbox, handleDocumentPreview).
UrlsOfTheirFile == Attachments!UrlsOfTheirFile

\* An image the lightbox stays on is shown in the end, also when the user came
\* to it while the lightbox waited for another, or it was lost on the way (the
\* effect of AttachmentLightbox).
LightboxShowsImage ==
  \A i \in 1..ImageCount :
    route = "attachments" /\ lightboxOpen /\ lightboxIndex = i
      ~> loadedUrls[i].of = i \/ ~lightboxOpen \/ lightboxIndex # i

\* Settings told to be saved are in the row, whatever the other card saves
\* meanwhile (update_profile, update_preferences).
SavedSettingsStay == Account!SavedSettingsStay

\* With nothing under way the cards show the row (useAccountProfile's invalidation).
CardsShowTheRow == Account!CardsShowTheRow

\* However creations, renames and revivals of tags meet, no two have a name
\* (idx_tags_user_name_lower).
OneTagPerName == TagPage!OneTagPerName

\* With nothing under way the table shows the tags, unless the list was read
\* between an answer and its commit (useTags, get_db_session).
OnlyEarlyReadsMislead == TagPage!OnlyEarlyReadsMislead

\* An edit of a tag undoes another only if the other came between its two reads
\* (update_tag, update).
OnlyUnseenEditsAreUndone == TagPage!OnlyUnseenEditsAreUndone

\* The results are those of the last search, in its mode (handleSearch).
ResultsOfLastSearch == Search!ResultsOfLastSearch

\* The editor loses no choice of tags to the creation of another that is answered
\* late (handleCreateTag, handleTagChange).
TagChoicesKept == Picker!TagChoicesKept

\* A note is not given texts typed for another, whichever of them the one view
\* model shows; tags only where its confirmation is overtaken by a load
\* (DetailViewModel).
TextsOfTheirNote == MobileNote!TextsOfTheirNote

\* At rest and without an error the mobile library lists the notes of its query,
\* unless an older answer came last (LibraryViewModel).
ListedForTheQuery == MobileList!ListedForTheQuery
=============================================================================

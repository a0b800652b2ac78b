----------------------------- MODULE NoteCapture -----------------------------
(***************************************************************************)
(* The capture box of the web home page: the draft that survives signing   *)
(* in, the tags and files staged with a note, and one save: new tags are   *)
(* created, then the note, then each file is uploaded in three requests    *)
(* and attached, any of which may fail or lose its answer.                 *)
(*                                                                         *)
(* A text is the number of the entry it was typed in; 0 is no text.  A     *)
(* request is executed and committed at once (what comes between the two   *)
(* is in PendingReview).                                                   *)
(***************************************************************************)
EXTENDS Integers, Sequences

CONSTANTS
  Files,
  InvalidFiles,   \* refused by validateFile
  Tags,           \* tag names
  MaxEntries,     \* bound: notes typed
  MaxNotes,       \* bound: notes stored
  MaxFaults       \* bound: requests or answers lost

ASSUME NoteCaptureAssumption ==
  /\ InvalidFiles \subseteq Files
  /\ MaxEntries \in Nat /\ MaxNotes \in Nat /\ MaxFaults \in Nat

VARIABLES
  page,           \* "home" or "login"
  signedIn,
  text,           \* the text box
  draft,          \* the text kept in localStorage
  entry,          \* the number of the last text typed
  selected,       \* selectedTagNames
  aiEnabled,      \* aiSuggestionsEnabled
  staged,         \* stagedFiles: the status of each file on the page
  save,           \* the handleSave under way
  submitted,      \* texts the user saved and did not clear
  knownTags,      \* AppContext.tags, read once
  serverTags,     \* tags at the server
  notes,          \* items at the server
  uploads,        \* upload rows at the server
  faults

boxVars == <<page, signedIn, text, draft, entry, selected, aiEnabled, submitted>>
serverVars == <<serverTags, notes, uploads>>
vars == <<boxVars, staged, save, knownTags, serverVars, faults>>

StagedStatus == {"staged", "uploading", "success", "failed"}
Steps == {"idle", "createTag", "createItem", "nextFile", "initiate", "put", "complete"}
NoSave == [step |-> "idle", reply |-> "none", text |-> 0, ai |-> FALSE, picked |-> {}, newTags |-> {},
           tagIds |-> {}, files |-> {}, note |-> 0, upload |-> 0]
Texts == 0..MaxEntries
Save == [step : Steps, reply : {"none", "ok", "failed"}, text : Texts, ai : BOOLEAN, picked : SUBSET Tags,
         newTags : SUBSET Tags, tagIds : SUBSET Tags, files : SUBSET Files, note : Nat, upload : Nat]
Note == [text : Texts, tags : SUBSET Tags, ai : BOOLEAN, staged : SUBSET Files]
Upload == [file : Files, status : {"INITIATED", "COMPLETED", "EXPIRED"}, stored : BOOLEAN,
           expired : BOOLEAN, note : Nat]

TypeOK ==
  /\ page \in {"home", "login"} /\ signedIn \in BOOLEAN
  /\ text \in Texts /\ draft \in Texts /\ entry \in Texts
  /\ selected \subseteq Tags /\ knownTags \subseteq serverTags /\ serverTags \subseteq Tags
  /\ aiEnabled \in BOOLEAN
  /\ staged \in [Files -> StagedStatus \cup {"absent"}]
  /\ save \in Save
  /\ submitted \subseteq Texts
  /\ \A n \in DOMAIN notes : notes[n] \in Note
  /\ \A u \in DOMAIN uploads : uploads[u] \in Upload
  /\ faults \in 0..MaxFaults

NothingStaged == [f \in Files |-> "absent"]
Present == {f \in Files : staged[f] # "absent"}
IsSaving == save.step # "idle"
IsUploading == \E f \in Files : staged[f] = "uploading"

Init ==
  /\ page = "home" /\ signedIn \in BOOLEAN
  /\ text = 0 /\ draft = 0 /\ entry = 0 /\ submitted = {}
  /\ selected = {} /\ aiEnabled \in BOOLEAN
  /\ staged = NothingStaged
  /\ save = NoSave
  /\ serverTags \in SUBSET Tags /\ knownTags = serverTags
  /\ notes = <<>> /\ uploads = <<>> /\ faults = 0

-----------------------------------------------------------------------------
(* The capture box                                                         *)

Type ==
  /\ page = "home" /\ ~IsSaving /\ ~IsUploading
  /\ text = 0 /\ entry < MaxEntries
  /\ entry' = entry + 1 /\ text' = entry + 1
  /\ UNCHANGED <<page, signedIn, draft, selected, aiEnabled, submitted, staged, save, knownTags, serverVars, faults>>

ClearText ==
  /\ page = "home" /\ ~IsSaving /\ ~IsUploading /\ text # 0
  /\ text' = 0 /\ submitted' = submitted \ {text}
  /\ UNCHANGED <<page, signedIn, draft, entry, selected, aiEnabled, staged, save, knownTags, serverVars, faults>>

ValidFiles == Files \ InvalidFiles

\* A file is new when it is staged.
Accept(files) ==
  /\ page = "home" /\ ~IsSaving /\ files # {}
  /\ \A f \in files : staged[f] = "absent" /\ \A n \in DOMAIN notes : f \notin notes[n].staged
  /\ staged' = [f \in Files |-> IF f \in files THEN "staged" ELSE staged[f]]
  /\ UNCHANGED <<boxVars, save, knownTags, serverVars, faults>>

\* Of the files dropped the valid ones are taken; of the clipboard, the first
\* image.  Files picked with the button, which signed-in users have, are not
\* checked.
Drop(files) == Accept(files \cap ValidFiles)
Paste(f) == f \in ValidFiles /\ Accept({f})
PickFiles(files) == signedIn /\ ~IsUploading /\ Accept(files)

\* At any time, also while the file is being uploaded.
RemoveStaged(f) ==
  /\ page = "home" /\ staged[f] # "absent"
  /\ staged' = [staged EXCEPT ![f] = "absent"]
  /\ UNCHANGED <<boxVars, save, knownTags, serverVars, faults>>

\* The retry button shows the file as uploading.  Nothing uploads it.
RetryStaged(f) ==
  /\ page = "home" /\ staged[f] = "failed"
  /\ staged' = [staged EXCEPT ![f] = "uploading"]
  /\ UNCHANGED <<boxVars, save, knownTags, serverVars, faults>>

PickTags(tags) ==
  /\ page = "home" /\ signedIn /\ tags # selected
  /\ selected' = tags
  /\ UNCHANGED <<page, signedIn, text, draft, entry, aiEnabled, submitted, staged, save, knownTags, serverVars, faults>>

ToggleAi ==
  /\ page = "home" /\ aiEnabled' = ~aiEnabled
  /\ UNCHANGED <<page, signedIn, text, draft, entry, selected, submitted, staged, save, knownTags, serverVars, faults>>

CanSave == page = "home" /\ ~IsSaving /\ ~IsUploading /\ (text # 0 \/ Present # {})

\* The page is left with only the text kept.
SaveSignedOut ==
  /\ CanSave /\ ~signedIn
  /\ draft' = text /\ submitted' = submitted \cup ({text} \ {0})
  /\ page' = "login" /\ text' = 0 /\ selected' = {} /\ staged' = NothingStaged
  /\ UNCHANGED <<signedIn, entry, aiEnabled, save, knownTags, serverVars, faults>>

\* The tag button of a signed-out user goes to the login page as well.
AskForTags ==
  /\ page = "home" /\ ~signedIn
  /\ page' = "login" /\ text' = 0 /\ selected' = {} /\ staged' = NothingStaged
  /\ UNCHANGED <<signedIn, draft, entry, aiEnabled, submitted, save, knownTags, serverVars, faults>>

\* Back on the page, signed in or not: it starts with the draft.
Return ==
  /\ page = "login"
  /\ page' = "home" /\ signedIn' \in BOOLEAN /\ text' = draft
  /\ UNCHANGED <<draft, entry, selected, aiEnabled, submitted, staged, save, knownTags, serverVars, faults>>

-----------------------------------------------------------------------------
(* handleSave in the browser.  It works on the text, tags and files of the *)
(* moment it was called.                                                   *)

HandleSave ==
  /\ CanSave /\ signedIn /\ Len(notes) < MaxNotes
  /\ submitted' = submitted \cup ({text} \ {0})
  /\ save' = [NoSave EXCEPT !.step = IF selected \subseteq knownTags THEN "createItem" ELSE "createTag",
                            !.text = text, !.ai = aiEnabled, !.picked = selected,
                            !.newTags = selected \ knownTags, !.tagIds = selected \cap knownTags, !.files = Present]
  /\ UNCHANGED <<page, signedIn, text, draft, entry, selected, aiEnabled, staged, knownTags, serverVars, faults>>

NewTag == CHOOSE t \in save.newTags : TRUE
File == CHOOSE f \in save.files : TRUE

\* A tag that cannot be created is left out.
TagAnswered ==
  /\ save.step = "createTag" /\ save.reply # "none"
  /\ save' = [save EXCEPT !.step = IF save.newTags = {NewTag} THEN "createItem" ELSE "createTag",
                          !.reply = "none", !.newTags = @ \ {NewTag},
                          !.tagIds = IF save.reply = "ok" THEN @ \cup {NewTag} ELSE @]
  /\ UNCHANGED <<boxVars, staged, knownTags, serverVars, faults>>

\* The box cleared when the request is sent, whatever its answer.
ItemAnsweredCleared ==
  /\ save.step = "createItem" /\ save.reply # "none"
  /\ save' = IF save.reply = "ok" THEN [save EXCEPT !.step = "nextFile", !.reply = "none"] ELSE NoSave
  /\ text' = 0 /\ draft' = 0
  /\ UNCHANGED <<page, signedIn, entry, selected, aiEnabled, submitted, staged, knownTags, serverVars, faults>>

\* A failed creation that leaves isSaving set.
ItemAnsweredStuck ==
  /\ save.step = "createItem" /\ save.reply = "ok"
  /\ save' = [save EXCEPT !.step = "nextFile", !.reply = "none"]
  /\ UNCHANGED <<boxVars, staged, knownTags, serverVars, faults>>

ItemAnswered ==
  /\ save.step = "createItem" /\ save.reply # "none"
  /\ save' = IF save.reply = "ok" THEN [save EXCEPT !.step = "nextFile", !.reply = "none"] ELSE NoSave
  /\ UNCHANGED <<boxVars, staged, knownTags, serverVars, faults>>

\* A status is set on a file only while it is on the page.
Mark(f, status) == staged' = [staged EXCEPT ![f] = IF @ = "absent" THEN @ ELSE status]

\* uploadFile refuses an invalid file before any request.
StartUpload ==
  /\ save.step = "nextFile" /\ save.files # {}
  /\ IF File \in InvalidFiles
     THEN Mark(File, "failed") /\ save' = [save EXCEPT !.files = @ \ {File}]
     ELSE Mark(File, "uploading") /\ save' = [save EXCEPT !.step = "initiate"]
  /\ UNCHANGED <<boxVars, knownTags, serverVars, faults>>

\* A null result taken for an attachment.
UploadAnsweredUnchecked ==
  /\ save.step \in {"initiate", "put", "complete"} /\ save.reply # "none"
  /\ IF save.reply = "ok" /\ save.step # "complete"
     THEN /\ save' = [save EXCEPT !.step = IF @ = "initiate" THEN "put" ELSE "complete", !.reply = "none"]
          /\ UNCHANGED staged
     ELSE /\ save' = [save EXCEPT !.step = "nextFile", !.reply = "none", !.files = @ \ {File}, !.upload = 0]
          /\ Mark(File, "success")
  /\ UNCHANGED <<boxVars, knownTags, serverVars, faults>>

UploadAnswered ==
  /\ save.step \in {"initiate", "put", "complete"} /\ save.reply # "none"
  /\ IF save.reply = "ok" /\ save.step # "complete"
     THEN /\ save' = [save EXCEPT !.step = IF @ = "initiate" THEN "put" ELSE "complete", !.reply = "none"]
          /\ UNCHANGED staged
     ELSE /\ save' = [save EXCEPT !.step = "nextFile", !.reply = "none", !.files = @ \ {File}, !.upload = 0]
          /\ Mark(File, IF save.reply = "ok" THEN "success" ELSE "failed")
  /\ UNCHANGED <<boxVars, knownTags, serverVars, faults>>

\* Files that failed stay, for whatever is saved next.
FinishSave ==
  /\ save.step = "nextFile" /\ save.files = {}
  /\ draft' = 0 /\ text' = 0 /\ selected' = {}
  /\ staged' = [f \in Files |-> IF staged[f] = "failed" THEN "failed" ELSE "absent"]
  /\ save' = NoSave
  /\ UNCHANGED <<page, signedIn, entry, aiEnabled, submitted, knownTags, serverVars, faults>>

-----------------------------------------------------------------------------
(* The server and the object store                                         *)

Reply(answer) == save' = [save EXCEPT !.reply = answer]
Requested(step) == save.step = step /\ save.reply = "none"

\* The tag is created, revived, or there already.
ServerCreateTag ==
  /\ Requested("createTag")
  /\ serverTags' = serverTags \cup {NewTag}
  /\ Reply("ok")
  /\ UNCHANGED <<boxVars, staged, knownTags, notes, uploads, faults>>

\* A note that is to be enriched is stored without its tags, and may be
\* refused (ItemAdmission).
ServerCreateItem ==
  /\ Requested("createItem")
  /\ \/ /\ notes' = Append(notes, [text |-> save.text, tags |-> IF save.ai THEN {} ELSE save.tagIds,
                                   ai |-> save.ai, staged |-> save.files])
        /\ save' = [save EXCEPT !.reply = "ok", !.note = Len(notes) + 1]
     \/ save.ai /\ Reply("failed") /\ UNCHANGED notes
  /\ UNCHANGED <<boxVars, staged, knownTags, serverTags, uploads, faults>>

ServerInitiate ==
  /\ Requested("initiate")
  /\ uploads' = Append(uploads, [file |-> File, status |-> "INITIATED", stored |-> FALSE, expired |-> FALSE, note |-> 0])
  /\ save' = [save EXCEPT !.reply = "ok", !.upload = Len(uploads) + 1]
  /\ UNCHANGED <<boxVars, staged, knownTags, serverTags, notes, faults>>

\* The presigned address does not outlive the row's expiry.
StorePut ==
  /\ Requested("put")
  /\ IF uploads[save.upload].expired
     THEN Reply("failed") /\ UNCHANGED uploads
     ELSE Reply("ok") /\ uploads' = [uploads EXCEPT ![save.upload].stored = TRUE]
  /\ UNCHANGED <<boxVars, staged, knownTags, serverTags, notes, faults>>

\* The mark of an upload found expired is rolled back by the exception that
\* reports it.
ServerComplete ==
  /\ Requested("complete")
  /\ IF uploads[save.upload].expired
     THEN Reply("failed") /\ UNCHANGED uploads
     ELSE /\ Reply("ok")
          /\ uploads' = [uploads EXCEPT ![save.upload].status = "COMPLETED", ![save.upload].note = save.note]
  /\ UNCHANGED <<boxVars, staged, knownTags, serverTags, notes, faults>>

\* Time passes.  An upload that nobody is working on may expire unnoticed.
Expire ==
  /\ save.upload # 0 /\ uploads[save.upload].status = "INITIATED" /\ ~uploads[save.upload].expired
  /\ uploads' = [uploads EXCEPT ![save.upload].expired = TRUE]
  /\ UNCHANGED <<boxVars, staged, save, knownTags, serverTags, notes, faults>>

\* The request never arrives, or its answer is lost.
Lose ==
  /\ save.step \notin {"idle", "nextFile"} /\ save.reply # "failed"
  /\ faults < MaxFaults /\ faults' = faults + 1
  /\ Reply("failed")
  /\ UNCHANGED <<boxVars, staged, knownTags, serverVars>>

-----------------------------------------------------------------------------
UserStep ==
  \/ Type \/ ClearText \/ ToggleAi \/ SaveSignedOut \/ AskForTags \/ Return \/ HandleSave
  \/ \E files \in SUBSET Files : Drop(files) \/ PickFiles(files)
  \/ \E f \in Files : Paste(f) \/ RemoveStaged(f) \/ RetryStaged(f)
  \/ \E tags \in SUBSET Tags : PickTags(tags)

ServerStep == ServerCreateTag \/ ServerCreateItem \/ ServerInitiate \/ StorePut \/ ServerComplete
BrowserStep == TagAnswered \/ ItemAnswered \/ StartUpload \/ UploadAnswered \/ FinishSave

Next == UserStep \/ ServerStep \/ BrowserStep \/ Lose \/ Expire

\* Requests are answered and handleSave runs on; the user need do nothing.
Fairness == WF_vars(ServerStep) /\ WF_vars(BrowserStep)

Spec == Init /\ [][Next]_vars /\ Fairness

-----------------------------------------------------------------------------
(* Properties                                                              *)

Attached(f) == \E u \in DOMAIN uploads : uploads[u].file = f /\ uploads[u].note # 0

\* A text the user saved is in the box, in the draft, or stored, through
\* signing in, refused and lost requests, and failed uploads.
SubmittedTextKept ==
  \A n \in submitted : n \in {text, draft} \/ \E k \in DOMAIN notes : notes[k].text = n

\* A file shown as uploaded is attached to a stored note, whichever of its
\* requests failed.
SuccessMeansAttached == \A f \in Files : staged[f] = "success" => Attached(f)

\* Every save ends, so that the box can be used again.
SaveEnds == IsSaving ~> ~IsSaving
=============================================================================

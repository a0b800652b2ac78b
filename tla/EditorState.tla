----------------------------- MODULE EditorState -----------------------------
(***************************************************************************)
(* The reducer behind the web note editor (useEditorState): one action per *)
(* dispatch of the hook.  Any component that holds the hook may dispatch,  *)
(* in any order; NoteEditor takes the dispatches that EditorProvider wires *)
(* up.  Tags are a set, since the reducer adds a tag at most once and      *)
(* compares tags after sorting.  Error texts and upload progress are left  *)
(* out.                                                                    *)
(***************************************************************************)
CONSTANTS Titles, Texts, Tags, Uploads, Attachments

VARIABLES
  editorState,
  form,                  \* what the fields show
  originalForm,          \* what they are compared with
  validationErrors,      \* fields with an error
  attachmentUploads,     \* state of each upload started here, or NotAdded
  deletedAttachmentIds

editorVars == <<editorState, form, originalForm, validationErrors,
                attachmentUploads, deletedAttachmentIds>>

EditorStates == {"LOADING", "LOAD_ERROR", "VIEWING", "EDITING", "VALIDATING",
                 "SAVING", "SAVED", "SAVE_FAILED", "CONFIRM_DISCARD"}
EditorForm == [title : Titles, originalText : Texts, tags : SUBSET Tags]
Fields == {"title", "originalText"}
UploadStates == {"PENDING", "INITIATING", "UPLOADING", "COMPLETING", "UPLOADED", "FAILED"}
NotAdded == "not added"

EditorTypeOK ==
  /\ editorState \in EditorStates
  /\ form \in EditorForm
  /\ originalForm \in EditorForm
  /\ validationErrors \in SUBSET Fields
  /\ attachmentUploads \in [Uploads -> UploadStates \cup {NotAdded}]
  /\ deletedAttachmentIds \in SUBSET Attachments

NoUploads == [u \in Uploads |-> NotAdded]

\* createInitialState, given the form made of the item's fields.
CreateInitialState(f) ==
  /\ editorState = "VIEWING"
  /\ form = f
  /\ originalForm = f
  /\ validationErrors = {}
  /\ attachmentUploads = NoUploads
  /\ deletedAttachmentIds = {}

PendingUploads ==
  \E u \in Uploads : attachmentUploads[u] \notin {NotAdded, "UPLOADED", "FAILED"}
HasUnsavedChanges ==
  form # originalForm \/ PendingUploads \/ deletedAttachmentIds # {}

SameFiles == UNCHANGED <<attachmentUploads, deletedAttachmentIds>>

-----------------------------------------------------------------------------
(* Loading                                                                 *)

LoadSuccess(f) ==
  /\ editorState' = "VIEWING"
  /\ form' = f
  /\ originalForm' = f
  /\ UNCHANGED validationErrors /\ SameFiles

GoTo(state) ==
  /\ editorState' = state
  /\ UNCHANGED <<form, originalForm, validationErrors>> /\ SameFiles

LoadFailure == GoTo("LOAD_ERROR")
RetryLoad == GoTo("LOADING")

-----------------------------------------------------------------------------
(* Editing: every change of the form decides anew between EDITING and      *)
(* VIEWING, whatever the state was.                                        *)

ShowForm(f) ==
  /\ form' = f
  /\ editorState' = IF f = originalForm THEN "VIEWING" ELSE "EDITING"
  /\ UNCHANGED originalForm /\ SameFiles

SetField(field, value) ==
  /\ ShowForm([form EXCEPT ![field] = value])
  /\ validationErrors' = validationErrors \ {field}

SetTags(tags) ==
  /\ ShowForm([form EXCEPT !.tags = tags])
  /\ UNCHANGED validationErrors

AddTag(tag) == tag \notin form.tags /\ SetTags(form.tags \cup {tag})
RemoveTag(tag) == SetTags(form.tags \ {tag})

-----------------------------------------------------------------------------
(* Saving, closing, starting over                                          *)

SaveClicked == GoTo("VALIDATING")

ValidationPassed ==
  /\ editorState' = "SAVING"
  /\ validationErrors' = {}
  /\ UNCHANGED <<form, originalForm>> /\ SameFiles

ValidationFailed(fields) ==
  /\ editorState' = "EDITING"
  /\ validationErrors' = fields
  /\ UNCHANGED <<form, originalForm>> /\ SameFiles

\* SAVED without taking the saved form over as the original.
SaveSuccessKeepingOriginal ==
  /\ GoTo("SAVED")

SaveSuccess ==
  /\ editorState' = "SAVED"
  /\ originalForm' = form
  /\ attachmentUploads' = [u \in Uploads |-> IF attachmentUploads[u] = "UPLOADED"
                             THEN NotAdded ELSE attachmentUploads[u]]
  /\ deletedAttachmentIds' = {}
  /\ UNCHANGED <<form, validationErrors>>

SaveFailure == GoTo("SAVE_FAILED")

CloseClicked == HasUnsavedChanges /\ GoTo("CONFIRM_DISCARD")
KeepEditing == GoTo("EDITING")

DiscardConfirmed ==
  /\ editorState' = "VIEWING"
  /\ form' = originalForm
  /\ attachmentUploads' = NoUploads
  /\ deletedAttachmentIds' = {}
  /\ UNCHANGED <<originalForm, validationErrors>>

CancelClicked ==
  /\ editorState' = "VIEWING"
  /\ form' = originalForm
  /\ validationErrors' = {}
  /\ UNCHANGED originalForm /\ SameFiles

Reset(f) ==
  /\ editorState' = "VIEWING"
  /\ form' = f
  /\ originalForm' = f
  /\ validationErrors' = {}
  /\ attachmentUploads' = NoUploads
  /\ deletedAttachmentIds' = {}

-----------------------------------------------------------------------------
(* Attachments                                                             *)

SetUpload(u, state) ==
  /\ attachmentUploads' = [attachmentUploads EXCEPT ![u] = state]
  /\ UNCHANGED <<form, originalForm, validationErrors, deletedAttachmentIds>>

AddUpload(u) ==
  /\ attachmentUploads[u] = NotAdded
  /\ SetUpload(u, "PENDING")
  /\ editorState' = "EDITING"

UpdateUpload(u, state) ==
  /\ attachmentUploads[u] # NotAdded
  /\ SetUpload(u, state)
  /\ UNCHANGED editorState

RemoveUpload(u) == SetUpload(u, NotAdded) /\ UNCHANGED editorState

MarkDeleted(ids) ==
  /\ deletedAttachmentIds' = ids
  /\ UNCHANGED <<form, originalForm, validationErrors, attachmentUploads>>

DeleteAttachment(a) == MarkDeleted(deletedAttachmentIds \cup {a}) /\ editorState' = "EDITING"
UndoDeleteAttachment(a) == MarkDeleted(deletedAttachmentIds \ {a}) /\ UNCHANGED editorState

-----------------------------------------------------------------------------
\* The hook with any caller: an item is shown, then any dispatch follows.
EditorInit == \E f \in EditorForm : CreateInitialState(f)

Loading == (\E f \in EditorForm : LoadSuccess(f)) \/ LoadFailure \/ RetryLoad
Editing ==
  \/ \E field \in Fields, v \in Titles \cup Texts :
       v \in (IF field = "title" THEN Titles ELSE Texts) /\ SetField(field, v)
  \/ \E t \in Tags : AddTag(t) \/ RemoveTag(t)
Saving ==
  \/ SaveClicked \/ ValidationPassed \/ SaveSuccess \/ SaveFailure
  \/ \E fields \in (SUBSET Fields) \ {{}} : ValidationFailed(fields)
Closing ==
  \/ CloseClicked \/ KeepEditing \/ DiscardConfirmed \/ CancelClicked
  \/ \E f \in EditorForm : Reset(f)
Attaching ==
  \/ \E u \in Uploads : AddUpload(u) \/ RemoveUpload(u)
  \/ \E u \in Uploads, state \in UploadStates : UpdateUpload(u, state)
  \/ \E a \in Attachments : DeleteAttachment(a) \/ UndoDeleteAttachment(a)

EditorNext == Loading \/ Editing \/ Saving \/ Closing \/ Attaching

EditorSpec == EditorInit /\ [][EditorNext]_editorVars

\* The editor never claims to be idle or saved (VIEWING, SAVED) while the
\* fields differ from the original they are compared with: the dirty check
\* that guards closing, and the Save button, rely on it in every order of
\* dispatches.
CleanMeansEqual == editorState \in {"VIEWING", "SAVED"} => form = originalForm
=============================================================================

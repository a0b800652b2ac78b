------------------------------ MODULE NoteEditor ------------------------------
(***************************************************************************)
(* The note editor of the web client at work: EditorProvider,              *)
(* useEditorSave and the editor's dialog over the reducer of EditorState,  *)
(* the page that opens it, and the items at the server.                    *)
(*                                                                         *)
(* A session is one mounted editor.  Its requests outlive it: the answer   *)
(* is handled by the callbacks of the session that sent it, which by then  *)
(* may be closed, or followed by another.  Only archived items reach the   *)
(* editor, so there is no confirm request.                                 *)
(***************************************************************************)
EXTENDS Integers, EditorState

CONSTANTS
  Items, NoItem,
  InvalidTitles, InvalidTexts,   \* refused by validateEditorForm
  Summary,                       \* the text a search result has for its summary
  MaxSessions                    \* bound: editors opened

ASSUME NoteEditorAssumption ==
  /\ NoItem \notin Items
  /\ Summary \in Texts
  /\ InvalidTitles \subseteq Titles /\ InvalidTexts \subseteq Texts
  /\ MaxSessions \in Nat

VARIABLES
  page,                \* where editors are opened; leaving it is left out
  stored,              \* the items at the server; live: ARCHIVED, not DISCARDED
  listed,              \* the page's copies of them
  editing,             \* the item of the open editor, or NoItem
  session,             \* how many editors have been opened
  confirmingDiscard,   \* the "Discard this item?" dialog is open
  requests             \* unanswered PATCH requests

pageVars == <<page, editing, session, confirmingDiscard>>
vars == <<editorVars, stored, listed, pageVars, requests>>

Unsent == "not sent"
ItemRow == [title : Titles, originalText : Texts, tags : SUBSET Tags, live : BOOLEAN]
Request == [session : 1..MaxSessions, item : Items, kind : {"update", "discard"},
            title : Titles \cup {Unsent}, originalText : Texts \cup {Unsent},
            state : {"sent", "done", "failed"}]

TypeOK ==
  /\ EditorTypeOK
  /\ page \in {"library", "search"}
  /\ stored \in [Items -> ItemRow] /\ listed \in [Items -> ItemRow]
  /\ editing \in Items \cup {NoItem}
  /\ session \in 0..MaxSessions
  /\ confirmingDiscard \in BOOLEAN
  /\ requests \in SUBSET Request

\* What the page holds of a row: the search page keeps no original text and
\* puts the summary in its place (toItem).
Copy(row) == IF page = "search" THEN [row EXCEPT !.originalText = Summary] ELSE row

FormOf(row) == [title |-> row.title, originalText |-> row.originalText, tags |-> row.tags]

Init ==
  /\ page \in {"library", "search"}
  /\ stored \in [Items -> {row \in ItemRow : row.live /\ row.originalText \notin InvalidTexts}]
  /\ listed = [i \in Items |-> Copy(stored[i])]
  /\ editing = NoItem /\ session = 0 /\ confirmingDiscard = FALSE
  /\ requests = {}
  /\ \E i \in Items : CreateInitialState(FormOf(listed[i]))

-----------------------------------------------------------------------------
(* The open editor                                                         *)

Interactive == editing # NoItem /\ ~confirmingDiscard
Pending == \E r \in requests : r.session = session

\* The buttons look at the editor's state alone.
IsSavingByState == editorState = "SAVING"

IsSaving == editorState = "SAVING" \/ Pending

Open(i) ==
  /\ editing = NoItem /\ session < MaxSessions
  /\ listed[i].live
  /\ editing' = i /\ session' = session + 1 /\ confirmingDiscard' = FALSE
  /\ Reset(FormOf(listed[i]))
  /\ UNCHANGED <<page, stored, listed, requests>>

\* The fields stay enabled while a save is under way.
Type(field, value) ==
  /\ Interactive /\ value # form[field]
  /\ SetField(field, value)
  /\ UNCHANGED <<stored, listed, pageVars, requests>>

TypeTitle(title) == Type("title", title)
TypeText(originalText) == Type("originalText", originalText)

PickTags(tags) ==
  /\ Interactive /\ tags # form.tags
  /\ SetTags(tags)
  /\ UNCHANGED <<stored, listed, pageVars, requests>>

InvalidFields ==
  {field \in Fields : form[field] \in (IF field = "title" THEN InvalidTitles ELSE InvalidTexts)}

\* A field is sent when it differs from the item as the page has it now.
Changed(field) ==
  IF form[field] = listed[editing][field] THEN Unsent ELSE form[field]

\* The two fields exchanged.
UpdateRequestSwapped ==
  [session |-> session, item |-> editing, kind |-> "update", title |-> Changed("originalText"),
   originalText |-> Changed("title"), state |-> "sent"]

\* Tag changes are computed for the request, and then left out of it.
UpdateRequest ==
  [session |-> session, item |-> editing, kind |-> "update", title |-> Changed("title"),
   originalText |-> Changed("originalText"), state |-> "sent"]
DiscardRequest ==
  [session |-> session, item |-> editing, kind |-> "discard", title |-> Unsent,
   originalText |-> Unsent, state |-> "sent"]

SaveEnabled == Interactive /\ HasUnsavedChanges /\ ~IsSaving

SaveInvalid ==
  /\ SaveEnabled
  /\ InvalidFields # {}
  /\ ValidationFailed(InvalidFields)
  /\ UNCHANGED <<stored, listed, pageVars, requests>>

Save ==
  /\ SaveEnabled
  /\ InvalidFields = {}
  /\ ValidationPassed
  /\ requests' = requests \cup {UpdateRequest}
  /\ UNCHANGED <<stored, listed, pageVars>>

\* Cancel button, Escape, a click outside.  Only the button waits for a save.
\* The action handed to setPendingAction is taken for a state updater and
\* runs at once, so unsaved changes are dropped without the dialog.
Cancel ==
  /\ Interactive
  /\ editing' = NoItem
  /\ IF HasUnsavedChanges THEN DiscardConfirmed ELSE UNCHANGED editorVars
  /\ UNCHANGED <<page, stored, listed, session, confirmingDiscard, requests>>

AskDiscard ==
  /\ Interactive /\ ~IsSaving
  /\ confirmingDiscard' = TRUE
  /\ UNCHANGED <<editorVars, page, stored, listed, editing, session, requests>>

KeepItem ==
  /\ confirmingDiscard
  /\ confirmingDiscard' = FALSE
  /\ UNCHANGED <<editorVars, page, stored, listed, editing, session, requests>>

ConfirmDiscard ==
  /\ confirmingDiscard
  /\ confirmingDiscard' = FALSE
  /\ requests' = requests \cup {DiscardRequest}
  /\ UNCHANGED <<editorVars, page, stored, listed, editing, session>>

-----------------------------------------------------------------------------
(* The server                                                              *)

Settle(r, state) == requests' = (requests \ {r}) \cup {[r EXCEPT !.state = state]}

Updated(row, r) ==
  [row EXCEPT !.title = IF r.title = Unsent THEN @ ELSE r.title,
              !.originalText = IF r.originalText = Unsent THEN @ ELSE r.originalText,
              !.live = @ /\ r.kind = "update"]

Perform(r) ==
  /\ r.state = "sent" /\ stored[r.item].live
  /\ stored' = [stored EXCEPT ![r.item] = Updated(@, r)]
  /\ Settle(r, "done")
  /\ UNCHANGED <<editorVars, listed, pageVars>>

\* Refused, or the request or its answer is lost.
Fail(r) ==
  /\ r.state \in {"sent", "done"}
  /\ Settle(r, "failed")
  /\ UNCHANGED <<editorVars, stored, listed, pageVars>>

-----------------------------------------------------------------------------
(* Answers                                                                 *)

\* The session that sent r is still open.
OfOpenEditor(r) == editing # NoItem /\ r.session = session

\* The editor closes itself once it is SAVED.  The code after a discard
\* closes whatever editor its page has open: on the search page there is one
\* for all items, in the library one per item.
Closes(r) ==
  \/ OfOpenEditor(r)
  \/ r.kind = "discard" /\ (page = "search" \/ r.item = editing)

HandleSuccess(r) ==
  /\ r.state = "done"
  /\ requests' = requests \ {r}
  /\ IF OfOpenEditor(r) THEN SaveSuccess ELSE UNCHANGED editorVars
  /\ editing' = IF Closes(r) THEN NoItem ELSE editing
  /\ confirmingDiscard' = IF Closes(r) THEN FALSE ELSE confirmingDiscard
  /\ UNCHANGED <<page, stored, listed, session>>

\* A failure that is only shown, without the dispatch.
HandleFailureQuietly(r) ==
  /\ r.state = "failed"
  /\ requests' = requests \ {r}
  /\ UNCHANGED <<editorVars, stored, listed, pageVars>>

HandleFailure(r) ==
  /\ r.state = "failed"
  /\ requests' = requests \ {r}
  /\ IF OfOpenEditor(r) THEN SaveFailure ELSE UNCHANGED editorVars
  /\ UNCHANGED <<stored, listed, pageVars>>

\* The library query is read again; the search results are not.
Refetch ==
  /\ page = "library" /\ listed # stored
  /\ listed' = stored
  /\ LET gone == editing # NoItem /\ ~stored[editing].live
     IN /\ editing' = IF gone THEN NoItem ELSE editing
        /\ confirmingDiscard' = IF gone THEN FALSE ELSE confirmingDiscard
  /\ UNCHANGED <<editorVars, page, stored, session, requests>>

-----------------------------------------------------------------------------
UserStep ==
  \/ \E i \in Items : Open(i)
  \/ \E title \in Titles : TypeTitle(title)
  \/ \E originalText \in Texts : TypeText(originalText)
  \/ \E tags \in SUBSET Tags : PickTags(tags)
  \/ SaveInvalid \/ Save \/ Cancel \/ AskDiscard \/ KeepItem \/ ConfirmDiscard

ServerStep == \E r \in requests : Perform(r) \/ Fail(r)
AnswerStep == \E r \in requests : HandleSuccess(r) \/ HandleFailure(r)

Next == UserStep \/ ServerStep \/ AnswerStep \/ Refetch

\* Requests are answered and answers handled; nobody has to type or click.
Fairness ==
  /\ WF_vars(\E r \in requests : r.state = "sent" /\ (Perform(r) \/ Fail(r)))
  /\ WF_vars(AnswerStep)

Spec == Init /\ [][Next]_vars /\ Fairness

-----------------------------------------------------------------------------
(* Properties                                                              *)

\* One editor never has two requests under way, although the fields stay
\* enabled and typing takes the editor out of SAVING: two saves of one form
\* could reach the server in either order and the older one win.
OneRequestPerEditor ==
  \A r1, r2 \in requests : r1.session = r2.session => r1 = r2

\* An editor that shows a save in progress does so only until the answer:
\* its buttons come back, or it closes.
SavingEnds == (editing # NoItem /\ IsSaving) ~> ~(editing # NoItem /\ IsSaving)

-----------------------------------------------------------------------------
(* What the documents say and the code does not do                         *)

\* The answer to a save is handled as a success in this step.
Succeeds(r) == /\ r.state = "done" /\ r.kind = "update"
               /\ {r, [r EXCEPT !.state = "failed"]} \cap requests' = {}

\* lib/hooks/useUnsavedChangesGuard.ts:4: unsaved changes are kept from an
\* accidental navigation.  When a save succeeds and its editor closes by itself,
\* each field holds what the server has, or what the item was listed with: nothing
\* typed during the save goes with the editor (SAVE_SUCCESS, EditorProvider).
UnsavedTypingIsKept ==
  [][\A r \in requests : Succeeds(r) /\ OfOpenEditor(r) =>
       \A field \in Fields : form[field] \in {stored[r.item][field], listed[r.item][field]}]_vars
=============================================================================

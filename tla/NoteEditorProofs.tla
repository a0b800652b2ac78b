--------------------------- MODULE NoteEditorProofs ---------------------------
(***************************************************************************)
(* Machine-checked proofs about the note editor: for any items, texts,     *)
(* tags, uploads and number of editors opened one after the other.         *)
(*                                                                         *)
(* The reducer keeps its promise by itself, in whatever order dispatches   *)
(* come.  That an editor has one request at a time needs to know besides   *)
(* that requests belong to editors opened so far, and that the discard     *)
(* dialog is open only while nothing is under way.                         *)
(***************************************************************************)
EXTENDS NoteEditor, TLAPS

SessionInv ==
  /\ \A r \in requests : r.session <= session
  /\ editing # NoItem => session > 0
  /\ confirmingDiscard => editing # NoItem /\ ~Pending

IInv == TypeOK /\ SessionInv /\ OneRequestPerEditor

-----------------------------------------------------------------------------
(* The reducer                                                             *)

\* Each dispatch leaves the editor clean only with the fields as the original.
LEMMA ReducerKeepsClean ==
  ASSUME CleanMeansEqual, EditorNext
  PROVE  CleanMeansEqual'
<1>1. CASE Loading
  BY <1>1 DEF Loading, LoadSuccess, LoadFailure, RetryLoad, GoTo, CleanMeansEqual
<1>2. CASE Editing
  BY <1>2 DEF Editing, SetField, AddTag, RemoveTag, SetTags, ShowForm, CleanMeansEqual
<1>3. CASE Saving
  BY <1>3 DEF Saving, SaveClicked, ValidationPassed, ValidationFailed, SaveSuccess, SaveFailure,
              GoTo, CleanMeansEqual
<1>4. CASE Closing
  BY <1>4 DEF Closing, CloseClicked, KeepEditing, DiscardConfirmed, CancelClicked, Reset, GoTo,
              CleanMeansEqual
<1>5. CASE Attaching
  BY <1>5 DEF Attaching, AddUpload, RemoveUpload, UpdateUpload, SetUpload, DeleteAttachment,
              UndoDeleteAttachment, MarkDeleted, CleanMeansEqual
<1>. QED
  BY <1>1, <1>2, <1>3, <1>4, <1>5 DEF EditorNext

\* The reducer of useEditorState never shows VIEWING or SAVED over changed
\* fields, whoever dispatches what and when.
THEOREM CleanReducer == EditorSpec => []CleanMeansEqual
<1>1. EditorInit => CleanMeansEqual
  BY DEF EditorInit, CreateInitialState, CleanMeansEqual
<1>2. CleanMeansEqual /\ [EditorNext]_editorVars => CleanMeansEqual'
  <2>1. CASE EditorNext
    BY <2>1, ReducerKeepsClean
  <2>2. CASE UNCHANGED editorVars
    BY <2>2 DEF editorVars, CleanMeansEqual
  <2>. QED
    BY <2>1, <2>2
<1>. QED
  BY <1>1, <1>2, PTL DEF EditorSpec

\* What a step of NoteEditor does to the reducer's state.
LEMMA EditorSteps ==
  ASSUME [Next]_vars
  PROVE  \/ UNCHANGED editorVars
         \/ \E f : Reset(f)
         \/ \E field \in Fields : \E v : SetField(field, v)
         \/ \E tags : SetTags(tags)
         \/ \E fields : ValidationFailed(fields)
         \/ ValidationPassed \/ DiscardConfirmed \/ SaveSuccess \/ SaveFailure
<1>1. CASE UNCHANGED vars
  BY <1>1 DEF vars
<1>2. CASE UserStep
  <2>1. CASE \E i \in Items : Open(i)
    BY <2>1 DEF Open
  <2>2. CASE \E title \in Titles : TypeTitle(title)
    BY <2>2 DEF TypeTitle, Type, Fields
  <2>3. CASE \E originalText \in Texts : TypeText(originalText)
    BY <2>3 DEF TypeText, Type, Fields
  <2>4. CASE \E tags \in SUBSET Tags : PickTags(tags)
    BY <2>4 DEF PickTags
  <2>5. CASE SaveInvalid \/ Save
    BY <2>5 DEF SaveInvalid, Save
  <2>6. CASE Cancel
    BY <2>6 DEF Cancel
  <2>7. CASE AskDiscard \/ KeepItem \/ ConfirmDiscard
    BY <2>7 DEF AskDiscard, KeepItem, ConfirmDiscard
  <2>. QED
    BY <1>2, <2>1, <2>2, <2>3, <2>4, <2>5, <2>6, <2>7 DEF UserStep
<1>3. CASE ServerStep
  BY <1>3 DEF ServerStep, Perform, Fail
<1>4. CASE AnswerStep
  BY <1>4 DEF AnswerStep, HandleSuccess, HandleFailure
<1>5. CASE Refetch
  BY <1>5 DEF Refetch
<1>. QED
  BY <1>1, <1>2, <1>3, <1>4, <1>5 DEF Next

\* The same in the editor at work, with its requests and answers.
THEOREM CleanEditor == Spec => []CleanMeansEqual
<1>1. Init => CleanMeansEqual
  BY DEF Init, CreateInitialState, CleanMeansEqual
<1>2. CleanMeansEqual /\ [Next]_vars => CleanMeansEqual'
  <2>. SUFFICES ASSUME CleanMeansEqual, [Next]_vars PROVE CleanMeansEqual'
    OBVIOUS
  <2>1. CASE UNCHANGED editorVars
    BY <2>1 DEF editorVars, CleanMeansEqual
  <2>2. CASE \E f : Reset(f)
    BY <2>2 DEF Reset, CleanMeansEqual
  <2>3. CASE \E field \in Fields : \E v : SetField(field, v)
    BY <2>3 DEF SetField, ShowForm, CleanMeansEqual
  <2>4. CASE \E tags : SetTags(tags)
    BY <2>4 DEF SetTags, ShowForm, CleanMeansEqual
  <2>5. CASE (\E fields : ValidationFailed(fields)) \/ ValidationPassed \/ DiscardConfirmed
             \/ SaveSuccess \/ SaveFailure
    BY <2>5 DEF ValidationFailed, ValidationPassed, DiscardConfirmed, SaveSuccess, SaveFailure,
                GoTo, CleanMeansEqual
  <2>. QED
    BY <2>1, <2>2, <2>3, <2>4, <2>5, EditorSteps
<1>. QED
  BY <1>1, <1>2, PTL DEF Spec

-----------------------------------------------------------------------------
(* One request per editor                                                  *)

LEMMA CopyType ==
  ASSUME NEW row \in ItemRow
  PROVE  Copy(row) \in ItemRow
BY NoteEditorAssumption DEF Copy, ItemRow

LEMMA FormType ==
  ASSUME NEW row \in ItemRow
  PROVE  FormOf(row) \in EditorForm
BY DEF FormOf, ItemRow, EditorForm

LEMMA InitInv == ASSUME Init PROVE IInv
<1>1. stored \in [Items -> ItemRow]
  BY DEF Init
<1>2. listed \in [Items -> ItemRow]
  BY <1>1, CopyType DEF Init
<1>3. PICK i \in Items : CreateInitialState(FormOf(listed[i]))
  BY DEF Init
<1>4. FormOf(listed[i]) \in EditorForm
  BY <1>2, FormType
<1>5. EditorTypeOK
  BY <1>3, <1>4 DEF CreateInitialState, EditorTypeOK, EditorStates, NoUploads
<1>6. TypeOK
  <2>1. page \in {"library", "search"} /\ confirmingDiscard \in BOOLEAN
    BY DEF Init
  <2>2. editing \in Items \cup {NoItem}
    BY DEF Init
  <2>3. session \in 0..MaxSessions
    BY NoteEditorAssumption DEF Init
  <2>4. requests \in SUBSET Request
    BY DEF Init
  <2>. QED
    BY <1>1, <1>2, <1>5, <2>1, <2>2, <2>3, <2>4 DEF TypeOK
<1>7. SessionInv
  <2>1. requests = {} /\ editing = NoItem /\ ~confirmingDiscard
    BY DEF Init
  <2>. QED
    BY <2>1 DEF SessionInv
<1>8. OneRequestPerEditor
  BY DEF Init, OneRequestPerEditor
<1>. QED
  BY <1>6, <1>7, <1>8 DEF IInv

\* The reducer keeps its types in every step an editor takes.
LEMMA ResetType == ASSUME EditorTypeOK, NEW f \in EditorForm, Reset(f) PROVE EditorTypeOK'
BY DEF EditorTypeOK, Reset, EditorStates, NoUploads

LEMMA ShowFormType ==
  ASSUME EditorTypeOK, NEW f \in EditorForm, ShowForm(f), validationErrors' \in SUBSET Fields
  PROVE  EditorTypeOK'
BY DEF EditorTypeOK, ShowForm, SameFiles, EditorStates

LEMMA SaveStepsType ==
  ASSUME EditorTypeOK,
         ValidationPassed \/ ValidationFailed(InvalidFields) \/ SaveFailure
  PROVE  EditorTypeOK'
BY DEF EditorTypeOK, ValidationPassed, ValidationFailed, InvalidFields, SaveFailure, GoTo,
       SameFiles, EditorStates

LEMMA SaveSuccessType == ASSUME EditorTypeOK, SaveSuccess PROVE EditorTypeOK'
BY DEF EditorTypeOK, SaveSuccess, EditorStates

LEMMA DiscardType == ASSUME EditorTypeOK, DiscardConfirmed PROVE EditorTypeOK'
BY DEF EditorTypeOK, DiscardConfirmed, EditorStates, NoUploads

\* A step that neither opens an editor nor sends a request keeps the
\* invariant, if the dialog does not open.
LEMMA QuietStep ==
  ASSUME IInv, EditorTypeOK', UNCHANGED <<page, stored, session, requests>>,
         listed' \in [Items -> ItemRow],
         editing' \in {editing, NoItem}, confirmingDiscard' \in {confirmingDiscard, FALSE},
         confirmingDiscard' => editing' # NoItem
  PROVE  IInv'
<1>1. TypeOK'
  BY DEF IInv, TypeOK
<1>2. SessionInv'
  <2>1. \A r \in requests' : r.session <= session'
    BY DEF IInv, SessionInv
  <2>2. editing' # NoItem => session' > 0
    BY DEF IInv, SessionInv
  <2>3. confirmingDiscard' => ~Pending'
    <3>1. confirmingDiscard' => confirmingDiscard
      OBVIOUS
    <3>2. Pending' <=> Pending
      BY DEF Pending
    <3>. QED
      BY <3>1, <3>2 DEF IInv, SessionInv
  <2>. QED
    BY <2>1, <2>2, <2>3 DEF SessionInv
<1>3. OneRequestPerEditor'
  BY DEF IInv, OneRequestPerEditor
<1>. QED
  BY <1>1, <1>2, <1>3 DEF IInv

LEMMA OpenInv == ASSUME IInv, NEW i \in Items, Open(i) PROVE IInv'
<1>1. EditorTypeOK'
  BY FormType, ResetType DEF IInv, TypeOK, Open
<1>2. session' = session + 1 /\ session' \in 0..MaxSessions /\ session \in Nat
  BY NoteEditorAssumption DEF IInv, TypeOK, Open
<1>3. TypeOK'
  BY <1>1, <1>2 DEF IInv, TypeOK, Open
<1>4. \A r \in requests : r.session \in Nat
  BY NoteEditorAssumption DEF IInv, TypeOK, Request
<1>5. SessionInv'
  BY <1>2, <1>4 DEF IInv, SessionInv, Open
<1>6. OneRequestPerEditor'
  BY DEF IInv, OneRequestPerEditor, Open
<1>. QED
  BY <1>3, <1>5, <1>6 DEF IInv

LEMMA TypingInv ==
  ASSUME IInv,
         \/ \E title \in Titles : TypeTitle(title)
         \/ \E originalText \in Texts : TypeText(originalText)
         \/ \E tags \in SUBSET Tags : PickTags(tags)
  PROVE  IInv'
<1>1. form \in EditorForm /\ validationErrors \in SUBSET Fields
  BY DEF IInv, TypeOK, EditorTypeOK
<1>2. CASE \E title \in Titles : TypeTitle(title)
  <2>1. PICK title \in Titles : TypeTitle(title)
    BY <1>2
  <2>2. [form EXCEPT !["title"] = title] \in EditorForm
    BY <1>1 DEF EditorForm
  <2>3. EditorTypeOK'
    BY <1>1, <2>1, <2>2, ShowFormType DEF TypeTitle, Type, SetField, IInv, TypeOK
  <2>. QED
    BY <2>1, <2>3, QuietStep DEF TypeTitle, Type, pageVars, IInv, TypeOK, SessionInv
<1>3. CASE \E originalText \in Texts : TypeText(originalText)
  <2>1. PICK originalText \in Texts : TypeText(originalText)
    BY <1>3
  <2>2. [form EXCEPT !["originalText"] = originalText] \in EditorForm
    BY <1>1 DEF EditorForm
  <2>3. EditorTypeOK'
    BY <1>1, <2>1, <2>2, ShowFormType DEF TypeText, Type, SetField, IInv, TypeOK
  <2>. QED
    BY <2>1, <2>3, QuietStep DEF TypeText, Type, pageVars, IInv, TypeOK, SessionInv
<1>4. CASE \E tags \in SUBSET Tags : PickTags(tags)
  <2>1. PICK tags \in SUBSET Tags : PickTags(tags)
    BY <1>4
  <2>2. [form EXCEPT !.tags = tags] \in EditorForm
    BY <1>1 DEF EditorForm
  <2>3. EditorTypeOK'
    BY <1>1, <2>1, <2>2, ShowFormType DEF PickTags, SetTags, IInv, TypeOK
  <2>. QED
    BY <2>1, <2>3, QuietStep DEF PickTags, pageVars, IInv, TypeOK, SessionInv
<1>. QED
  BY <1>2, <1>3, <1>4

LEMMA RefusedSaveInv == ASSUME IInv, SaveInvalid PROVE IInv'
<1>1. EditorTypeOK'
  BY SaveStepsType DEF SaveInvalid, IInv, TypeOK
<1>. QED
  BY <1>1, QuietStep DEF SaveInvalid, pageVars, IInv, TypeOK, SessionInv

\* A request is added for the open editor, which has none.
LEMMA RequestSent ==
  ASSUME IInv, EditorTypeOK', NEW r \in Request, r.session = session, ~Pending,
         requests' = requests \cup {r}, UNCHANGED <<page, stored, listed, editing, session>>,
         confirmingDiscard' = FALSE
  PROVE  IInv'
<1>1. TypeOK'
  BY DEF IInv, TypeOK
<1>2. session <= session
  BY NoteEditorAssumption DEF IInv, TypeOK
<1>3. \A q \in requests' : q.session <= session'
  BY <1>2 DEF IInv, SessionInv
<1>4. SessionInv'
  BY <1>3 DEF IInv, SessionInv
<1>5. OneRequestPerEditor'
  BY DEF IInv, OneRequestPerEditor, Pending
<1>. QED
  BY <1>1, <1>4, <1>5 DEF IInv

LEMMA OpenSession ==
  ASSUME IInv, editing # NoItem
  PROVE  session \in 1..MaxSessions /\ editing \in Items
BY NoteEditorAssumption DEF IInv, SessionInv, TypeOK

LEMMA SaveInv == ASSUME IInv, Save PROVE IInv'
<1>1. EditorTypeOK'
  BY SaveStepsType DEF Save, IInv, TypeOK
<1>2. editing # NoItem /\ ~Pending /\ ~confirmingDiscard
  BY DEF Save, SaveEnabled, Interactive, IsSaving
<1>3. session \in 1..MaxSessions /\ editing \in Items
  BY <1>2, OpenSession
<1>4. form.title \in Titles /\ form.originalText \in Texts
  BY DEF IInv, TypeOK, EditorTypeOK, EditorForm
<1>5. Changed("title") \in Titles \cup {Unsent} /\ Changed("originalText") \in Texts \cup {Unsent}
  BY <1>4 DEF Changed
<1>6. UpdateRequest \in Request /\ UpdateRequest.session = session
  BY <1>3, <1>5 DEF UpdateRequest, Request
<1>7. confirmingDiscard' = FALSE
  BY <1>2 DEF Save, pageVars, IInv, TypeOK
<1>. QED
  BY <1>1, <1>2, <1>6, <1>7, RequestSent DEF Save, pageVars

LEMMA ConfirmDiscardInv == ASSUME IInv, ConfirmDiscard PROVE IInv'
<1>1. EditorTypeOK'
  BY DEF ConfirmDiscard, editorVars, IInv, TypeOK, EditorTypeOK
<1>2. editing # NoItem /\ ~Pending
  BY DEF ConfirmDiscard, IInv, SessionInv
<1>3. DiscardRequest \in Request /\ DiscardRequest.session = session
  BY <1>2, OpenSession DEF DiscardRequest, Request
<1>. QED
  BY <1>1, <1>2, <1>3, RequestSent DEF ConfirmDiscard

LEMMA AskDiscardInv == ASSUME IInv, AskDiscard PROVE IInv'
<1>1. TypeOK'
  BY DEF AskDiscard, editorVars, IInv, TypeOK, EditorTypeOK
<1>2. editing' # NoItem /\ ~Pending'
  BY DEF AskDiscard, Interactive, IsSaving, Pending
<1>3. SessionInv'
  BY <1>2 DEF AskDiscard, IInv, SessionInv
<1>4. OneRequestPerEditor'
  BY DEF AskDiscard, IInv, OneRequestPerEditor
<1>. QED
  BY <1>1, <1>3, <1>4 DEF IInv

LEMMA CloseInv == ASSUME IInv, KeepItem \/ Cancel PROVE IInv'
<1>1. CASE KeepItem
  <2>1. EditorTypeOK'
    BY <1>1 DEF KeepItem, editorVars, IInv, TypeOK, EditorTypeOK
  <2>. QED
    BY <1>1, <2>1, QuietStep DEF KeepItem, IInv, TypeOK
<1>2. CASE Cancel
  <2>1. EditorTypeOK'
    BY <1>2, DiscardType DEF Cancel, editorVars, IInv, TypeOK, EditorTypeOK
  <2>2. ~confirmingDiscard'
    BY <1>2 DEF Cancel, Interactive
  <2>. QED
    BY <1>2, <2>1, <2>2, QuietStep DEF Cancel, IInv, TypeOK
<1>. QED
  BY <1>1, <1>2

LEMMA UpdatedType ==
  ASSUME NEW row \in ItemRow, NEW r \in Request
  PROVE  Updated(row, r) \in ItemRow
BY DEF Updated, ItemRow, Request, Unsent

\* A request that changes its state stays the same editor's one request.
LEMMA Settled ==
  ASSUME IInv, NEW r \in requests, NEW state \in {"done", "failed"}, Settle(r, state),
         UNCHANGED <<editorVars, listed, pageVars>>, stored' \in [Items -> ItemRow]
  PROVE  IInv'
<1>. DEFINE s == [r EXCEPT !.state = state]
<1>1. r \in Request /\ s \in Request /\ s.session = r.session
  BY DEF IInv, TypeOK, Request
<1>2. requests' = (requests \ {r}) \cup {s}
  BY DEF Settle
<1>3. TypeOK'
  BY <1>1, <1>2 DEF IInv, TypeOK, EditorTypeOK, editorVars, pageVars
<1>4. \A q \in requests' : \E o \in requests : o.session = q.session
  BY <1>1, <1>2
<1>5. SessionInv'
  <2>1. \A q \in requests' : q.session <= session'
    BY <1>4 DEF IInv, SessionInv, pageVars
  <2>2. editing' # NoItem => session' > 0
    BY DEF IInv, SessionInv, pageVars
  <2>3. confirmingDiscard' => editing' # NoItem /\ ~Pending'
    BY <1>4 DEF IInv, SessionInv, pageVars, Pending
  <2>. QED
    BY <2>1, <2>2, <2>3 DEF SessionInv
<1>6. OneRequestPerEditor'
  BY <1>1, <1>2 DEF IInv, OneRequestPerEditor
<1>. QED
  BY <1>3, <1>5, <1>6 DEF IInv

LEMMA ServerInv == ASSUME IInv, ServerStep PROVE IInv'
<1>1. PICK r \in requests : Perform(r) \/ Fail(r)
  BY DEF ServerStep
<1>2. CASE Perform(r)
  <2>1. r \in Request /\ r.item \in Items /\ stored \in [Items -> ItemRow]
    BY DEF IInv, TypeOK, Request
  <2>2. stored' \in [Items -> ItemRow]
    BY <1>2, <2>1, UpdatedType DEF Perform
  <2>. QED
    BY <1>2, <2>2, Settled DEF Perform
<1>3. CASE Fail(r)
  BY <1>3, Settled DEF Fail, IInv, TypeOK
<1>. QED
  BY <1>1, <1>2, <1>3

\* An answered request is gone, and the editor stays or closes.
LEMMA AnswerInv == ASSUME IInv, AnswerStep PROVE IInv'
<1>1. PICK r \in requests : HandleSuccess(r) \/ HandleFailure(r)
  BY DEF AnswerStep
<1>2. requests' = requests \ {r} /\ UNCHANGED <<page, stored, listed, session>>
  BY <1>1 DEF HandleSuccess, HandleFailure, pageVars
<1>3. EditorTypeOK'
  <2>1. CASE UNCHANGED editorVars
    BY <2>1 DEF editorVars, IInv, TypeOK, EditorTypeOK
  <2>2. CASE SaveSuccess \/ SaveFailure
    BY <2>2, SaveSuccessType, SaveStepsType DEF IInv, TypeOK
  <2>. QED
    BY <1>1, <2>1, <2>2 DEF HandleSuccess, HandleFailure
<1>4. \/ editing' = NoItem /\ ~confirmingDiscard' /\ confirmingDiscard' \in BOOLEAN
      \/ editing' = editing /\ confirmingDiscard' = confirmingDiscard
  BY <1>1 DEF HandleSuccess, HandleFailure, pageVars
<1>5. TypeOK'
  BY <1>2, <1>3, <1>4 DEF IInv, TypeOK
<1>6. SessionInv'
  <2>1. \A q \in requests' : q.session <= session'
    BY <1>2 DEF IInv, SessionInv
  <2>2. editing' # NoItem => session' > 0
    BY <1>2, <1>4 DEF IInv, SessionInv
  <2>3. confirmingDiscard' => editing' # NoItem /\ ~Pending'
    BY <1>2, <1>4 DEF IInv, SessionInv, Pending
  <2>. QED
    BY <2>1, <2>2, <2>3 DEF SessionInv
<1>7. OneRequestPerEditor'
  BY <1>2 DEF IInv, OneRequestPerEditor
<1>. QED
  BY <1>5, <1>6, <1>7 DEF IInv

LEMMA RefetchInv == ASSUME IInv, Refetch PROVE IInv'
<1>1. EditorTypeOK'
  BY DEF Refetch, editorVars, IInv, TypeOK, EditorTypeOK
<1>2. \/ editing' = NoItem /\ confirmingDiscard' = FALSE
      \/ editing' = editing /\ confirmingDiscard' = confirmingDiscard
  BY DEF Refetch
<1>3. confirmingDiscard' => editing' # NoItem
  BY <1>2 DEF IInv, SessionInv
<1>. QED
  BY <1>1, <1>2, <1>3, QuietStep DEF Refetch, IInv, TypeOK

LEMMA StepInv == ASSUME IInv, [Next]_vars PROVE IInv'
<1>1. CASE UNCHANGED vars
  <2>1. EditorTypeOK'
    BY <1>1 DEF vars, editorVars, IInv, TypeOK, EditorTypeOK
  <2>. QED
    BY <1>1, <2>1, QuietStep DEF vars, pageVars, IInv, TypeOK, SessionInv
<1>2. CASE UserStep
  BY <1>2, OpenInv, TypingInv, RefusedSaveInv, SaveInv, CloseInv, AskDiscardInv, ConfirmDiscardInv
     DEF UserStep
<1>3. CASE ServerStep
  BY <1>3, ServerInv
<1>4. CASE AnswerStep
  BY <1>4, AnswerInv
<1>5. CASE Refetch
  BY <1>5, RefetchInv
<1>. QED
  BY <1>1, <1>2, <1>3, <1>4, <1>5 DEF Next

LEMMA Invariance == Spec => []IInv
BY InitInv, StepInv, PTL DEF Spec

\* Every reachable state of the editor at work is well typed.
THEOREM EditorTypes == Spec => []TypeOK
BY Invariance, PTL DEF IInv

\* An editor never has two requests under way, however the user types and
\* clicks while a save is on its way, and however many editors follow it.
THEOREM OneRequest == Spec => []OneRequestPerEditor
BY Invariance, PTL DEF IInv
=============================================================================

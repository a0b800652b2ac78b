-------------------------- MODULE NoteCaptureProofs --------------------------
(***************************************************************************)
(* Saving from the home box: nothing submitted is lost and nothing is      *)
(* shown as uploaded that is not attached, for any files, tags and numbers *)
(* of notes and faults.                                                    *)
(***************************************************************************)
EXTENDS NoteCapture, SequenceTheorems, TLAPS

UploadSteps == {"initiate", "put", "complete"}
Noted(n) == \E k \in DOMAIN notes : notes[k].text = n

TypeInv == TypeOK /\ notes \in Seq(Note) /\ uploads \in Seq(Upload)

\* The note of the save under way is stored.
NoteStored ==
  \/ save.step \in {"nextFile"} \cup UploadSteps
  \/ save.step = "createItem" /\ save.reply = "ok"

\* A save belongs to a user who is signed in and whose text stays in the box.
SaveInv ==
  /\ IsSaving => page = "home" /\ signedIn /\ save.text = text
  /\ page = "login" => ~signedIn
  /\ save.step = "createTag" => save.newTags # {}
  /\ save.step \in UploadSteps => save.files # {}
  /\ save.step = "nextFile" => save.reply = "none"
  /\ NoteStored => save.note # 0 /\ Noted(save.text)

\* What a signed-out user has submitted is in the draft, which is in the box
\* once the user is back.
KeepInv ==
  /\ 0 \notin submitted
  /\ SubmittedTextKept
  /\ ~signedIn => \A n \in submitted : n = draft \/ Noted(n)
  /\ page = "home" /\ draft \in submitted => draft = text \/ Noted(draft)

\* The upload under way is that of the file under way.
UploadBegun == save.step \in {"put", "complete"} \/ (save.step = "initiate" /\ save.reply = "ok")

UploadInv ==
  /\ save.upload = 0 \/ save.upload \in DOMAIN uploads
  /\ UploadBegun => save.upload \in DOMAIN uploads /\ uploads[save.upload].file = File
  /\ save.step = "complete" /\ save.reply = "ok" => uploads[save.upload].note # 0
  /\ SuccessMeansAttached

IInv == TypeInv /\ SaveInv /\ KeepInv /\ UploadInv

-----------------------------------------------------------------------------
LEMMA InitInv == Init => IInv
<1> SUFFICES ASSUME Init PROVE IInv
  OBVIOUS
<1> USE NoteCaptureAssumption
<1>1. TypeInv
  BY DEF Init, TypeInv, TypeOK, Texts, NothingStaged, StagedStatus, NoSave, Save, Steps
<1>2. SaveInv
  BY DEF Init, SaveInv, IsSaving, NoteStored, NoSave, UploadSteps
<1>3. KeepInv
  BY DEF Init, KeepInv, SubmittedTextKept
<1>4. UploadInv
  BY DEF Init, UploadInv, UploadBegun, NoSave, SuccessMeansAttached, NothingStaged
<1> QED BY <1>1, <1>2, <1>3, <1>4 DEF IInv

-----------------------------------------------------------------------------
\* The steps that leave the save and the server alone.
LEMMA BoxStep ==
  ASSUME IInv, UNCHANGED <<save, serverVars, faults, knownTags>>,
         \/ Type \/ ClearText \/ ToggleAi \/ SaveSignedOut \/ AskForTags \/ Return
         \/ \E tags \in SUBSET Tags : PickTags(tags)
  PROVE  IInv'
<1> USE NoteCaptureAssumption
<1>1. TypeInv'
  <2> USE DEF IInv, TypeInv, TypeOK, Texts, StagedStatus, NothingStaged, serverVars
  <2>1. CASE Type
    BY <2>1 DEF Type
  <2>2. CASE ClearText
    BY <2>2 DEF ClearText
  <2>3. CASE ToggleAi
    BY <2>3 DEF ToggleAi
  <2>4. CASE SaveSignedOut
    BY <2>4 DEF SaveSignedOut, CanSave
  <2>5. CASE AskForTags
    BY <2>5 DEF AskForTags
  <2>6. CASE Return
    BY <2>6 DEF Return
  <2>7. CASE \E tags \in SUBSET Tags : PickTags(tags)
    BY <2>7 DEF PickTags
  <2> QED BY <2>1, <2>2, <2>3, <2>4, <2>5, <2>6, <2>7
<1>2. SaveInv'
  BY DEF IInv, SaveInv, IsSaving, NoteStored, Noted, serverVars,
         Type, ClearText, ToggleAi, SaveSignedOut, AskForTags, Return, PickTags, CanSave
<1>3. KeepInv'
  <2> USE DEF IInv, TypeInv, TypeOK, Texts, SaveInv, KeepInv, SubmittedTextKept, IsSaving, Noted, serverVars
  <2>1. CASE Type
    BY <2>1 DEF Type
  <2>2. CASE ClearText
    BY <2>2 DEF ClearText
  <2>3. CASE ToggleAi
    BY <2>3 DEF ToggleAi
  <2>4. CASE SaveSignedOut
    BY <2>4 DEF SaveSignedOut, CanSave
  <2>5. CASE AskForTags
    BY <2>5 DEF AskForTags
  <2>6. CASE Return
    BY <2>6 DEF Return
  <2>7. CASE \E tags \in SUBSET Tags : PickTags(tags)
    BY <2>7 DEF PickTags
  <2> QED BY <2>1, <2>2, <2>3, <2>4, <2>5, <2>6, <2>7
<1>4. UploadInv'
  BY DEF IInv, UploadInv, UploadBegun, File, SuccessMeansAttached, Attached, NothingStaged, serverVars,
         Type, ClearText, ToggleAi, SaveSignedOut, AskForTags, Return, PickTags, CanSave
<1> QED BY <1>1, <1>2, <1>3, <1>4 DEF IInv

\* Putting files on the page and taking them off shows none as uploaded.
LEMMA StagingStep ==
  ASSUME IInv,
         \/ \E files \in SUBSET Files : Drop(files) \/ PickFiles(files)
         \/ \E f \in Files : Paste(f) \/ RemoveStaged(f) \/ RetryStaged(f)
  PROVE  IInv'
<1>1. UNCHANGED <<boxVars, save, knownTags, serverVars, faults>>
  BY DEF Drop, PickFiles, Paste, Accept, RemoveStaged, RetryStaged
<1>2. /\ staged' \in [Files -> StagedStatus \cup {"absent"}]
      /\ \A f \in Files : staged'[f] = "success" => staged[f] = "success"
  BY DEF IInv, TypeInv, TypeOK, StagedStatus, Drop, PickFiles, Paste, Accept, RemoveStaged, RetryStaged
<1>3. TypeInv'
  BY <1>1, <1>2 DEF IInv, TypeInv, TypeOK, boxVars, serverVars
<1>4. SaveInv' /\ KeepInv'
  BY <1>1 DEF IInv, SaveInv, KeepInv, SubmittedTextKept, IsSaving, NoteStored, Noted, boxVars, serverVars
<1>5. UploadInv'
  BY <1>1, <1>2 DEF IInv, UploadInv, UploadBegun, File, SuccessMeansAttached, Attached, serverVars
<1> QED BY <1>3, <1>4, <1>5 DEF IInv

LEMMA HandleSaveStep == IInv /\ HandleSave => IInv'
<1> SUFFICES ASSUME IInv, HandleSave PROVE IInv'
  OBVIOUS
<1>1. TypeInv'
  BY DEF IInv, TypeInv, TypeOK, HandleSave, NoSave, Save, Steps, Present, serverVars
<1>2. SaveInv'
  BY DEF IInv, TypeInv, TypeOK, SaveInv, HandleSave, CanSave, NoSave, IsSaving, NoteStored, UploadSteps
<1>3. KeepInv'
  BY DEF IInv, KeepInv, SubmittedTextKept, Noted, HandleSave, CanSave, serverVars
<1>4. UploadInv'
  BY DEF IInv, UploadInv, UploadBegun, SuccessMeansAttached, Attached, HandleSave, NoSave, serverVars
<1> QED BY <1>1, <1>2, <1>3, <1>4 DEF IInv

-----------------------------------------------------------------------------
\* The answers before the first file.  The box keeps its text until the end.
LEMMA AnswerStep == IInv /\ (TagAnswered \/ ItemAnswered) => IInv'
<1> SUFFICES ASSUME IInv, TagAnswered \/ ItemAnswered PROVE IInv'
  OBVIOUS
<1>1. UNCHANGED <<boxVars, staged, knownTags, serverVars, faults>>
  BY DEF TagAnswered, ItemAnswered
<1>2. CASE TagAnswered
  <2> DEFINE last == save.newTags = {NewTag}
  <2>1. /\ save.step = "createTag" /\ NewTag \in save.newTags
        /\ save.newTags \subseteq Tags /\ save.tagIds \subseteq Tags
    BY <1>2 DEF IInv, TypeInv, TypeOK, Save, SaveInv, TagAnswered, NewTag
  <2>2. save' = [save EXCEPT !.step = IF last THEN "createItem" ELSE "createTag",
                             !.reply = "none", !.newTags = @ \ {NewTag},
                             !.tagIds = IF save.reply = "ok" THEN @ \cup {NewTag} ELSE @]
    BY <1>2 DEF TagAnswered
  <2>3. TypeInv'
    BY <1>1, <2>1, <2>2 DEF IInv, TypeInv, TypeOK, Save, Steps, boxVars, serverVars
  <2>4. SaveInv'
    BY <1>1, <2>1, <2>2 DEF IInv, TypeInv, TypeOK, Save, SaveInv, IsSaving, NoteStored, UploadSteps, boxVars
  <2>5. KeepInv'
    BY <1>1 DEF IInv, KeepInv, SubmittedTextKept, Noted, boxVars, serverVars
  <2>6. UploadInv'
    BY <1>1, <2>1, <2>2 DEF IInv, TypeInv, TypeOK, Save, UploadInv, UploadBegun, SuccessMeansAttached, Attached, serverVars
  <2> QED BY <2>3, <2>4, <2>5, <2>6 DEF IInv
<1>3. CASE ItemAnswered
  <2>1. save.step = "createItem" /\ save \in Save
    BY <1>3 DEF IInv, TypeInv, TypeOK, ItemAnswered
  <2>2. \/ save.reply = "ok" /\ save' = [save EXCEPT !.step = "nextFile", !.reply = "none"]
        \/ save' = NoSave
    BY <1>3 DEF ItemAnswered
  <2>3. KeepInv'
    BY <1>1 DEF IInv, KeepInv, SubmittedTextKept, Noted, boxVars, serverVars
  <2>4. SuccessMeansAttached'
    BY <1>1 DEF IInv, UploadInv, SuccessMeansAttached, Attached, serverVars
  <2>5. CASE save.reply = "ok" /\ save' = [save EXCEPT !.step = "nextFile", !.reply = "none"]
    <3>1. /\ save' \in Save /\ save'.step = "nextFile" /\ save'.reply = "none" /\ save'.text = save.text
          /\ save'.note = save.note /\ save'.upload = save.upload
      BY <2>1, <2>5 DEF Save, Steps
    <3>2. TypeInv'
      BY <1>1, <3>1 DEF IInv, TypeInv, TypeOK, boxVars, serverVars
    <3>3. SaveInv'
      BY <1>1, <2>1, <2>5, <3>1 DEF IInv, SaveInv, IsSaving, NoteStored, Noted, UploadSteps, boxVars, serverVars
    <3>4. UploadInv'
      BY <1>1, <2>4, <3>1 DEF IInv, UploadInv, UploadBegun, serverVars
    <3> QED BY <2>3, <3>2, <3>3, <3>4 DEF IInv
  <2>6. CASE save' = NoSave
    <3>1. save' \in Save /\ save'.step = "idle" /\ save'.upload = 0
      BY <2>6, NoteCaptureAssumption DEF NoSave, Save, Steps, Texts
    <3>2. TypeInv'
      BY <1>1, <3>1 DEF IInv, TypeInv, TypeOK, boxVars, serverVars
    <3>3. SaveInv'
      BY <1>1, <3>1 DEF IInv, SaveInv, IsSaving, NoteStored, UploadSteps, boxVars
    <3>4. UploadInv'
      BY <2>4, <3>1 DEF UploadInv, UploadBegun
    <3> QED BY <2>3, <3>2, <3>3, <3>4 DEF IInv
  <2> QED BY <2>2, <2>5, <2>6
<1> QED BY <1>2, <1>3

\* The file under way is one of those left.
LEMMA FileType ==
  ASSUME TypeInv, save.files # {}
  PROVE  File \in save.files /\ File \in Files
  BY DEF TypeInv, TypeOK, Save, File

\* A file is marked as uploaded only when its completion was answered, and by
\* then it is attached.
LEMMA UploadStep == IInv /\ (StartUpload \/ UploadAnswered) => IInv'
<1> SUFFICES ASSUME IInv, StartUpload \/ UploadAnswered PROVE IInv'
  OBVIOUS
<1> DEFINE file == File
<1>1. /\ UNCHANGED <<boxVars, knownTags, serverVars, faults>>
      /\ save \in Save /\ save.step \in {"nextFile"} \cup UploadSteps
      /\ save.files # {}
  BY DEF IInv, TypeInv, TypeOK, SaveInv, StartUpload, UploadAnswered, UploadSteps
<1>2. file \in save.files /\ file \in Files
  BY <1>1, FileType DEF IInv
<1>3. PICK status \in {"failed", "uploading", "success", "none"} :
        /\ staged' = IF status = "none" THEN staged
                     ELSE [staged EXCEPT ![file] = IF @ = "absent" THEN @ ELSE status]
        /\ status = "success" => save.step = "complete" /\ save.reply = "ok"
  BY DEF StartUpload, UploadAnswered, Mark
<1>4. \/ save' = [save EXCEPT !.files = @ \ {file}] /\ save.step = "nextFile"
      \/ save' = [save EXCEPT !.step = "initiate"] /\ save.step = "nextFile"
      \/ save' = [save EXCEPT !.step = "put", !.reply = "none"] /\ save.step = "initiate" /\ save.reply = "ok"
      \/ save' = [save EXCEPT !.step = "complete", !.reply = "none"] /\ save.step = "put" /\ save.reply = "ok"
      \/ save' = [save EXCEPT !.step = "nextFile", !.reply = "none", !.files = @ \ {file}, !.upload = 0]
  BY DEF StartUpload, UploadAnswered
<1> HIDE DEF file
<1>5. save' \in Save /\ staged' \in [Files -> StagedStatus \cup {"absent"}]
  <2>1. save.files \ {file} \subseteq Files
    BY <1>1 DEF Save
  <2>2. save' \in Save
    <3>1. CASE save' = [save EXCEPT !.files = @ \ {file}]
      BY <1>1, <2>1, <3>1 DEF Save
    <3>2. CASE save' = [save EXCEPT !.step = "initiate"]
      BY <1>1, <3>2 DEF Save, Steps
    <3>3. CASE save' = [save EXCEPT !.step = "put", !.reply = "none"]
      BY <1>1, <3>3 DEF Save, Steps
    <3>4. CASE save' = [save EXCEPT !.step = "complete", !.reply = "none"]
      BY <1>1, <3>4 DEF Save, Steps
    <3>5. CASE save' = [save EXCEPT !.step = "nextFile", !.reply = "none", !.files = @ \ {file}, !.upload = 0]
      BY <1>1, <2>1, <3>5 DEF Save, Steps
    <3> QED BY <1>4, <3>1, <3>2, <3>3, <3>4, <3>5
  <2> QED BY <1>2, <1>3, <2>2 DEF IInv, TypeInv, TypeOK, StagedStatus
<1>6. /\ save'.text = save.text /\ save'.note = save.note
      /\ save'.step \in {"nextFile"} \cup UploadSteps
      /\ save'.step \in UploadSteps => save'.files = save.files
      /\ save'.step = "nextFile" => save'.reply = "none"
      /\ save'.step # "complete" \/ save'.reply = "none"
      /\ save'.upload = 0 \/ save'.upload = save.upload
      /\ UploadBegun' => UploadBegun /\ save'.files = save.files /\ save'.upload = save.upload
  BY <1>1, <1>4 DEF IInv, SaveInv, Save, UploadSteps, UploadBegun
<1>7. TypeInv'
  BY <1>1, <1>5 DEF IInv, TypeInv, TypeOK, boxVars, serverVars
<1>8. SaveInv'
  BY <1>1, <1>6 DEF IInv, SaveInv, IsSaving, NoteStored, Noted, UploadSteps, boxVars, serverVars
<1>9. KeepInv'
  BY <1>1 DEF IInv, KeepInv, SubmittedTextKept, Noted, boxVars, serverVars
<1>10. UploadInv'
  <2>1. SuccessMeansAttached'
    <3>1. save.step = "complete" /\ save.reply = "ok" => Attached(file)
      BY DEF IInv, UploadInv, UploadBegun, Attached, file
    <3> QED BY <1>1, <1>2, <1>3, <3>1 DEF IInv, TypeInv, TypeOK, UploadInv, SuccessMeansAttached, Attached, serverVars
  <2>2. UploadBegun' => File' = File
    BY <1>6 DEF File
  <2> QED BY <1>1, <1>6, <2>1, <2>2 DEF IInv, UploadInv, serverVars
<1> QED BY <1>7, <1>8, <1>9, <1>10 DEF IInv

\* The box is cleared when the note is stored.
LEMMA FinishSaveStep == IInv /\ FinishSave => IInv'
<1> SUFFICES ASSUME IInv, FinishSave PROVE IInv'
  OBVIOUS
<1>1. TypeInv'
  BY NoteCaptureAssumption DEF IInv, TypeInv, TypeOK, FinishSave, NoSave, Save, Steps, Texts, StagedStatus, serverVars
<1>2. SaveInv'
  BY DEF IInv, SaveInv, FinishSave, NoSave, IsSaving, NoteStored, UploadSteps
<1>3. KeepInv'
  BY DEF IInv, SaveInv, IsSaving, NoteStored, KeepInv, SubmittedTextKept, Noted, FinishSave, serverVars
<1>4. UploadInv'
  BY DEF IInv, UploadInv, UploadBegun, FinishSave, NoSave, SuccessMeansAttached, Attached, serverVars
<1> QED BY <1>1, <1>2, <1>3, <1>4 DEF IInv

-----------------------------------------------------------------------------
\* What the server stores stays stored: the texts of notes, and the note a
\* file is attached to.
LEMMA ServerKeeps ==
  ASSUME IInv, UNCHANGED <<boxVars, staged, knownTags>>,
         \A n : Noted(n) => Noted(n)',
         \A f \in Files : Attached(f) => Attached(f)'
  PROVE  KeepInv' /\ SuccessMeansAttached'
<1>1. KeepInv'
  BY DEF IInv, KeepInv, SubmittedTextKept, Noted, boxVars
<1>2. SuccessMeansAttached'
  BY DEF IInv, UploadInv, SuccessMeansAttached
<1> QED BY <1>1, <1>2

\* The answer alone changes: lost, or refused.
LEMMA ReplyFailed ==
  ASSUME IInv, UNCHANGED <<boxVars, staged, knownTags, serverVars>>, faults' \in 0..MaxFaults,
         save.step \notin {"idle", "nextFile"}, Reply("failed")
  PROVE  IInv'
<1>1. /\ save' \in Save /\ save'.reply = "failed"
      /\ save'.step = save.step /\ save'.text = save.text /\ save'.newTags = save.newTags
      /\ save'.files = save.files /\ save'.note = save.note /\ save'.upload = save.upload
  BY DEF IInv, TypeInv, TypeOK, Save, Reply
<1>2. TypeInv'
  BY <1>1 DEF IInv, TypeInv, TypeOK, boxVars, serverVars
<1>3. SaveInv'
  BY <1>1 DEF IInv, SaveInv, IsSaving, NoteStored, Noted, UploadSteps, boxVars, serverVars
<1>4. KeepInv' /\ SuccessMeansAttached'
  BY ServerKeeps DEF Noted, Attached, serverVars
<1>5. UploadInv'
  BY <1>1, <1>4 DEF IInv, UploadInv, UploadBegun, File, serverVars
<1> QED BY <1>2, <1>3, <1>4, <1>5 DEF IInv

LEMMA ServerCreateTagStep == IInv /\ ServerCreateTag => IInv'
<1> SUFFICES ASSUME IInv, ServerCreateTag PROVE IInv'
  OBVIOUS
<1>1. /\ UNCHANGED <<boxVars, staged, knownTags, notes, uploads, faults>>
      /\ save.step = "createTag" /\ save \in Save
  BY DEF IInv, TypeInv, TypeOK, ServerCreateTag, Requested
<1>2. NewTag \in Tags
  BY <1>1 DEF IInv, SaveInv, Save, NewTag
<1>3. /\ save' \in Save /\ save'.reply = "ok"
      /\ save'.step = save.step /\ save'.text = save.text /\ save'.newTags = save.newTags
      /\ save'.files = save.files /\ save'.note = save.note /\ save'.upload = save.upload
  BY <1>1 DEF ServerCreateTag, Save, Reply
<1>4. TypeInv'
  BY <1>1, <1>2, <1>3 DEF IInv, TypeInv, TypeOK, ServerCreateTag, boxVars
<1>5. SaveInv'
  BY <1>1, <1>3 DEF IInv, SaveInv, IsSaving, NoteStored, UploadSteps, boxVars
<1>6. KeepInv' /\ SuccessMeansAttached'
  BY <1>1, ServerKeeps DEF Noted, Attached
<1>7. UploadInv'
  BY <1>1, <1>3, <1>6 DEF IInv, UploadInv, UploadBegun
<1> QED BY <1>4, <1>5, <1>6, <1>7 DEF IInv

\* The only step that stores a note, with the text of the save.
LEMMA ServerCreateItemStep == IInv /\ ServerCreateItem => IInv'
<1> SUFFICES ASSUME IInv, ServerCreateItem PROVE IInv'
  OBVIOUS
<1>1. /\ UNCHANGED <<boxVars, staged, knownTags, serverTags, uploads, faults>>
      /\ save.step = "createItem" /\ save \in Save
  BY DEF IInv, TypeInv, TypeOK, ServerCreateItem, Requested
<1>2. CASE Reply("failed") /\ UNCHANGED notes
  BY <1>1, <1>2, ReplyFailed DEF IInv, TypeInv, TypeOK, serverVars
<1> DEFINE new == [text |-> save.text, tags |-> IF save.ai THEN {} ELSE save.tagIds,
                   ai |-> save.ai, staged |-> save.files]
<1>3. CASE /\ notes' = Append(notes, new)
           /\ save' = [save EXCEPT !.reply = "ok", !.note = Len(notes) + 1]
  <2>1. new \in Note
    BY <1>1 DEF Save, Note
  <2>2. new.text = save.text
    OBVIOUS
  <2> HIDE DEF new
  <2>3. /\ notes' \in Seq(Note) /\ Len(notes) \in Nat
        /\ DOMAIN notes = 1..Len(notes) /\ DOMAIN notes' = 1..(Len(notes) + 1)
        /\ \A k \in DOMAIN notes : notes'[k] = notes[k]
        /\ notes'[Len(notes) + 1] = new
    BY <1>3, <2>1, AppendProperties, LenProperties DEF IInv, TypeInv
  <2>4. /\ save' \in Save /\ save'.reply = "ok" /\ save'.note # 0
        /\ save'.step = save.step /\ save'.text = save.text
        /\ save'.files = save.files /\ save'.upload = save.upload
    <3> DEFINE number == Len(notes) + 1
    <3>1. number \in Nat /\ number # 0
      BY <2>3
    <3>2. save' = [save EXCEPT !.reply = "ok", !.note = number]
      BY <1>3
    <3> HIDE DEF number
    <3> QED BY <1>1, <3>1, <3>2 DEF Save
  <2>5. \A n : Noted(n) => Noted(n)'
    BY <2>3 DEF Noted
  <2>6. Noted(save.text)'
    BY <2>2, <2>3, <2>4 DEF Noted
  <2>7. TypeInv'
    <3>1. \A k \in DOMAIN notes' : notes'[k] \in Note
      BY <2>3
    <3> QED BY <1>1, <2>3, <2>4, <3>1 DEF IInv, TypeInv, TypeOK, boxVars
  <2>8. SaveInv'
    BY <1>1, <2>4, <2>6 DEF IInv, SaveInv, IsSaving, NoteStored, Noted, UploadSteps, boxVars
  <2>9. KeepInv' /\ SuccessMeansAttached'
    BY <1>1, <2>5, ServerKeeps DEF Attached
  <2>10. UploadInv'
    BY <1>1, <2>4, <2>9 DEF IInv, UploadInv, UploadBegun
  <2> QED BY <2>7, <2>8, <2>9, <2>10 DEF IInv
<1> QED BY <1>2, <1>3 DEF ServerCreateItem

LEMMA ServerInitiateStep == IInv /\ ServerInitiate => IInv'
<1> SUFFICES ASSUME IInv, ServerInitiate PROVE IInv'
  OBVIOUS
<1> DEFINE new == [file |-> File, status |-> "INITIATED", stored |-> FALSE, expired |-> FALSE, note |-> 0]
           number == Len(uploads) + 1
<1>1. /\ UNCHANGED <<boxVars, staged, knownTags, serverTags, notes, faults>>
      /\ save.step = "initiate" /\ save \in Save /\ save.files # {}
      /\ uploads' = Append(uploads, new)
      /\ save' = [save EXCEPT !.reply = "ok", !.upload = number]
  BY DEF IInv, TypeInv, TypeOK, SaveInv, UploadSteps, ServerInitiate, Requested
<1>2. new \in Upload /\ new.file = File
  BY <1>1, FileType DEF IInv, Upload
<1> HIDE DEF new
<1>3. /\ uploads' \in Seq(Upload) /\ number \in Nat /\ number # 0
      /\ DOMAIN uploads \subseteq DOMAIN uploads' /\ number \in DOMAIN uploads'
      /\ \A u \in DOMAIN uploads : uploads'[u] = uploads[u]
      /\ uploads'[number] = new
  BY <1>1, <1>2, AppendProperties, LenProperties DEF IInv, TypeInv
<1> HIDE DEF number
<1>4. /\ save' \in Save /\ save'.reply = "ok"
      /\ save'.step = save.step /\ save'.text = save.text
      /\ save'.files = save.files /\ save'.note = save.note /\ save'.upload = number
  BY <1>1, <1>3 DEF Save
<1>5. TypeInv'
  <2>1. \A u \in DOMAIN uploads' : uploads'[u] \in Upload
    BY <1>3
  <2> QED BY <1>1, <1>3, <1>4, <2>1 DEF IInv, TypeInv, TypeOK, boxVars
<1>6. SaveInv'
  BY <1>1, <1>4 DEF IInv, SaveInv, IsSaving, NoteStored, Noted, UploadSteps, boxVars
<1>7. KeepInv' /\ SuccessMeansAttached'
  BY <1>1, <1>3, ServerKeeps DEF Noted, Attached
<1>8. UploadInv'
  BY <1>1, <1>2, <1>3, <1>4, <1>7 DEF UploadInv, UploadBegun, File
<1> QED BY <1>5, <1>6, <1>7, <1>8 DEF IInv

\* What the other steps change of the uploads: not their number, not their
\* files, and no attachment is undone.
LEMMA UploadsChanged ==
  ASSUME IInv, UNCHANGED <<boxVars, staged, knownTags, serverTags, notes>>, faults' \in 0..MaxFaults,
         save' \in Save, save'.step = save.step, save'.text = save.text, save'.newTags = save.newTags,
         save'.files = save.files, save'.note = save.note, save'.upload = save.upload,
         NoteStored' => NoteStored, UploadBegun' => UploadBegun,
         save.step = "nextFile" => save'.reply = "none",
         uploads' \in Seq(Upload), DOMAIN uploads' = DOMAIN uploads,
         \A u \in DOMAIN uploads : /\ uploads'[u].file = uploads[u].file
                                   /\ uploads[u].note # 0 => uploads'[u].note # 0,
         save.step = "complete" /\ save'.reply = "ok" => uploads'[save.upload].note # 0
  PROVE  IInv'
<1>1. TypeInv'
  <2>1. \A u \in DOMAIN uploads' : uploads'[u] \in Upload
    OBVIOUS
  <2> QED BY <2>1 DEF IInv, TypeInv, TypeOK, boxVars
<1>2. SaveInv'
  BY DEF IInv, SaveInv, IsSaving, Noted, UploadSteps, boxVars
<1>3. KeepInv' /\ SuccessMeansAttached'
  BY ServerKeeps DEF Noted, Attached
<1>4. UploadInv'
  BY <1>3 DEF IInv, UploadInv, File, UploadBegun
<1> QED BY <1>1, <1>2, <1>3, <1>4 DEF IInv

\* One row changes, without its file and without an attachment undone.
LEMMA RowChanged ==
  ASSUME IInv, NEW u \in DOMAIN uploads, NEW row \in Upload,
         row.file = uploads[u].file, uploads[u].note # 0 => row.note # 0,
         uploads' = [uploads EXCEPT ![u] = row]
  PROVE  /\ uploads' \in Seq(Upload) /\ DOMAIN uploads' = DOMAIN uploads
         /\ \A v \in DOMAIN uploads : /\ uploads'[v].file = uploads[v].file
                                      /\ uploads[v].note # 0 => uploads'[v].note # 0
         /\ uploads'[u] = row
<1>1. uploads \in Seq(Upload)
  BY DEF IInv, TypeInv
<1>2. u \in 1..Len(uploads) /\ DOMAIN uploads' = DOMAIN uploads
  BY <1>1, LenProperties
<1>3. uploads' \in Seq(Upload)
  BY <1>1, <1>2, ExceptSeq
<1> QED BY <1>1, <1>2, <1>3

\* An answer to the request under way changes the reply alone.
LEMMA Answered ==
  ASSUME save \in Save, NEW answer \in {"ok", "failed"}, Reply(answer)
  PROVE  /\ save' \in Save /\ save'.reply = answer
         /\ save'.step = save.step /\ save'.text = save.text /\ save'.newTags = save.newTags
         /\ save'.files = save.files /\ save'.note = save.note /\ save'.upload = save.upload
  BY DEF Save, Reply

\* The two requests that change the row of the upload under way.
LEMMA StoreStep == IInv /\ (StorePut \/ ServerComplete) => IInv'
<1> SUFFICES ASSUME IInv, StorePut \/ ServerComplete PROVE IInv'
  OBVIOUS
<1> DEFINE u == save.upload
           put == [uploads[u] EXCEPT !.stored = TRUE]
           done == [uploads[u] EXCEPT !.status = "COMPLETED", !.note = save.note]
<1>1. /\ UNCHANGED <<boxVars, staged, knownTags, serverTags, notes, faults>>
      /\ save.step \in {"put", "complete"} /\ save \in Save
      /\ faults \in 0..MaxFaults
  BY DEF IInv, TypeInv, TypeOK, StorePut, ServerComplete, Requested
<1>2. u \in DOMAIN uploads /\ uploads[u] \in Upload
  BY <1>1 DEF IInv, TypeInv, TypeOK, UploadInv, UploadBegun
<1>3. save.note # 0 /\ save.note \in Nat
  BY <1>1 DEF IInv, SaveInv, NoteStored, UploadSteps, Save
<1>4. \/ Reply("failed") /\ UNCHANGED uploads
      \/ Reply("ok") /\ save.step = "put" /\ uploads' = [uploads EXCEPT ![u] = put]
      \/ Reply("ok") /\ save.step = "complete" /\ uploads' = [uploads EXCEPT ![u] = done]
  BY <1>2 DEF StorePut, ServerComplete, Requested, Upload
<1>5. put \in Upload /\ put.file = uploads[u].file /\ put.note = uploads[u].note
  BY <1>2 DEF Upload
<1>6. done \in Upload /\ done.file = uploads[u].file /\ done.note # 0
  BY <1>2, <1>3 DEF Upload
<1> HIDE DEF u, put, done
<1>7. CASE Reply("failed") /\ UNCHANGED uploads
  BY <1>1, <1>7, ReplyFailed DEF serverVars
<1>8. CASE Reply("ok") /\ save.step = "put" /\ uploads' = [uploads EXCEPT ![u] = put]
  <2>1. /\ uploads' \in Seq(Upload) /\ DOMAIN uploads' = DOMAIN uploads
        /\ \A v \in DOMAIN uploads : /\ uploads'[v].file = uploads[v].file
                                     /\ uploads[v].note # 0 => uploads'[v].note # 0
    BY <1>2, <1>5, <1>8, RowChanged
  <2> QED BY <1>1, <1>8, <2>1, Answered, UploadsChanged DEF NoteStored, UploadBegun, UploadSteps
<1>9. CASE Reply("ok") /\ save.step = "complete" /\ uploads' = [uploads EXCEPT ![u] = done]
  <2>1. /\ uploads' \in Seq(Upload) /\ DOMAIN uploads' = DOMAIN uploads
        /\ \A v \in DOMAIN uploads : /\ uploads'[v].file = uploads[v].file
                                     /\ uploads[v].note # 0 => uploads'[v].note # 0
        /\ uploads'[u] = done
    BY <1>2, <1>6, <1>9, RowChanged
  <2>2. uploads'[save.upload].note # 0
    BY <1>6, <2>1 DEF u
  <2> QED BY <1>1, <1>9, <2>1, <2>2, Answered, UploadsChanged DEF NoteStored, UploadBegun, UploadSteps
<1> QED BY <1>4, <1>7, <1>8, <1>9

LEMMA ExpireStep == IInv /\ Expire => IInv'
<1> SUFFICES ASSUME IInv, Expire PROVE IInv'
  OBVIOUS
<1> DEFINE u == save.upload
           row == [uploads[u] EXCEPT !.expired = TRUE]
<1>1. /\ UNCHANGED <<boxVars, staged, save, knownTags, serverTags, notes, faults>>
      /\ save \in Save /\ faults \in 0..MaxFaults
  BY DEF IInv, TypeInv, TypeOK, Expire
<1>2. u \in DOMAIN uploads /\ uploads[u] \in Upload
  BY DEF IInv, TypeInv, TypeOK, UploadInv, Expire
<1>3. uploads' = [uploads EXCEPT ![u] = row]
  BY <1>2 DEF Expire
<1>4. row \in Upload /\ row.file = uploads[u].file /\ row.note = uploads[u].note
  BY <1>2 DEF Upload
<1> HIDE DEF u, row
<1>5. /\ uploads' \in Seq(Upload) /\ DOMAIN uploads' = DOMAIN uploads
      /\ \A v \in DOMAIN uploads : /\ uploads'[v].file = uploads[v].file
                                   /\ uploads[v].note # 0 => uploads'[v].note # 0
  BY <1>2, <1>3, <1>4, RowChanged
<1>6. save.step = "complete" /\ save.reply = "ok" => uploads'[save.upload].note # 0
  BY <1>2, <1>5 DEF IInv, UploadInv, u
<1>7. save.step = "nextFile" => save'.reply = "none"
  BY <1>1 DEF IInv, SaveInv
<1> QED BY <1>1, <1>5, <1>6, <1>7, UploadsChanged DEF NoteStored, UploadBegun

LEMMA LoseStep == IInv /\ Lose => IInv'
<1> SUFFICES ASSUME IInv, Lose PROVE IInv'
  OBVIOUS
<1>1. faults' \in 0..MaxFaults
  BY NoteCaptureAssumption DEF IInv, TypeInv, TypeOK, Lose
<1> QED BY <1>1, ReplyFailed DEF Lose

LEMMA StutterStep == IInv /\ UNCHANGED vars => IInv'
<1> SUFFICES ASSUME IInv, UNCHANGED vars PROVE IInv'
  OBVIOUS
<1>1. UNCHANGED <<boxVars, staged, save, knownTags, serverVars, faults>>
  BY DEF vars
<1>2. TypeInv'
  BY <1>1 DEF IInv, TypeInv, TypeOK, boxVars, serverVars
<1>3. SaveInv' /\ KeepInv' /\ UploadInv'
  BY <1>1 DEF IInv, SaveInv, KeepInv, UploadInv, SubmittedTextKept, SuccessMeansAttached, Attached, Noted,
              NoteStored, UploadBegun, IsSaving, File, boxVars, serverVars
<1> QED BY <1>2, <1>3 DEF IInv

-----------------------------------------------------------------------------
LEMMA Inductive == IInv /\ [Next]_vars => IInv'
<1> SUFFICES ASSUME IInv, [Next]_vars PROVE IInv'
  OBVIOUS
<1>1. CASE UserStep
  <2>1. CASE \/ Type \/ ClearText \/ ToggleAi \/ SaveSignedOut \/ AskForTags \/ Return
             \/ \E tags \in SUBSET Tags : PickTags(tags)
    <3>1. UNCHANGED <<save, serverVars, faults, knownTags>>
      BY <2>1 DEF Type, ClearText, ToggleAi, SaveSignedOut, AskForTags, Return, PickTags
    <3> QED BY <2>1, <3>1, BoxStep
  <2>2. CASE \/ \E files \in SUBSET Files : Drop(files) \/ PickFiles(files)
             \/ \E f \in Files : Paste(f) \/ RemoveStaged(f) \/ RetryStaged(f)
    BY <2>2, StagingStep
  <2>3. CASE HandleSave
    BY <2>3, HandleSaveStep
  <2> QED BY <1>1, <2>1, <2>2, <2>3 DEF UserStep
<1>2. CASE ServerStep
  BY <1>2, ServerCreateTagStep, ServerCreateItemStep, ServerInitiateStep, StoreStep DEF ServerStep
<1>3. CASE BrowserStep
  BY <1>3, AnswerStep, UploadStep, FinishSaveStep DEF BrowserStep
<1> QED BY <1>1, <1>2, <1>3, LoseStep, ExpireStep, StutterStep DEF Next

LEMMA Invariant == Spec => []IInv
  BY InitInv, Inductive, PTL DEF Spec

\* Every variable of the box, of handleSave and of the server keeps its type,
\* and the tags the page knows are tags of the server.
THEOREM CaptureTypes == Spec => []TypeOK
<1>1. IInv => TypeOK
  BY DEF IInv, TypeInv
<1> QED BY <1>1, Invariant, PTL

\* Whatever is lost, refused or fails, and across signing in, a text the user
\* saved and did not clear is in the box, in the draft or in a stored note.
THEOREM SubmittedKept == Spec => []SubmittedTextKept
<1>1. IInv => SubmittedTextKept
  BY DEF IInv, KeepInv
<1> QED BY <1>1, Invariant, PTL

\* A staged file is shown as uploaded only when the server has attached it to
\* a note, although three requests and their answers may each fail.
THEOREM SuccessAttached == Spec => []SuccessMeansAttached
<1>1. IInv => SuccessMeansAttached
  BY DEF IInv, UploadInv
<1> QED BY <1>1, Invariant, PTL
=============================================================================

---------------------------- MODULE MobileDetail ----------------------------
(***************************************************************************)
(* The detail screen of the mobile client: DetailViewModel, of which       *)
(* MainScreen keeps one for every note, and the server behind it.          *)
(* Whatever is answered is applied to the note the screen shows by then.   *)
(*                                                                         *)
(* A text is known by the note it was typed for.  The title stands for     *)
(* title and summary, which are treated alike.                             *)
(***************************************************************************)
EXTENDS Naturals, ItemStates

CONSTANTS
  Notes,
  NoNote,
  MaxLoads, MaxUpdates, MaxFaults   \* bounds: loads, updates, lost requests

VARIABLES
  detailItemId,    \* the note opened; NoNote while the lists are on the screen
  itemId, isLoading, isUpdating, failed, isDeleted,
  item,            \* the note shown, in the state in which it was read
  isEditing, inputs,
  isTagEditorOpen,
  tagEditorTags,   \* each opening makes it anew: Closed while there is no dialog
  loads,           \* the requests for a note
  update,          \* the request that changes one
  stored,          \* the server: the state of a note, and whose texts it has
  crossed,         \* ghost: notes confirmed while another was loaded
  begun, faults

editVars == <<isEditing, inputs, isTagEditorOpen, tagEditorTags>>
flagVars == <<itemId, isLoading, isUpdating, failed, isDeleted>>
serverVars == <<stored, crossed>>
vars ==
  <<detailItemId, flagVars, item, editVars, loads, update, serverVars, begun, faults>>

Fields == {"title", "originalText", "tags"}
Statuses == ItemStatus \ {"ENRICHING"}
NoItem == [id |-> NoNote, status |-> "DISCARDED"]

\* What a field holds: a text of some note, and whether the user has changed it
\* to one that would be sent (a cleared title is not).
Input == [of : Notes \cup {NoNote}, changed : BOOLEAN]
Plain(n) == [of |-> n, changed |-> FALSE]
FromItem(n) == [f \in Fields |-> Plain(n)]
Closed == Plain(NoNote)

NoUpdate ==
  [kind |-> "none", note |-> NoNote, sent |-> [f \in Fields |-> NoNote], phase |-> "none", crossed |-> FALSE]

TypeOK ==
  /\ {detailItemId, itemId, item.id} \subseteq Notes \cup {NoNote}
  /\ item.status \in Statuses
  /\ inputs \in [Fields -> Input] /\ tagEditorTags \in Input
  /\ loads \subseteq [number : 1..MaxLoads, note : Notes, seen : Statuses \cup {"unread"}]
  /\ update.sent \in [Fields -> Notes \cup {NoNote}]
  /\ isUpdating <=> update # NoUpdate
  /\ stored \in [Notes -> [status : Statuses, texts : [Fields -> Notes]]]

Init ==
  /\ detailItemId = NoNote /\ itemId = NoNote
  /\ isLoading = FALSE /\ isUpdating = FALSE /\ failed = FALSE /\ isDeleted = FALSE
  /\ item = NoItem
  /\ isEditing = FALSE /\ inputs = FromItem(NoNote)
  /\ isTagEditorOpen = FALSE /\ tagEditorTags = Closed
  /\ loads = {} /\ update = NoUpdate
  /\ stored \in [Notes -> [status : Statuses \ {"DISCARDED"}, texts : [Fields -> Notes]]]
  /\ \A n \in Notes, f \in Fields : stored[n].texts[f] = n
  /\ crossed = {}
  /\ begun = [loads |-> 0, updates |-> 0] /\ faults = 0

-----------------------------------------------------------------------------
(* Opening a note                                                          *)

Load(n) ==
  /\ begun.loads < MaxLoads
  /\ itemId' = n /\ isLoading' = TRUE /\ failed' = FALSE /\ isDeleted' = FALSE
  /\ loads' = loads \cup {[number |-> begun.loads + 1, note |-> n, seen |-> "unread"]}
  /\ begun' = [begun EXCEPT !.loads = @ + 1]
  /\ UNCHANGED <<isUpdating, item, editVars, update, serverVars, faults>>

\* The flag of a note deleted after the screen was left may close it at once.
Open(n) ==
  /\ detailItemId = NoNote
  /\ detailItemId' \in {n} \cup IF isDeleted THEN {NoNote} ELSE {}
  /\ Load(n)

OnScreen == detailItemId # NoNote
InDialog == OnScreen /\ isTagEditorOpen /\ item # NoItem
InReach == OnScreen /\ ~InDialog

Retry == InReach /\ failed /\ ~isLoading /\ Load(itemId) /\ UNCHANGED detailItemId

\* Whatever is under way goes on.
Back ==
  /\ InReach
  /\ detailItemId' = NoNote
  /\ UNCHANGED <<flagVars, item, editVars, loads, update, serverVars, begun, faults>>

-----------------------------------------------------------------------------
(* Editing                                                                 *)

BottomBar == InReach /\ item # NoItem /\ ~isLoading
Content == BottomBar /\ ~failed
IsEditable == isEditing \/ item.status = "READY_TO_CONFIRM"

Edit ==
  /\ UNCHANGED <<detailItemId, flagVars, item, loads, update, serverVars, begun, faults>>

ShowItem(editing) ==
  /\ isEditing' = editing /\ inputs' = FromItem(item.id)
  /\ isTagEditorOpen' = FALSE /\ tagEditorTags' = Closed
  /\ Edit

EditClicked == BottomBar /\ item.status = "ARCHIVED" /\ ~isEditing /\ ~isUpdating /\ ShowItem(TRUE)
CancelEdit == BottomBar /\ item.status = "ARCHIVED" /\ isEditing /\ ~isUpdating /\ ShowItem(FALSE)

\* The chips of the tags can be removed during an update too.
Change(f) ==
  /\ Content /\ IsEditable /\ (f # "tags" => ~isUpdating)
  /\ \E c \in BOOLEAN : inputs' = [inputs EXCEPT ![f].changed = c]
  /\ UNCHANGED <<isEditing, isTagEditorOpen, tagEditorTags>> /\ Edit

\* Also offered for a note without tags that is not being edited.
OpenTagEditor ==
  /\ Content
  /\ isTagEditorOpen' = TRUE /\ tagEditorTags' = inputs["tags"]
  /\ isEditing' = (isEditing \/ item.status = "ARCHIVED")
  /\ UNCHANGED inputs /\ Edit

ChangeTagEditor ==
  /\ InDialog
  /\ \E c \in BOOLEAN : tagEditorTags' = [tagEditorTags EXCEPT !.changed = c]
  /\ UNCHANGED <<isEditing, inputs, isTagEditorOpen>> /\ Edit

CloseTagEditor ==
  /\ InDialog
  /\ isTagEditorOpen' = FALSE /\ tagEditorTags' = Closed
  /\ UNCHANGED <<isEditing, inputs>> /\ Edit

SaveTagEditor ==
  /\ InDialog
  /\ isTagEditorOpen' = FALSE /\ tagEditorTags' = Closed
  /\ inputs' = [inputs EXCEPT !["tags"] = tagEditorTags]
  /\ UNCHANGED isEditing /\ Edit

-----------------------------------------------------------------------------
(* Changing the note shown                                                 *)

\* What is sent of a field: nothing, if it is as in the note.
Sent(f, n) == IF inputs[f].changed \/ inputs[f].of # n THEN inputs[f].of ELSE NoNote

Begin(kind, sent) ==
  /\ ~isUpdating /\ begun.updates < MaxUpdates
  /\ isUpdating' = TRUE /\ failed' = FALSE
  /\ update' = [NoUpdate EXCEPT !.kind = kind, !.note = item.id, !.sent = sent, !.phase = "sent"]
  /\ begun' = [begun EXCEPT !.updates = @ + 1]
  /\ UNCHANGED <<detailItemId, itemId, isLoading, isDeleted, item, editVars, loads, serverVars, faults>>

\* A note to be confirmed with another original text is updated first: a
\* confirmation does not write that field.
ConfirmChanges ==
  /\ BottomBar
  /\ LET sent == [f \in Fields |-> Sent(f, item.id)] IN
     \/ /\ item.status = "READY_TO_CONFIRM"
        /\ Begin(IF sent["originalText"] # NoNote THEN "preUpdate" ELSE "confirm", sent)
     \/ /\ item.status = "ARCHIVED" /\ isEditing
        /\ Begin("update", sent)

\* The dialog is that of the screen, the note that of the view model, which may
\* be the one shown before while the one opened is loading.
DeleteConfirmed ==
  InReach /\ item # NoItem /\ Begin("discard", NoUpdate.sent)

-----------------------------------------------------------------------------
(* The server                                                              *)

ReadItem(l) ==
  /\ l.seen = "unread"
  /\ loads' = (loads \ {l}) \cup {[l EXCEPT !.seen = stored[l.note].status]}
  /\ UNCHANGED <<detailItemId, flagVars, item, editVars, update, serverVars, begun, faults>>

ActionOf(kind) == IF kind \in {"preUpdate", "update"} THEN "edit" ELSE kind
Written(kind) ==
  CASE kind = "preUpdate" -> {"originalText"}
    [] kind = "update" -> Fields
    [] kind = "confirm" -> {"title", "tags"}
    [] OTHER -> {}

UpdateItem ==
  LET n == update.note
      action == ActionOf(update.kind)
  IN
  /\ update.phase = "sent"
  /\ IF CanTransition(stored[n].status, action)
     THEN /\ stored' = [stored EXCEPT ![n] =
               [status |-> AllowedTransitions[stored[n].status][action],
                texts |-> [f \in Fields |->
                  IF f \in Written(update.kind) /\ update.sent[f] # NoNote
                  THEN update.sent[f] ELSE @.texts[f]]]]
          /\ update' = [update EXCEPT !.phase = "done"]
          /\ crossed' = IF update.crossed /\ update.kind = "confirm" THEN crossed \cup {n} ELSE crossed
     ELSE update' = [update EXCEPT !.phase = "refused"] /\ UNCHANGED serverVars
  /\ UNCHANGED <<detailItemId, flagVars, item, editVars, loads, begun, faults>>

-----------------------------------------------------------------------------
(* The answers                                                             *)

Lose == faults < MaxFaults /\ faults' = faults + 1

\* A load that leaves alone what is being edited.
ApplyItemUnlessEditing(n, status) ==
  /\ item' = [id |-> n, status |-> status]
  /\ isEditing' = isEditing /\ inputs' = IF isEditing THEN inputs ELSE FromItem(n)
  /\ isTagEditorOpen' = FALSE /\ tagEditorTags' = Closed

\* Every load is made by the screen, with resetEditing: what was typed before
\* goes, whatever note it was for.
ApplyItem(n, status) ==
  /\ item' = [id |-> n, status |-> status]
  /\ isEditing' = FALSE /\ inputs' = FromItem(n)
  /\ isTagEditorOpen' = FALSE /\ tagEditorTags' = Closed

AnswerLoad(l) ==
  /\ l.seen # "unread"
  /\ loads' = loads \ {l}
  /\ isLoading' = FALSE /\ failed' = FALSE
  /\ ApplyItem(l.note, l.seen)
  /\ update' = [update EXCEPT !.crossed = @ \/ (update.kind = "preUpdate" /\ update.note # l.note)]
  /\ UNCHANGED <<detailItemId, itemId, isUpdating, isDeleted, serverVars, begun, faults>>

LoseLoad(l) ==
  /\ Lose
  /\ loads' = loads \ {l}
  /\ isLoading' = FALSE /\ failed' = TRUE
  /\ UNCHANGED <<detailItemId, itemId, isUpdating, isDeleted, item, editVars, update, serverVars, begun>>

LoseUpdate ==
  /\ update.phase \in {"sent", "done"} /\ Lose
  /\ update' = [update EXCEPT !.phase = "refused"]
  /\ UNCHANGED <<detailItemId, flagVars, item, editVars, loads, serverVars, begun>>

\* The tags are read from the screen again once the first request is answered.
ConfirmNow ==
  /\ update.phase = "done" /\ update.kind = "preUpdate"
  /\ update' = [update EXCEPT !.kind = "confirm", !.phase = "sent",
                              !.sent["tags"] = Sent("tags", update.note)]
  /\ UNCHANGED <<detailItemId, flagVars, item, editVars, loads, serverVars, begun, faults>>

\* The note of the request becomes the note shown.
UpdateDone ==
  /\ update.phase = "done" /\ update.kind \in {"confirm", "update"}
  /\ update' = NoUpdate /\ isUpdating' = FALSE
  /\ ApplyItem(update.note, "ARCHIVED")
  /\ UNCHANGED <<detailItemId, itemId, isLoading, failed, isDeleted, loads, serverVars, begun, faults>>

DeleteDone ==
  /\ update.phase = "done" /\ update.kind = "discard"
  /\ update' = NoUpdate /\ isUpdating' = FALSE
  /\ isDeleted' = TRUE /\ detailItemId' = NoNote
  /\ UNCHANGED <<itemId, isLoading, failed, item, editVars, loads, serverVars, begun, faults>>

UpdateFailed ==
  /\ update.phase = "refused"
  /\ update' = NoUpdate /\ isUpdating' = FALSE /\ failed' = TRUE
  /\ UNCHANGED <<detailItemId, itemId, isLoading, isDeleted, item, editVars, loads, serverVars, begun, faults>>

-----------------------------------------------------------------------------
Next ==
  \/ \E n \in Notes : Open(n)
  \/ Retry \/ Back
  \/ EditClicked \/ CancelEdit \/ (\E f \in Fields : Change(f))
  \/ OpenTagEditor \/ ChangeTagEditor \/ CloseTagEditor \/ SaveTagEditor
  \/ ConfirmChanges \/ DeleteConfirmed
  \/ \E l \in loads : ReadItem(l) \/ AnswerLoad(l) \/ LoseLoad(l)
  \/ UpdateItem \/ LoseUpdate \/ ConfirmNow \/ UpdateDone \/ DeleteDone \/ UpdateFailed

Spec == Init /\ [][Next]_vars

-----------------------------------------------------------------------------
\* However loads and updates of several notes overlap in the one view model, a
\* note is never given a text typed for another; its tags are, only if another
\* note was loaded between the two requests of its confirmation (confirmItem
\* reads tagInputs again after the first).
TextsOfTheirNote ==
  \A n \in Notes, f \in Fields : stored[n].texts[f] = n \/ (f = "tags" /\ n \in crossed)
=============================================================================

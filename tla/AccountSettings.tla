--------------------------- MODULE AccountSettings ---------------------------
(***************************************************************************)
(* The account and preferences cards of the settings: the profile query    *)
(* they share, the dialog that edits the profile, the preferences saved as *)
(* they are picked, and the transactions at the backend.                   *)
(*                                                                         *)
(* One tab is open.  The biography goes the way of the nickname.  The      *)
(* settings page mounts the account card alone; PreferencesCard, which no  *)
(* page mounts yet, is modelled beside it, on the hook the two share.      *)
(***************************************************************************)
EXTENDS Integers, FiniteSets, Sequences

CONSTANTS
  Values,      \* what a field may hold besides Empty
  Empty,
  NoValue,     \* null in a request: the field is left alone
  Typed,       \* bound: field of the profile -> what is typed in it
  MaxSaves,    \* bound: saves asked for
  MaxFaults    \* bound: requests or answers lost

VARIABLES
  user,          \* the committed row: field -> value
  profile,       \* what the page was told of it, NoProfile before the first answer
  me,            \* the profile query: its phase, and the row on its way
  isError,
  dialogOpen, form,
  saves,         \* the requests, in the order in which they were made
  saved,         \* ghost: field -> what the user was told is saved last
  doubtful,      \* ghost: fields of a save that was lost sight of, or whose
                 \* column changed between the two reads of another
  misled,        \* ghost: an answer to a save was lost
  faults

pageVars == <<profile, isError, dialogOpen, form>>
ghostVars == <<saved, doubtful, misled>>
vars == <<user, me, pageVars, saves, ghostVars, faults>>

ProfileFields == {"nickname", "avatarUrl"}
Preferences == {"defaultLanguage", "timezone"}
Fields == ProfileFields \cup Preferences
Row == [Fields -> Values \cup {Empty}]
NoProfile == [f \in Fields |-> NoValue]
AnyValue == CHOOSE v \in Values : TRUE
FirstRow == [f \in Fields |-> AnyValue]
Idle == [phase |-> "idle", row |-> FirstRow]
Asked == [phase |-> "sent", row |-> FirstRow]
Save ==
  [input : [Fields -> Values \cup {Empty, NoValue}], before : Row, again : Row,
   phase : {"sent", "loaded", "reread", "committed", "done"},
   waiting : {"control", "page", "nobody"}]   \* who waits: the control, disabled; the page alone

Done == [input |-> NoProfile, before |-> FirstRow, again |-> FirstRow, phase |-> "done", waiting |-> "control"]

TypeOK ==
  /\ user \in Row
  /\ profile \in Row \cup {NoProfile}
  /\ me.phase \in {"idle", "sent", "read"} /\ me.row \in Row
  /\ isError \in BOOLEAN /\ dialogOpen \in BOOLEAN /\ misled \in BOOLEAN
  /\ form \in [ProfileFields -> Values \cup {Empty, NoValue}]
  /\ \A i \in DOMAIN saves : saves[i] \in Save
  /\ saved \in [Fields -> Values \cup {Empty, NoValue}]
  /\ doubtful \subseteq Fields
  /\ faults \in 0..MaxFaults

Init ==
  /\ user = FirstRow
  /\ profile = NoProfile
  /\ me = Asked
  /\ isError = FALSE /\ dialogOpen = FALSE
  /\ form = [f \in ProfileFields |-> NoValue]
  /\ saves = <<>>
  /\ saved = NoProfile /\ doubtful = {} /\ misled = FALSE
  /\ faults = 0

Fault == faults < MaxFaults /\ faults' = faults + 1

Changed(input) == {f \in Fields : input[f] # NoValue}
Touched(input) == IF Changed(input) \subseteq Preferences THEN Changed(input) ELSE ProfileFields
Pending(i) == i \in DOMAIN saves /\ saves[i].phase # "done"
IsUpdating(fields) == \E i \in DOMAIN saves : Pending(i) /\ saves[i].waiting = "control" /\ Touched(saves[i].input) \subseteq fields

\* The cards show their controls: there is a profile, and the last read of it did not fail.
CardShown == profile # NoProfile /\ ~isError

-----------------------------------------------------------------------------
(* The profile query                                                       *)

Retry ==
  /\ isError /\ me = Idle
  /\ me' = Asked
  /\ UNCHANGED <<user, pageVars, saves, ghostVars, faults>>

Refocus ==
  /\ profile # NoProfile /\ me = Idle
  /\ me' = Asked
  /\ UNCHANGED <<user, pageVars, saves, ghostVars, faults>>

ReadMe ==
  /\ me.phase = "sent"
  /\ me' = [phase |-> "read", row |-> user]
  /\ UNCHANGED <<user, pageVars, saves, ghostVars, faults>>

\* The dialog mounts with the card, and takes over the profile it mounts with.
HandleMe ==
  /\ me.phase = "read"
  /\ me' = Idle
  /\ profile' = me.row /\ isError' = FALSE
  /\ form' = IF CardShown THEN form ELSE [f \in ProfileFields |-> me.row[f]]
  /\ UNCHANGED <<user, dialogOpen, saves, ghostVars, faults>>

\* The card makes way for the error, and the dialog goes with it; a save that
\* was under way is no longer waited for.
LoseMe ==
  /\ me # Idle /\ Fault
  /\ me' = Idle
  /\ isError' = TRUE
  /\ saves' = [i \in DOMAIN saves |->
       IF Touched(saves[i].input) = ProfileFields /\ saves[i].waiting = "control"
       THEN [saves[i] EXCEPT !.waiting = "page"] ELSE saves[i]]
  /\ doubtful' = doubtful \cup (IF \E i \in DOMAIN saves : Pending(i) /\ Touched(saves[i].input) = ProfileFields
                                THEN ProfileFields ELSE {})
  /\ UNCHANGED <<user, profile, dialogOpen, form, saved, misled>>

-----------------------------------------------------------------------------
(* The cards and the dialog                                                *)

\* The button opens the dialog, without the handler that fills in the form.
OpenDialog ==
  /\ CardShown /\ ~dialogOpen
  /\ dialogOpen' = TRUE
  /\ UNCHANGED <<user, me, profile, isError, form, saves, ghostVars, faults>>

\* Cancel is closed during a save; Escape and the cross are not.
CloseDialog ==
  /\ CardShown /\ dialogOpen
  /\ dialogOpen' = FALSE
  /\ UNCHANGED <<user, me, profile, isError, form, saves, ghostVars, faults>>

Type(f, v) ==
  /\ CardShown /\ dialogOpen /\ form[f] # v
  /\ form' = [form EXCEPT ![f] = v]
  /\ UNCHANGED <<user, me, profile, isError, dialogOpen, saves, ghostVars, faults>>

Put(input) ==
  /\ Len(saves) < MaxSaves
  /\ saves' = Append(saves, [input |-> input, before |-> FirstRow, again |-> FirstRow, phase |-> "sent", waiting |-> "control"])

\* handleSave: a field left empty is sent as null.
SaveProfile ==
  /\ CardShown /\ dialogOpen /\ ~IsUpdating(ProfileFields)
  /\ Put([f \in Fields |-> IF f \in ProfileFields THEN form[f] ELSE NoValue])
  /\ UNCHANGED <<user, me, pageVars, ghostVars, faults>>

PickPreference(f, v) ==
  /\ CardShown /\ ~dialogOpen /\ ~IsUpdating(Preferences)
  /\ profile[f] # v
  /\ Put([g \in Fields |-> IF g = f THEN v ELSE NoValue])
  /\ UNCHANGED <<user, me, pageVars, ghostVars, faults>>

-----------------------------------------------------------------------------
(* The backend                                                             *)

\* The preferences are one column.
Columns(fields) == fields \cup (IF fields \cap Preferences # {} THEN Preferences ELSE {})

\* get_current_user reads the row and keeps nothing of it but a copy...
Load(i) ==
  /\ Pending(i) /\ saves[i].phase = "sent"
  /\ saves' = [saves EXCEPT ![i].phase = "loaded", ![i].before = user]
  /\ UNCHANGED <<user, me, pageVars, ghostVars, faults>>

\* ... so the update reads it again, and may find it changed.
Reread(i) ==
  /\ Pending(i) /\ saves[i].phase = "loaded"
  /\ saves' = [saves EXCEPT ![i].phase = "reread", ![i].again = user]
  /\ doubtful' = doubtful \cup Columns({f \in Fields : saves[i].before[f] # user[f]})
  /\ UNCHANGED <<user, me, pageVars, saved, misled, faults>>

\* null (and, in the form, an empty field) leaves the copy as it is.
Applied(r) == [f \in Fields |-> IF r.input[f] \in {NoValue, Empty} THEN r.before[f] ELSE r.input[f]]

\* Every column is written back as it was first read.
WrittenRow(r) == Fields

\* The columns in which the copy differs from the second read.
Written(r) == Columns({f \in Fields : Applied(r)[f] # r.again[f]})

Commit(i) ==
  /\ Pending(i) /\ saves[i].phase = "reread"
  /\ user' = [f \in Fields |-> IF f \in Written(saves[i]) THEN Applied(saves[i])[f] ELSE user[f]]
  /\ saves' = [saves EXCEPT ![i] =
       IF @.waiting = "nobody" THEN Done
       ELSE [@ EXCEPT !.phase = "committed", !.before = FirstRow, !.again = FirstRow]]
  /\ UNCHANGED <<me, pageVars, ghostVars, faults>>

-----------------------------------------------------------------------------
(* Answers to saves                                                        *)

\* A read under way will do.
RefetchIfIdle == IF me = Idle THEN Asked ELSE me

\* invalidateQueries: a read under way is dropped, unless it is the first.
Refetch == IF profile = NoProfile /\ me # Idle THEN me ELSE Asked

HandleSaved(i) ==
  /\ Pending(i) /\ saves[i].phase = "committed"
  /\ saves' = [saves EXCEPT ![i] = Done]
  /\ saved' = [f \in Fields |-> IF f \in Touched(saves[i].input) THEN saves[i].input[f] ELSE saved[f]]
  /\ me' = Refetch
  /\ dialogOpen' = (dialogOpen /\ Touched(saves[i].input) # ProfileFields)
  /\ UNCHANGED <<user, profile, isError, form, doubtful, misled, faults>>

\* The request never arrives; or the connection is lost, and the backend goes
\* on with what it has.  The dialog stays open with the message.
LoseSave(i) ==
  /\ Pending(i) /\ saves[i].waiting # "nobody" /\ Fault
  /\ \/ saves[i].phase \in {"sent", "committed"} /\ saves' = [saves EXCEPT ![i] = Done]
     \/ saves[i].phase # "committed" /\ saves' = [saves EXCEPT ![i].waiting = "nobody"]
  /\ doubtful' = doubtful \cup (IF Touched(saves[i].input) = ProfileFields THEN ProfileFields ELSE Preferences)
  /\ misled' = TRUE
  /\ UNCHANGED <<user, me, pageVars, saved>>

-----------------------------------------------------------------------------
User ==
  \/ Retry \/ Refocus \/ OpenDialog \/ CloseDialog \/ SaveProfile
  \/ \E v \in Values : \E f \in Preferences : PickPreference(f, v)
  \/ \E f \in ProfileFields : \E v \in Typed[f] : Type(f, v)

Backend == ReadMe \/ \E i \in DOMAIN saves : Load(i) \/ Reread(i) \/ Commit(i)
Answers == HandleMe \/ \E i \in DOMAIN saves : HandleSaved(i)
Next == User \/ Backend \/ Answers \/ LoseMe \/ \E i \in DOMAIN saves : LoseSave(i)

-----------------------------------------------------------------------------
\* A setting the user was told is saved is in the row, whatever the other card
\* saves at the same time: the unit of work of the user repository writes the
\* columns that differ from the row it has just read.  Only a save between whose
\* two reads (get_current_user, update) a setting of the column changed can bring
\* the old value back.  Not so for the columns of a save that was lost sight of.
SavedSettingsStay ==
  \A f \in Fields \ doubtful : saved[f] \notin {NoValue, Empty} =>
    \/ user[f] = saved[f]
    \/ \E i \in DOMAIN saves : saves[i].phase = "committed" /\ f \in Touched(saves[i].input)

\* Once nothing is under way, the cards show the row: a profile read before a
\* save was answered is dropped for a later one (invalidateQueries).
CardsShowTheRow ==
  CardShown /\ me = Idle /\ ~misled /\ (\A i \in DOMAIN saves : ~Pending(i)) => profile = user
=============================================================================

---------------------------- MODULE TagManagement ----------------------------
(***************************************************************************)
(* The tag page of the settings (/settings/tags) over the tag endpoints of *)
(* the backend: the table and its list query, the dialogs that create and  *)
(* rename, recolouring and deleting, and the transactions they start.      *)
(*                                                                         *)
(* A name stands for all its capitalisations (name_lower).  The filters    *)
(* stay at their defaults, so there is one list query.                     *)
(***************************************************************************)
EXTENDS Integers, FiniteSetsExt

CONSTANTS
  MaxTags,        \* bound: rows ever in the table; ids are 1..MaxTags
  Names, Colors,
  DefaultColor,   \* the colour of a tag created without one
  MaxRequests,    \* bound: changes asked for
  MaxFaults       \* bound: requests or answers lost

VARIABLES
  rows,           \* the committed tags
  requests,       \* the changes, in the order in which the user made them
  listing,        \* the list query: fetching, and the answer on its way
  table,          \* the tags it last gave the page
  hasData,        \* it once gave an answer
  page,           \* what is shown: the skeleton, an error, or the table
  createOpen,     \* the dialog that creates
  renameTarget,   \* the tag of the dialog that renames, 0 for none
  submitting,     \* the request that dialog waits for, 0 for none
  misled,         \* ghost: the table was read before a change answered, or a fault
  faults

pageVars == <<table, hasData, page, createOpen, renameTarget, submitting>>
vars == <<rows, requests, listing, pageVars, misled, faults>>

Ids == 1..MaxTags
Slots == 1..MaxRequests
Row == [name : Names, color : Colors, state : {"absent", "live", "deleted"}]
Request ==
  [kind : {"unused", "create", "rename", "color", "delete"}, id : Ids \cup {0},
   name : Names, color : Colors, before : Row, again : Row,
   phase : {"unused", "delayed", "sent", "loaded", "reread", "flushed", "committed",
            "answered", "refused", "done"}]

TypeOK ==
  /\ rows \in [Ids -> Row]
  /\ requests \in [Slots -> Request]
  /\ listing.phase \in {"idle", "sent", "read"} /\ listing.rows \in [Ids -> Row]
  /\ table \in [Ids -> Row]
  /\ page \in {"skeleton", "error", "table"}
  /\ hasData \in BOOLEAN /\ createOpen \in BOOLEAN /\ misled \in BOOLEAN
  /\ renameTarget \in Ids \cup {0}
  /\ submitting \in Slots \cup {0}
  /\ submitting # 0 => requests[submitting].kind = "rename" /\ requests[submitting].phase # "done"
  /\ faults \in 0..MaxFaults

AnyName == CHOOSE n \in Names : TRUE
NoRow == [name |-> AnyName, color |-> DefaultColor, state |-> "absent"]
FirstTag == [NoRow EXCEPT !.state = "live"]
Unused == [kind |-> "unused", id |-> 0, name |-> AnyName, color |-> DefaultColor,
           before |-> NoRow, again |-> NoRow, phase |-> "unused"]
NotFetching == [phase |-> "idle", rows |-> [i \in Ids |-> NoRow]]
Fetching == [NotFetching EXCEPT !.phase = "sent"]

\* What list_by_user returns.
Live(tags) == [i \in Ids |-> IF tags[i].state = "live" THEN tags[i] ELSE NoRow]
OneEach(tags) ==
  \A i, j \in Ids : i # j /\ tags[i].state # "absent" /\ tags[j].state # "absent"
                      => tags[i].name # tags[j].name

Init ==
  /\ \E present \in 1..(MaxTags - MaxRequests) :
       rows \in {tags \in [Ids -> {NoRow} \cup [name : Names, color : {DefaultColor},
                                                state : {"live", "deleted"}]] :
                   /\ \A i \in Ids : tags[i].state # "absent" <=> i <= present
                   /\ OneEach(tags)}
  /\ requests = [r \in Slots |-> Unused]
  /\ listing = Fetching
  /\ table = [i \in Ids |-> NoRow]
  /\ hasData = FALSE /\ page = "skeleton" /\ createOpen = FALSE
  /\ renameTarget = 0 /\ submitting = 0
  /\ misled = FALSE /\ faults = 0

-----------------------------------------------------------------------------
(* The user.  The page shows a skeleton until the first answer, and the    *)
(* retry button alone after a failure.                                     *)

Shown == page = "table"
NoDialog == ~createOpen /\ renameTarget = 0

\* The next unused slot holds the request.
Put(kind, id, name, color, phase) ==
  \E r \in Slots :
    /\ requests[r] = Unused /\ \A q \in 1..(r - 1) : requests[q] # Unused
    /\ requests' = [requests EXCEPT ![r] =
         [Unused EXCEPT !.kind = kind, !.id = id, !.name = name, !.color = color, !.phase = phase]]

Unanswered(r) ==
  requests[r].phase \in {"delayed", "sent", "loaded", "reread", "flushed", "committed", "refused"}

\* The mutation's isPending looks at its latest call.
IsCreating ==
  LET sent == {r \in Slots : requests[r].kind = "create" /\ requests[r].phase # "delayed"}
  IN  sent # {} /\ Unanswered(Max(sent))

OpenCreate ==
  /\ Shown /\ NoDialog /\ ~IsCreating
  /\ createOpen' = TRUE
  /\ UNCHANGED <<rows, requests, listing, table, hasData, page, renameTarget, submitting, misled, faults>>

CloseCreate ==
  /\ Shown /\ createOpen
  /\ createOpen' = FALSE
  /\ UNCHANGED <<rows, requests, listing, table, hasData, page, renameTarget, submitting, misled, faults>>

\* Enter creates whatever the button's state; 300 ms pass before the request.
CreateTag(name) ==
  /\ Shown /\ createOpen
  /\ Put("create", 0, name, DefaultColor, "delayed")
  /\ UNCHANGED <<rows, listing, pageVars, misled, faults>>

SendCreate(r) ==
  /\ requests[r].phase = "delayed"
  /\ requests' = [requests EXCEPT ![r].phase = "sent"]
  /\ UNCHANGED <<rows, listing, pageVars, misled, faults>>

OpenRename(i) ==
  /\ Shown /\ NoDialog /\ table[i].state = "live"
  /\ renameTarget' = i
  /\ UNCHANGED <<rows, requests, listing, table, hasData, page, createOpen, submitting, misled, faults>>

\* Also while its request is under way.
CloseRename ==
  /\ Shown /\ renameTarget # 0
  /\ renameTarget' = 0 /\ submitting' = 0
  /\ UNCHANGED <<rows, requests, listing, table, hasData, page, createOpen, misled, faults>>

\* The dialog keeps the tag it was opened with; an unchanged name only closes it.
SubmitRename(name) ==
  /\ Shown /\ renameTarget # 0 /\ submitting = 0
  /\ table[renameTarget].name # name
  /\ Put("rename", renameTarget, name, DefaultColor, "sent")
  /\ submitting' = Min({r \in Slots : requests[r] = Unused})
  /\ UNCHANGED <<rows, listing, table, hasData, page, createOpen, renameTarget, misled, faults>>

PickColor(i, color) ==
  /\ Shown /\ NoDialog /\ table[i].state = "live"
  /\ Put("color", i, AnyName, color, "sent")
  /\ UNCHANGED <<rows, listing, pageVars, misled, faults>>

DeleteTag(i) ==
  /\ Shown /\ NoDialog /\ table[i].state = "live"
  /\ Put("delete", i, AnyName, DefaultColor, "sent")
  /\ UNCHANGED <<rows, listing, pageVars, misled, faults>>

\* Asking for the list again; without data, the error gives way at once.
AskList ==
  /\ listing' = Fetching
  /\ page' = IF page = "error" /\ ~hasData THEN "table" ELSE page

RetryList ==
  /\ page = "error" /\ listing.phase = "idle"
  /\ AskList
  /\ UNCHANGED <<rows, requests, table, hasData, createOpen, renameTarget, submitting, misled, faults>>

-----------------------------------------------------------------------------
(* The endpoints.  A transaction reads, writes, answers, and then commits. *)

Named(name) == {i \in Ids : rows[i].state # "absent" /\ rows[i].name = name}
Edits(r) == requests[r].kind \in {"rename", "color"}

\* The tag a request writes: an edit, the copy of its first read with the one
\* field changed.
Target(r) ==
  LET q == requests[r] IN
  CASE q.kind = "create" /\ q.before.state = "absent" ->
         [name |-> q.name, color |-> DefaultColor, state |-> "live"]
    [] q.kind = "create" /\ q.before.state # "absent" -> [q.before EXCEPT !.state = "live"]
    [] q.kind = "rename" -> [q.before EXCEPT !.name = q.name]
    [] q.kind = "color" -> [q.before EXCEPT !.color = q.color]
    [] q.kind = "delete" -> [q.before EXCEPT !.state = "deleted"]

\* Every column an edit has a value for is sent to the database.
AllColumns(r) ==
  IF Edits(r) THEN {"name", "color"} ELSE {c \in DOMAIN NoRow : Target(r)[c] # requests[r].before[c]}

\* The columns sent are those that differ from what was read last: of an edit,
\* the name and colour of its second read (update).
Columns(r) ==
  IF Edits(r) THEN {c \in {"name", "color"} : Target(r)[c] # requests[r].again[c]}
  ELSE {c \in DOMAIN NoRow : Target(r)[c] # requests[r].before[c]}

\* A transaction that has written nothing holds nothing.
Holds(r) == requests[r].phase \in {"flushed", "answered"} /\ Columns(r) # {}
NamesOf(r) == {Target(r).name} \cup IF requests[r].before.state = "absent" THEN {} ELSE {requests[r].before.name}

Move(r, phase) ==
  requests' = [requests EXCEPT ![r] =
    IF phase = "done" THEN [Unused EXCEPT !.kind = requests[r].kind, !.phase = "done"]
    ELSE [@ EXCEPT !.phase = phase]]

\* get_by_id or get_by_name, and the checks made on what they return.
Load(r) ==
  LET q == requests[r] IN
  /\ q.phase = "sent"
  /\ \/ /\ q.kind = "create" /\ Named(q.name) # {}
        /\ \E i \in Named(q.name) :
             requests' = [requests EXCEPT ![r].id = i, ![r].before = rows[i], ![r].phase = "loaded"]
     \/ /\ q.kind = "create" /\ Named(q.name) = {}
        /\ LET free == {i \in Ids : rows[i].state = "absent" /\ \A s \in Slots : requests[s].id # i}
           IN  requests' = [requests EXCEPT ![r].id = Min(free), ![r].phase = "loaded"]
     \/ /\ q.kind = "rename" /\ q.name # rows[q.id].name /\ Named(q.name) # {}
        /\ Move(r, "refused")
     \/ /\ q.kind # "create"
        /\ ~(q.kind = "rename" /\ q.name # rows[q.id].name /\ Named(q.name) # {})
        /\ requests' = [requests EXCEPT ![r].before = rows[q.id], ![r].phase = "loaded"]
  /\ UNCHANGED <<rows, listing, pageVars, misled, faults>>

\* Nothing keeps the row an edit has read, so update reads it once more.
Reread(r) ==
  /\ requests[r].phase = "loaded" /\ Edits(r)
  /\ requests' = [requests EXCEPT ![r].again = rows[requests[r].id], ![r].phase = "reread"]
  /\ UNCHANGED <<rows, listing, pageVars, misled, faults>>

\* No unique index: the names were looked up before.
TakenBefore(r) == requests[r].kind = "unused"

\* The unique index covers deleted tags as well.
Taken(r) ==
  /\ requests[r].before.state = "absent" \/ "name" \in Columns(r)
  /\ Named(Target(r).name) \ {requests[r].id} # {}

\* A row or an index entry another transaction has written is waited for.
Flush(r) ==
  /\ requests[r].phase = IF Edits(r) THEN "reread" ELSE "loaded"
  /\ Columns(r) # {} =>
       \A s \in Slots \ {r} : Holds(s) =>
         /\ requests[s].id # requests[r].id
         /\ NamesOf(s) \cap NamesOf(r) = {}
  /\ Move(r, IF Taken(r) THEN "refused" ELSE "flushed")
  /\ UNCHANGED <<rows, listing, pageVars, misled, faults>>

Commit(r) ==
  /\ requests[r].phase \in {"flushed", "answered"}
  /\ rows' = [rows EXCEPT ![requests[r].id] =
       [c \in DOMAIN @ |-> IF c \in Columns(r) THEN Target(r)[c] ELSE @[c]]]
  /\ Move(r, IF requests[r].phase = "flushed" THEN "committed" ELSE "done")
  /\ UNCHANGED <<listing, pageVars, misled, faults>>

ReadList ==
  /\ listing.phase = "sent"
  /\ listing' = [phase |-> "read", rows |-> Live(rows)]
  /\ misled' = (\E r \in Slots : requests[r].phase = "answered")
  /\ UNCHANGED <<rows, requests, pageVars, faults>>

-----------------------------------------------------------------------------
(* Answers in the browser                                                  *)

\* The list is not asked for again.
RefetchMissing(r) == UNCHANGED <<listing, page>>

\* invalidateQueries: a request for the list under way is dropped for a new one.
Refetch(r) == AskList

\* An empty table, or the error page, unmounts the dialog that renames.
CloseTable == renameTarget' = 0 /\ submitting' = 0

\* onClose closes the dialog that renames, whichever tag it is open for.
HandleSuccess(r) ==
  /\ requests[r].phase \in {"flushed", "committed"}
  /\ Move(r, IF requests[r].phase = "flushed" THEN "answered" ELSE "done")
  /\ Refetch(r)
  /\ createOpen' = (createOpen /\ requests[r].kind # "create")
  /\ IF requests[r].kind = "rename"
     THEN CloseTable
     ELSE UNCHANGED <<renameTarget, submitting>>
  /\ UNCHANGED <<rows, table, hasData, misled, faults>>

\* A failure to create shows nothing, and leaves the dialog open.
HandleFailure(r) ==
  /\ requests[r].phase = "refused"
  /\ Move(r, "done")
  /\ submitting' = IF submitting = r THEN 0 ELSE submitting
  /\ UNCHANGED <<rows, listing, table, hasData, page, createOpen, renameTarget, misled, faults>>

HandleList ==
  /\ listing.phase = "read"
  /\ listing' = NotFetching
  /\ table' = listing.rows /\ hasData' = TRUE /\ page' = "table"
  /\ IF listing.rows = [i \in Ids |-> NoRow] THEN CloseTable ELSE UNCHANGED <<renameTarget, submitting>>
  /\ UNCHANGED <<rows, requests, createOpen, misled, faults>>

LoseList ==
  /\ listing.phase \in {"sent", "read"}
  /\ faults < MaxFaults /\ faults' = faults + 1
  /\ listing' = NotFetching
  /\ page' = "error" /\ CloseTable
  /\ UNCHANGED <<rows, requests, table, hasData, createOpen, misled>>

\* A change never arrives, or its answer is lost after the commit.
LoseRequest(r) ==
  /\ requests[r].phase \in {"sent", "committed"}
  /\ faults < MaxFaults /\ faults' = faults + 1
  /\ misled' = (misled \/ requests[r].phase = "committed")
  /\ Move(r, "refused")
  /\ UNCHANGED <<rows, listing, pageVars>>

-----------------------------------------------------------------------------
User ==
  \/ OpenCreate \/ CloseCreate \/ CloseRename \/ RetryList
  \/ \E name \in Names : CreateTag(name) \/ SubmitRename(name)
  \/ \E i \in Ids : OpenRename(i) \/ DeleteTag(i) \/ \E color \in Colors : PickColor(i, color)

\* What happens by itself, faults apart.
Progress(r) ==
  \/ SendCreate(r) \/ Load(r) \/ Reread(r) \/ Flush(r) \/ Commit(r)
  \/ HandleSuccess(r) \/ HandleFailure(r)

Next ==
  \/ User
  \/ \E r \in Slots : Progress(r) \/ LoseRequest(r)
  \/ ReadList \/ HandleList \/ LoseList

Spec == Init /\ [][Next]_vars

-----------------------------------------------------------------------------
\* A field of a tag changes when it is asked for, with one exception: an edit
\* between whose two reads another changed the field brings the old value back
\* (update_tag, SQLAlchemyTagRepository.update).  A deleted tag comes back only
\* by a creation of its name, an edit in between or not.
OnlyUnseenEditsAreUndone ==
  [][\A i \in Ids : rows[i].state # "absent" =>
       /\ \A c \in {"name", "color"} : rows'[i][c] # rows[i][c] =>
            \E r \in Slots :
              /\ requests[r].id = i /\ requests'[r] # requests[r]
              /\ requests[r].kind = (IF c = "name" THEN "rename" ELSE "color")
                 \/ requests[r].before[c] # requests[r].again[c]
       /\ rows[i].state = "deleted" /\ rows'[i].state = "live" =>
            \E r \in Slots : requests[r].kind = "create" /\ requests[r].id = i]_vars

\* However creations, renames and revivals meet, no two tags of a user,
\* deleted ones included, have the same name: get_by_name (scalar_one_or_none)
\* would fail for good.
OneTagPerName == OneEach(rows)

\* With nothing under way, the table shows the tags of the server, unless the
\* list was read between an answer and its commit, or an answer was lost
\* (invalidateQueries in useTags, commit after the response in get_db_session).
OnlyEarlyReadsMislead ==
  /\ listing.phase = "idle" /\ page = "table" /\ ~misled
  /\ \A r \in Slots : requests[r].phase \in {"unused", "done"}
  => table = Live(rows)
=============================================================================

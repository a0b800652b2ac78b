---------------------------- MODULE LibraryPaging ----------------------------
(***************************************************************************)
(* The library page: the archived notes, read page by page with a cursor   *)
(* (useInfiniteQuery), while notes are archived, discarded and edited.     *)
(*                                                                         *)
(* A note is a number, the order of the identifiers; two notes may have    *)
(* been archived at the same time, and one may be committed after another  *)
(* that was archived later.  A page and its answer are one step apart.     *)
(* The answer to a save is sent before its transaction commits             *)
(* (get_db_session), and may be handled before or after.                   *)
(***************************************************************************)
EXTENDS Integers, FiniteSets, SequencesExt

CONSTANTS
  Notes,        \* numbers
  Limit,        \* notes on a page
  MaxTime,      \* bound: archiving times are 1..MaxTime
  MaxVersion,   \* bound: edits of a note
  MaxEdited,    \* bound: notes edited
  MaxDiscards   \* bound: notes discarded

VARIABLES
  archivedAt,   \* note -> the time it was archived, 0 before
  discarded,    \* the notes discarded since
  version,      \* note -> its committed edits
  editing,      \* note -> how far the save of its editor has come
  data,         \* the pages the page holds, <<>> before the first answer
  fetching,     \* the fetch under way
  isError,
  saved         \* ghost: note -> the version the user was told is saved

vars == <<archivedAt, discarded, version, editing, data, fetching, isError, saved>>

\* A save that has written the note holds its row until the commit.
NoSave == [n \in Notes |-> "none"]
Uncommitted(n) == editing[n] \in {"written", "answered"}

\* A fetch: the next page, or all pages anew; the pages so far, and how many
\* are wanted; the page read and not delivered.
Fetch(kind, pages, want) == [kind |-> kind, pages |-> pages, want |-> want, answer |-> <<>>]
NoFetch == Fetch("none", <<>>, 0)

Before(n, m) ==
  \/ archivedAt[n] > archivedAt[m]
  \/ archivedAt[n] = archivedAt[m] /\ n > m

Shown == UNION {ToSet(data[i].items) : i \in DOMAIN data}
HasMore == data # <<>> /\ Last(data).hasMore
IsFetchingNextPage == fetching.kind = "next"

TypeOK ==
  /\ archivedAt \in [Notes -> 0..MaxTime] /\ discarded \subseteq Notes
  /\ version \in [Notes -> 0..MaxVersion] /\ saved \in [Notes -> 0..MaxVersion]
  /\ editing \in [Notes -> {"none", "sent", "written", "answered", "committed"}]
  /\ \A i \in DOMAIN data : data[i] \in [items : SeqOf(Notes, Limit), version : [Notes -> 0..MaxVersion],
                                         hasMore : BOOLEAN, at : SUBSET Notes, early : SUBSET Notes]
  /\ fetching.kind \in {"none", "next", "all"}
  /\ isError \in BOOLEAN
  /\ fetching.kind = "none" => data # <<>> \/ isError

Init ==
  /\ archivedAt = [n \in Notes |-> IF n = 1 THEN 0 ELSE 1] /\ discarded = {}
  /\ version = [n \in Notes |-> 0] /\ saved = version
  /\ editing = NoSave
  /\ data = <<>> /\ fetching = Fetch("all", <<>>, 1)
  /\ isError = FALSE

-----------------------------------------------------------------------------
(* The backend                                                             *)

InLibrary == {n \in Notes : archivedAt[n] > 0} \ discarded

\* The time alone decides.
AfterTime(cursor) == {n \in InLibrary : archivedAt[n] < archivedAt[cursor]}

\* The cursor is the last note of the page before, which may be discarded by now.
After(cursor) == {n \in InLibrary : Before(cursor, n)}

Sorted(candidates) ==
  CHOOSE s \in [1..Cardinality(candidates) -> candidates] :
    \A i, j \in DOMAIN s : i < j => Before(s[i], s[j])

PageOf(candidates) ==
  LET sorted == Sorted(candidates)
      more == Len(sorted) > Limit
      items == IF more THEN SubSeq(sorted, 1, Limit) ELSE sorted
  IN [items |-> items, version |-> [n \in Notes |-> IF n \in ToSet(items) THEN version[n] ELSE 0],
      hasMore |-> more, at |-> InLibrary, early |-> {n \in ToSet(items) : editing[n] = "answered"}]

\* A time taken by one process may be committed after a later one of another.
Archive(n) ==
  /\ archivedAt[n] = 0
  /\ \E t \in 1..MaxTime : archivedAt' = [archivedAt EXCEPT ![n] = t]
  /\ UNCHANGED <<discarded, version, editing, data, fetching, isError, saved>>

\* The row is waited for.
Discard(n) ==
  /\ n \in InLibrary /\ Cardinality(discarded) < MaxDiscards /\ ~Uncommitted(n)
  /\ discarded' = discarded \cup {n}
  /\ UNCHANGED <<archivedAt, version, editing, data, fetching, isError, saved>>

-----------------------------------------------------------------------------
(* Reading pages                                                           *)

LoadMore ==
  /\ ~isError /\ HasMore /\ ~IsFetchingNextPage
  /\ fetching' = Fetch("next", data, Len(data) + 1)
  /\ UNCHANGED <<archivedAt, discarded, version, editing, data, isError, saved>>

\* As many pages as there are, from the first; a fetch under way is dropped,
\* unless it is the first.
ReadAgain == IF data = <<>> /\ fetching # NoFetch THEN fetching
             ELSE Fetch("all", <<>>, IF data = <<>> THEN 1 ELSE Len(data))

Retry ==
  /\ isError
  /\ fetching' = ReadAgain
  /\ UNCHANGED <<archivedAt, discarded, version, editing, data, isError, saved>>

\* The window comes back to the front with old data.
Refocus ==
  /\ fetching = NoFetch
  /\ fetching' = ReadAgain
  /\ UNCHANGED <<archivedAt, discarded, version, editing, data, isError, saved>>

ServerPage ==
  /\ fetching # NoFetch /\ fetching.answer = <<>>
  /\ LET pages == fetching.pages
         page == PageOf(IF pages = <<>> THEN InLibrary ELSE After(Last(Last(pages).items)))
     IN fetching' = [fetching EXCEPT !.answer = <<page>>]
  /\ UNCHANGED <<archivedAt, discarded, version, editing, data, isError, saved>>

HandlePage ==
  /\ fetching.answer # <<>>
  /\ LET pages == fetching.pages \o fetching.answer IN
     IF Len(pages) < fetching.want /\ Last(pages).hasMore
     THEN /\ fetching' = Fetch(fetching.kind, pages, fetching.want)
          /\ UNCHANGED <<data, isError>>
     ELSE /\ fetching' = NoFetch
          /\ data' = pages
          /\ isError' = FALSE
  /\ UNCHANGED <<archivedAt, discarded, version, editing, saved>>

\* A request lost twice: the notes make way for the error, and are kept.
HandleLoss ==
  /\ fetching # NoFetch
  /\ fetching' = NoFetch
  /\ isError' = TRUE
  /\ UNCHANGED <<archivedAt, discarded, version, editing, data, saved>>

-----------------------------------------------------------------------------
(* Edits on the page                                                       *)

\* One editor waits for its save at a time; it closes with the answer.
StartEdit(n) ==
  /\ ~isError /\ \A m \in Notes : editing[m] \in {"none", "answered"}
  /\ editing[n] = "none" /\ version[n] < MaxVersion
  /\ Cardinality({m \in Notes \ {n} : version[m] > 0 \/ editing[m] # "none"}) < MaxEdited
  /\ n \in Shown
  /\ editing' = [editing EXCEPT ![n] = "sent"]
  /\ UNCHANGED <<archivedAt, discarded, version, data, fetching, isError, saved>>

\* A note discarded meanwhile cannot be edited.
UpdateItem(n) ==
  /\ editing[n] = "sent"
  /\ editing' = [editing EXCEPT ![n] = IF n \in InLibrary THEN "written" ELSE "none"]
  /\ UNCHANGED <<archivedAt, discarded, version, data, fetching, isError, saved>>

CommitEdit(n) ==
  /\ Uncommitted(n)
  /\ version' = [version EXCEPT ![n] = @ + 1]
  /\ editing' = [editing EXCEPT ![n] = IF @ = "written" THEN "committed" ELSE "none"]
  /\ UNCHANGED <<archivedAt, discarded, data, fetching, isError, saved>>

\* The version a save under way has written.
Written(n) == IF editing[n] = "written" THEN version[n] + 1 ELSE version[n]

\* updateItem: the note is replaced on the pages that hold it.
Replaced(n) == [i \in DOMAIN data |->
  IF n \in ToSet(data[i].items)
  THEN [data[i] EXCEPT !.version[n] = Written(n), !.early = @ \ {n}] ELSE data[i]]

\* The list is marked old, and a fetch under way goes on.
SaveAnsweredLazily(n) ==
  /\ editing[n] \in {"written", "committed"}
  /\ saved' = [saved EXCEPT ![n] = Written(n)]
  /\ data' = Replaced(n)
  /\ fetching' = IF fetching = NoFetch THEN ReadAgain ELSE fetching
  /\ editing' = [editing EXCEPT ![n] = IF @ = "written" THEN "answered" ELSE "none"]
  /\ UNCHANGED <<archivedAt, discarded, version, isError>>

\* invalidateQueries drops a fetch under way, then updateItem.  The answer may
\* come before the commit, and so may the reads it asks for.
SaveAnswered(n) ==
  /\ editing[n] \in {"written", "committed"}
  /\ saved' = [saved EXCEPT ![n] = Written(n)]
  /\ data' = Replaced(n)
  /\ fetching' = ReadAgain
  /\ editing' = [editing EXCEPT ![n] = IF @ = "written" THEN "answered" ELSE "none"]
  /\ UNCHANGED <<archivedAt, discarded, version, isError>>

-----------------------------------------------------------------------------
Server == \E n \in Notes : Archive(n) \/ Discard(n)
User == LoadMore \/ Retry \/ Refocus \/ \E n \in Notes : StartEdit(n)
\* Requests for pages are answered or given up.
Progress == ServerPage \/ HandlePage \/ HandleLoss
Saving(n) == UpdateItem(n) \/ CommitEdit(n) \/ SaveAnswered(n)
Next == Server \/ User \/ Progress \/ \E n \in Notes : Saving(n)

-----------------------------------------------------------------------------
\* Notes in the library through the reads of all the pages shown.
Steady == {n \in Notes : \A i \in DOMAIN data : n \in data[i].at}
Reached(n) == ~HasMore \/ ~Before(Last(Last(data).items), n)

\* Whatever is archived, discarded or lost between two pages, the list runs
\* from the newest note down, no note twice, and leaves out no note that was in
\* the library throughout and belongs above its end: also the notes archived
\* at the same moment as the last one of a page (get_archived_by_user, getNextPageParam).
PagesAreGapless ==
  /\ \A i, k \in DOMAIN data : \A a \in DOMAIN data[i].items : \A b \in DOMAIN data[k].items :
       i < k \/ (i = k /\ a < b) => Before(data[i].items[a], data[k].items[b])
  /\ data # <<>> => \A n \in Steady : Reached(n) => n \in Shown

\* Whatever was being read when a save was answered, the list shows a note older
\* than the user was told is saved only where the page with it was read between
\* that answer and its commit (useEditorSave, updateItem, get_db_session).
OnlyEarlyReadsHideSaves ==
  \A i \in DOMAIN data : \A n \in ToSet(data[i].items) :
    n \in data[i].early \/ data[i].version[n] >= saved[n]
=============================================================================

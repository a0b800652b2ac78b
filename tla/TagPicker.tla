------------------------------ MODULE TagPicker ------------------------------
(***************************************************************************)
(* The tag picker of the web client: a popover with a debounced search of  *)
(* the user's tags, and the creation of a tag that is not found.           *)
(*                                                                         *)
(* A query is the name it spells, or "" for all names; a query matches its *)
(* own name alone.  The answers are cached per query (TanStack Query).     *)
(***************************************************************************)
EXTENDS Integers, FiniteSets

CONSTANTS
  Names,
  Typed,         \* bound: the names that are spelt out in the search
  MaxCreations   \* bound: creations under way at a time

VARIABLES
  parent,        \* what the parent makes of a change: "list" keeps the list it
                 \* is given, "editor" works out the difference from its form
  isOpen, searchQuery,
  debouncedQuery,
  selectedTags,
  serverTags,    \* the user's tags at the server
  cache,         \* query -> what its last answer found, or NoData
  stale,         \* queries whose data is to be asked for again when next shown
  fetching,      \* queries asked for and not answered
  creating       \* creations under way

pickerVars == <<isOpen, searchQuery, debouncedQuery>>
cacheVars == <<cache, stale, fetching>>
vars == <<parent, pickerVars, selectedTags, serverTags, cacheVars, creating>>

All == "all"
Queries == Typed \cup {All}
NoData == {"no data"}
Matches(q) == IF q = All THEN Names ELSE {q}

\* A creation: the name, and the selection and the form its caller had.
Creation == [name : Typed, seen : SUBSET Names, phase : {"sent", "created", "failed"}]

TypeOK ==
  /\ parent \in {"list", "editor"}
  /\ isOpen \in BOOLEAN
  /\ searchQuery \in Queries /\ debouncedQuery \in Queries
  /\ selectedTags \subseteq Names /\ serverTags \subseteq Names
  /\ cache \in [Queries -> (SUBSET Names) \cup {NoData}]
  /\ stale \subseteq Queries /\ fetching \subseteq Queries
  /\ creating \subseteq Creation
  /\ ~isOpen => searchQuery = All

Init ==
  /\ parent \in {"list", "editor"}
  /\ isOpen = FALSE /\ searchQuery = All /\ debouncedQuery = All
  /\ selectedTags = {}
  /\ serverTags \in {{}, Names}
  /\ cache = [q \in Queries |-> NoData]
  /\ stale = {} /\ fetching = {} /\ creating = {}

-----------------------------------------------------------------------------
(* The search (useTagSearch)                                               *)

\* A query that comes into view is fetched unless its data is fresh.
Needed(q) == q \notin fetching /\ (cache[q] = NoData \/ q \in stale)
Observe(q) == fetching' = IF Needed(q) THEN fetching \cup {q} ELSE fetching

SearchedTags == IF cache[debouncedQuery] = NoData THEN {} ELSE cache[debouncedQuery]

Open ==
  /\ ~isOpen
  /\ isOpen' = TRUE
  /\ Observe(debouncedQuery)
  /\ UNCHANGED <<parent, searchQuery, debouncedQuery, selectedTags, serverTags, cache, stale, creating>>

\* What was typed is there when the popover opens again.
CloseKeeping ==
  /\ isOpen
  /\ isOpen' = FALSE
  /\ UNCHANGED <<parent, searchQuery, debouncedQuery, selectedTags, serverTags, cacheVars, creating>>

Close ==
  /\ isOpen
  /\ isOpen' = FALSE /\ searchQuery' = All
  /\ UNCHANGED <<parent, debouncedQuery, selectedTags, serverTags, cacheVars, creating>>

Type(q) ==
  /\ isOpen /\ q # searchQuery
  /\ searchQuery' = q
  /\ UNCHANGED <<parent, isOpen, debouncedQuery, selectedTags, serverTags, cacheVars, creating>>

Debounce ==
  /\ debouncedQuery # searchQuery
  /\ debouncedQuery' = searchQuery
  /\ IF isOpen THEN Observe(searchQuery) ELSE UNCHANGED fetching
  /\ UNCHANGED <<parent, isOpen, searchQuery, selectedTags, serverTags, cache, stale, creating>>

\* The read and its answer are one step: a list that is late is the subject
\* of TagManagement.
Answer(q) ==
  /\ q \in fetching
  /\ fetching' = fetching \ {q}
  /\ stale' = stale \ {q}
  /\ cache' = [cache EXCEPT ![q] = serverTags \cap Matches(q)]
  /\ UNCHANGED <<parent, pickerVars, selectedTags, serverTags, creating>>

FailSearch(q) ==
  /\ q \in fetching
  /\ fetching' = fetching \ {q}
  /\ UNCHANGED <<parent, pickerVars, selectedTags, serverTags, cache, stale, creating>>

-----------------------------------------------------------------------------
(* The selection                                                           *)

AllTags == SearchedTags \cup selectedTags
FilteredTags == AllTags \cap Matches(searchQuery)
ExactMatch == searchQuery \in AllTags

\* The difference from the form by now: what came meanwhile is taken for removed.
DifferenceNow(seen, tags) == (selectedTags \cup (tags \ selectedTags)) \ (selectedTags \ tags)

\* handleTagChange: the tags are added and removed that differ from the form
\* its caller saw; the tags of the form by now are the reducer's.
Difference(seen, tags) == (selectedTags \cup (tags \ seen)) \ (seen \ tags)

\* The editor applies the difference; the other parents keep the list.
OnChange(seen, tags) ==
  selectedTags' = IF parent = "editor" THEN Difference(seen, tags) ELSE tags

ToggleTag(n) ==
  /\ isOpen /\ n \in FilteredTags
  /\ OnChange(selectedTags, IF n \in selectedTags THEN selectedTags \ {n} ELSE selectedTags \cup {n})
  /\ UNCHANGED <<parent, pickerVars, serverTags, cacheVars, creating>>

RemoveTag(n) ==
  /\ n \in selectedTags
  /\ OnChange(selectedTags, selectedTags \ {n})
  /\ UNCHANGED <<parent, pickerVars, serverTags, cacheVars, creating>>

\* The button and Enter stay usable while another creation is under way.
CreateTag ==
  /\ isOpen /\ searchQuery # All /\ ~ExactMatch
  /\ Cardinality(creating) < MaxCreations
  /\ creating' = creating \cup {[name |-> searchQuery, seen |-> selectedTags, phase |-> "sent"]}
  /\ UNCHANGED <<parent, pickerVars, selectedTags, serverTags, cacheVars>>

ServerCreate(c) ==
  /\ c.phase = "sent"
  /\ serverTags' = serverTags \cup {c.name}
  /\ creating' = (creating \ {c}) \cup {[c EXCEPT !.phase = "created"]}
  /\ UNCHANGED <<parent, pickerVars, selectedTags, cacheVars>>

\* Refused, or never arrived; or created, and the answer lost.
FailCreate(c) ==
  /\ c.phase \in {"sent", "created"}
  /\ creating' = (creating \ {c}) \cup {[c EXCEPT !.phase = "failed"]}
  /\ UNCHANGED <<parent, pickerVars, selectedTags, serverTags, cacheVars>>

\* invalidateQueries: what is shown is asked for again, the rest when next shown.
Invalidate ==
  /\ stale' = {q \in Queries : cache[q] # NoData}
  /\ fetching' = IF isOpen THEN fetching \cup {debouncedQuery} ELSE fetching

\* A failure is logged, and the tag selected all the same; what is typed by
\* now is cleared.
CreateAnswered(c) ==
  /\ c.phase \in {"created", "failed"}
  /\ creating' = creating \ {c}
  /\ IF c.phase = "created" THEN Invalidate ELSE UNCHANGED <<stale, fetching>>
  /\ OnChange(c.seen, c.seen \cup {c.name})
  /\ searchQuery' = All
  /\ UNCHANGED <<parent, isOpen, debouncedQuery, serverTags, cache>>

-----------------------------------------------------------------------------
User ==
  \/ Open \/ Close \/ CreateTag
  \/ \E q \in Queries : Type(q)
  \/ \E n \in Names : ToggleTag(n) \/ RemoveTag(n)

Progress ==
  \/ Debounce
  \/ \E q \in Queries : Answer(q) \/ FailSearch(q)
  \/ \E c \in creating : ServerCreate(c) \/ FailCreate(c) \/ CreateAnswered(c)

Next == User \/ Progress

-----------------------------------------------------------------------------
\* In the editor a step changes the choice of one tag at most, and the answer to
\* a creation only adds its own: tags picked and removed while creations were
\* awaited stay so, though each answer holds the selection from before
\* (handleCreateTag, handleTagChange).
ChoiceStep ==
  /\ \E n \in Names : selectedTags' \ {n} = selectedTags \ {n}
  /\ creating' # creating => selectedTags \subseteq selectedTags'
TagChoicesKept == [][parent = "editor" => ChoiceStep]_vars
=============================================================================

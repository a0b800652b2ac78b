----------------------------- MODULE SearchPage -----------------------------
(***************************************************************************)
(* The search page of the web client: what is typed, the draft kept while  *)
(* the user signs in, tag suggestions, and one search at a time.           *)
(*                                                                         *)
(* A query is a tag sign or none, and a word or none; "" is neither.       *)
(***************************************************************************)
EXTENDS Integers, FiniteSets

CONSTANTS
  Words, NoWord,
  MaxEdits      \* bound: times the notes found for a word change

VARIABLES
  isSignedIn,
  query,        \* the text of the input
  draft,        \* local storage, NoQuery for none
  searchState, searchMode,
  resultsOf,    \* ghost: the query that the results answer
  results,      \* the search found something
  found,        \* the words for which the server has notes
  edits,
  requests,     \* searches under way
  submitted,    \* ghost: the last query searched for
  asked,        \* ghost: the last query asked for signed out, not searched for yet
  isTagPopoverOpen

inputVars == <<query, isTagPopoverOpen>>
stateVars == <<searchState, searchMode, resultsOf, results>>
vars == <<isSignedIn, inputVars, draft, stateVars, found, edits, requests, submitted, asked>>

Query == [tag : BOOLEAN, word : Words \cup {NoWord}]
NoQuery == [tag |-> FALSE, word |-> NoWord]
Sign == [tag |-> TRUE, word |-> NoWord]
Plain(w) == [tag |-> FALSE, word |-> w]
Tag(w) == [tag |-> TRUE, word |-> w]

ModeOf(q) == IF q.tag THEN "tag_only" ELSE "combined"
Request == [query : Query, state : {"sent", "found", "none", "failed"}]

TypeOK ==
  /\ isSignedIn \in BOOLEAN
  /\ query \in Query /\ draft \in Query
  /\ searchState \in {"idle", "searching", "results", "no_results", "error"}
  /\ searchMode \in {"tag_only", "combined"}
  /\ resultsOf \in Query /\ results \in BOOLEAN
  /\ found \subseteq Words /\ edits \in 0..MaxEdits
  /\ requests \subseteq Request
  /\ submitted \in Query /\ asked \in Query
  /\ isTagPopoverOpen \in BOOLEAN
  /\ searchState = "searching" <=> requests # {}

Init ==
  /\ isSignedIn = FALSE
  /\ query = NoQuery /\ draft = NoQuery
  /\ searchState = "idle" /\ searchMode = "combined"
  /\ resultsOf = NoQuery /\ results = FALSE
  /\ found = Words /\ edits = 0
  /\ requests = {}
  /\ submitted = NoQuery /\ asked = NoQuery
  /\ isTagPopoverOpen = FALSE

-----------------------------------------------------------------------------
(* The input                                                               *)

\* The effect on the query: a tag word opens the suggestions, no sign closes them.
SetQuery(q) ==
  /\ query' = q
  /\ isTagPopoverOpen' =
       IF q = query THEN isTagPopoverOpen
       ELSE (q.tag /\ q.word # NoWord) \/ (q.tag /\ isTagPopoverOpen)

\* The input takes text while a search is under way.
InputEnabledAlways == TRUE

InputEnabled == searchState # "searching"

Type(q) ==
  /\ InputEnabled /\ q # query
  /\ SetQuery(q)
  /\ UNCHANGED <<isSignedIn, draft, stateVars, found, edits, requests, submitted, asked>>

\* The tag button and the suggestions stay usable during a search.
TagChip ==
  /\ query' = IF query.tag THEN query ELSE Sign
  /\ isTagPopoverOpen' = TRUE
  /\ UNCHANGED <<isSignedIn, draft, stateVars, found, edits, requests, submitted, asked>>

\* It closes the suggestions, and the effect on a new query opens them again.
SelectTag(w) ==
  /\ isTagPopoverOpen /\ query.tag
  /\ query' = Tag(w)
  /\ isTagPopoverOpen' = (query # Tag(w))
  /\ UNCHANGED <<isSignedIn, draft, stateVars, found, edits, requests, submitted, asked>>

-----------------------------------------------------------------------------
(* Searching                                                               *)

\* Signed out, the query is kept, and the page left for the login page.
Search(q) ==
  /\ isTagPopoverOpen' = FALSE
  /\ IF isSignedIn
     THEN /\ draft' = NoQuery /\ query' = q
          /\ searchState' = "searching"
          /\ requests' = requests \cup {[query |-> q, state |-> "sent"]}
          /\ submitted' = q /\ asked' = NoQuery
     ELSE /\ draft' = q /\ asked' = q /\ query' = NoQuery
          /\ UNCHANGED <<searchState, requests, submitted>>
  /\ UNCHANGED <<isSignedIn, searchMode, resultsOf, results, found, edits>>

Submit ==
  /\ InputEnabled /\ query # NoQuery
  /\ Search(query)

\* The text by now is searched for, not the one that failed.
Retry ==
  /\ searchState = "error" /\ query # NoQuery
  /\ Search(query)

Clear ==
  /\ searchState = "no_results"
  /\ SetQuery(NoQuery)
  /\ searchState' = "idle" /\ results' = FALSE
  /\ UNCHANGED <<isSignedIn, draft, searchMode, resultsOf, found, edits, requests, submitted, asked>>

\* Back from the login page, with the draft in the input, or not signed in after all.
Return(signedIn) ==
  /\ ~isSignedIn /\ query = NoQuery /\ asked # NoQuery
  /\ isSignedIn' = signedIn
  /\ IF draft # NoQuery THEN SetQuery(draft) ELSE UNCHANGED inputVars
  /\ UNCHANGED <<draft, stateVars, found, edits, requests, submitted, asked>>

SignInFirst ==
  /\ ~isSignedIn /\ asked = NoQuery
  /\ isSignedIn' = TRUE
  /\ UNCHANGED <<inputVars, draft, stateVars, found, edits, requests, submitted, asked>>

-----------------------------------------------------------------------------
(* The backend and its answers                                             *)

EditNotes ==
  /\ edits < MaxEdits /\ edits' = edits + 1
  /\ \E w \in Words : found' = (found \ {w}) \cup ({w} \ found)
  /\ UNCHANGED <<isSignedIn, inputVars, draft, stateVars, requests, submitted, asked>>

\* A sign without a word is refused (parse_search_mode).
ServerSearch(r) ==
  /\ r.state = "sent"
  /\ requests' = (requests \ {r}) \cup {[r EXCEPT !.state =
       IF r.query = Sign THEN "failed" ELSE IF r.query.word \in found THEN "found" ELSE "none"]}
  /\ UNCHANGED <<isSignedIn, inputVars, draft, stateVars, found, edits, submitted, asked>>

Lose(r) ==
  /\ r.state # "failed"
  /\ requests' = (requests \ {r}) \cup {[r EXCEPT !.state = "failed"]}
  /\ UNCHANGED <<isSignedIn, inputVars, draft, stateVars, found, edits, submitted, asked>>

HandleAnswer(r) ==
  /\ r.state # "sent"
  /\ requests' = requests \ {r}
  /\ IF r.state # "failed"
     THEN /\ searchMode' = ModeOf(r.query)
          /\ resultsOf' = r.query /\ results' = (r.state = "found")
          /\ searchState' = IF r.state = "found" THEN "results" ELSE "no_results"
     ELSE searchState' = "error" /\ UNCHANGED <<searchMode, resultsOf, results>>
  /\ UNCHANGED <<isSignedIn, inputVars, draft, found, edits, submitted, asked>>

-----------------------------------------------------------------------------
User ==
  \/ TagChip \/ Submit \/ Retry \/ Clear \/ SignInFirst
  \/ \E q \in {NoQuery, Sign} \cup {Plain(w) : w \in Words} \cup {Tag(w) : w \in Words} : Type(q)
  \/ \E w \in Words : SelectTag(w)
  \/ \E signedIn \in BOOLEAN : Return(signedIn)

\* The backend answers, and the browser handles what arrives.
Progress == \E r \in requests : ServerSearch(r) \/ HandleAnswer(r)

Next == User \/ EditNotes \/ Progress \/ \E r \in requests : Lose(r)

-----------------------------------------------------------------------------
\* What is shown answers the query searched for last, in its mode, whatever was
\* typed or picked meanwhile: one search at a time, and the input closed while
\* it is under way (handleSearch, disabled in InputBar).
ResultsOfLastSearch ==
  searchState \in {"results", "no_results"} =>
    /\ resultsOf = submitted /\ searchMode = ModeOf(submitted)
    /\ results <=> searchState = "results"
=============================================================================

---------------------------- MODULE MobileLibrary ----------------------------
(***************************************************************************)
(* The library of the mobile client: LibraryViewModel, which lists all     *)
(* notes or those a query finds.  A search waits until the user has not    *)
(* typed for 300 ms; requests that have begun are never cancelled, and     *)
(* their answers come in any order.                                        *)
(***************************************************************************)
EXTENDS Naturals, FiniteSets

CONSTANTS
  Queries,
  Blank,                 \* the query that lists all notes
  MaxTyped, MaxRequests, MaxFaults   \* bounds: changes of the query, requests, lost ones

VARIABLES
  query,
  searchJob,             \* the query that waits for the end of the delay
  isLoading, isSearching, failed,
  items,                 \* the query whose answer is listed
  requests,
  sent, typed,
  newest,                \* ghost: the newest request whose answer was listed
  overtaken,             \* ghost: an older one was listed after it
  faults

vars ==
  <<query, searchJob, isLoading, isSearching, failed, items, requests, sent, typed, newest, overtaken, faults>>

AnyQuery == Queries \cup {Blank}
NoJob == {}

TypeOK ==
  /\ query \in AnyQuery /\ items \in AnyQuery
  /\ searchJob \in {NoJob} \cup {{q} : q \in Queries}
  /\ requests \subseteq [number : 1..MaxRequests, of : AnyQuery]
  /\ newest \in 0..sent

\* A request is a load or a search by what it is for.
Request(number, q) == [number |-> number, of |-> q]

\* loadLibrary and search start at once, in a coroutine of their own.
Init ==
  /\ query = Blank /\ searchJob = NoJob
  /\ isLoading = TRUE /\ isSearching = FALSE /\ failed = FALSE
  /\ items = Blank
  /\ requests = {Request(1, Blank)}
  /\ sent = 1 /\ typed = 0
  /\ newest = 0 /\ overtaken = FALSE
  /\ faults = 0

Send(q) ==
  /\ sent < MaxRequests
  /\ sent' = sent + 1 /\ requests' = requests \cup {Request(sent + 1, q)}
  /\ isLoading' = (isLoading \/ q = Blank) /\ isSearching' = (isSearching \/ q # Blank)
  /\ failed' = FALSE

\* A search that waits is not given up when the query is cleared.
QueryChangedKeepingSearch(q) ==
  /\ typed < MaxTyped /\ typed' = typed + 1
  /\ query' = q
  /\ IF q = Blank
     THEN Send(Blank) /\ UNCHANGED searchJob
     ELSE searchJob' = {q} /\ UNCHANGED <<isLoading, isSearching, failed, requests, sent>>
  /\ UNCHANGED <<items, newest, overtaken, faults>>

QueryChanged(q) ==
  /\ typed < MaxTyped /\ typed' = typed + 1
  /\ query' = q
  /\ IF q = Blank
     THEN Send(Blank) /\ searchJob' = NoJob
     ELSE searchJob' = {q} /\ UNCHANGED <<isLoading, isSearching, failed, requests, sent>>
  /\ UNCHANGED <<items, newest, overtaken, faults>>

DelayEnds ==
  /\ \E q \in searchJob : Send(q)
  /\ searchJob' = NoJob
  /\ UNCHANGED <<query, items, typed, newest, overtaken, faults>>

\* By the button, or when the tab is entered or a note was changed.
Retry ==
  /\ Send(query)
  /\ UNCHANGED <<query, searchJob, items, typed, newest, overtaken, faults>>

\* A load ends the display of a search too; a search does not end that of a load.
Succeed(r) ==
  /\ requests' = requests \ {r}
  /\ items' = r.of
  /\ isSearching' = FALSE /\ isLoading' = (isLoading /\ r.of # Blank)
  /\ overtaken' = (r.number < newest)
  /\ newest' = IF r.number > newest THEN r.number ELSE newest
  /\ UNCHANGED <<query, searchJob, failed, sent, typed, faults>>

Lose(r) ==
  /\ faults < MaxFaults /\ faults' = faults + 1
  /\ requests' = requests \ {r}
  /\ isLoading' = (isLoading /\ r.of # Blank) /\ isSearching' = (isSearching /\ r.of = Blank)
  /\ failed' = TRUE
  /\ UNCHANGED <<query, searchJob, items, sent, typed, newest, overtaken>>

Next ==
  \/ \E q \in AnyQuery : QueryChanged(q)
  \/ DelayEnds \/ Retry
  \/ \E r \in requests : Succeed(r) \/ Lose(r)

Spec == Init /\ [][Next]_vars

-----------------------------------------------------------------------------
\* With nothing under way and no error shown, the notes listed are those of the
\* query, unless an older answer came after a newer one: no search the user has
\* typed past is ever sent (handleQueryChanged), and each change of the query
\* and each retry sends the last.
ListedForTheQuery ==
  requests = {} /\ searchJob = NoJob /\ ~failed /\ ~overtaken => items = query
=============================================================================

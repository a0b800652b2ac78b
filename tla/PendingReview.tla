---------------------------- MODULE PendingReview ----------------------------
(***************************************************************************)
(* The pending list of the web home page: AppContext's list and polling,   *)
(* the cards, and the review dialog, against a backend that answers a      *)
(* request before it commits it.                                           *)
(*                                                                         *)
(* The model starts after the list was fetched the first time.  The list   *)
(* is a function, so a card shown twice is shown once.  One suggestion     *)
(* stands for an item's suggested tags.                                    *)
(***************************************************************************)
EXTENDS Integers, ItemStates

CONSTANTS
  Items, NoItem,
  Requests,      \* bound: user requests at a time
  Polls,         \* bound: list requests at a time
  MaxFaults      \* bound: requests or answers lost

ASSUME PendingReviewAssumption == NoItem \notin Items /\ MaxFaults \in Nat

VARIABLES
  stored,        \* committed status of each item
  uncommitted,   \* status an answered, uncommitted transaction will commit
  listed,        \* AppContext.pendingItems: the status shown, if shown
  isLoading,     \* AppContext.isLoading: cards are replaced by a skeleton
  requests,      \* user requests under way
  polls,         \* list requests under way
  modal,         \* the cards whose isModalOpen is set
  confirming,    \* the dialogs whose isConfirming is set
  review,        \* reviewState: what each dialog has for its item's suggestion
  misled,        \* history: the last list taken from a poll was out of date
  faults

vars == <<stored, uncommitted, listed, isLoading, requests, polls, modal, confirming, review, misled, faults>>
serverVars == <<stored, uncommitted>>
dialogVars == <<modal, confirming, review>>

PendingStatus == {"ENRICHING", "READY_TO_CONFIRM", "FAILED"}
Shown == PendingStatus \cup {"hidden"}
Idle == [kind |-> "none", item |-> NoItem, phase |-> "idle", ok |-> FALSE]
NoPoll == [phase |-> "idle", ok |-> FALSE, list |-> [i \in Items |-> "hidden"]]

\* What GET /items/pending returns of the committed rows.
PendingRows == [i \in Items |-> IF stored[i] \in PendingStatus THEN stored[i] ELSE "hidden"]

Unreviewed == [i \in Items |-> "PENDING"]

Init ==
  /\ stored \in [Items -> PendingStatus \cup {"ABSENT"}]
  /\ uncommitted = [i \in Items |-> "none"]
  /\ listed = PendingRows
  /\ isLoading = FALSE
  /\ requests = [q \in Requests |-> Idle]
  /\ polls = [p \in Polls |-> NoPoll]
  /\ modal = {} /\ confirming = {} /\ review = Unreviewed /\ misled = FALSE /\ faults = 0

-----------------------------------------------------------------------------
(* The user                                                                *)

Free(q) == requests[q] = Idle

Put(q, kind, i, phase) ==
  /\ Free(q)
  /\ requests' = [requests EXCEPT ![q] = [kind |-> kind, item |-> i, phase |-> phase, ok |-> FALSE]]

\* A request starts: the skeleton takes the place of the cards, so dialogs
\* and what was entered in them are gone.
StartLoading ==
  /\ isLoading' = TRUE
  /\ modal' = {} /\ confirming' = {} /\ review' = Unreviewed

\* A card shown as ENRICHING keeps isModalOpen but has no dialog.
DialogVisible(i) == i \in modal /\ listed[i] # "ENRICHING"
NoDialog == \A i \in Items : ~DialogVisible(i)

\* Saving a note, with or without enrichment.  The home page saves one at a time.
Create(q, i, kind) ==
  /\ NoDialog /\ stored[i] = "ABSENT" /\ uncommitted[i] = "none"
  /\ \A q2 \in Requests : requests[q2].kind \notin {"create", "save"}
  /\ Put(q, kind, i, "sent")
  /\ StartLoading
  /\ UNCHANGED <<serverVars, listed, polls, misled, faults>>

CardVisible(i) == ~isLoading /\ NoDialog /\ listed[i] # "hidden"

Retry(q, i) ==
  /\ CardVisible(i) /\ listed[i] = "FAILED"
  /\ Put(q, "retry", i, "sent")
  /\ StartLoading
  /\ UNCHANGED <<serverVars, listed, polls, misled, faults>>

OpenModal(i) ==
  /\ CardVisible(i) /\ listed[i] # "ENRICHING"
  /\ modal' = modal \cup {i}
  /\ UNCHANGED <<serverVars, listed, isLoading, requests, polls, confirming, review, misled, faults>>

CloseModal(i) ==
  /\ DialogVisible(i)
  /\ modal' = modal \ {i}
  /\ UNCHANGED <<serverVars, listed, isLoading, requests, polls, confirming, review, misled, faults>>

NextChoice(choice) ==
  CASE choice = "PENDING" -> "ACCEPTED" [] choice = "ACCEPTED" -> "REJECTED" [] OTHER -> "PENDING"

ToggleSuggestion(i) ==
  /\ DialogVisible(i) /\ listed[i] = "READY_TO_CONFIRM"
  /\ review' = [review EXCEPT ![i] = NextChoice(@)]
  /\ UNCHANGED <<serverVars, listed, isLoading, requests, polls, modal, confirming, misled, faults>>

\* Half a second passes before the confirm is sent; the dialog stays usable,
\* but for the button.
ConfirmClicked(q, i) ==
  /\ DialogVisible(i) /\ i \notin confirming
  /\ confirming' = confirming \cup {i}
  /\ Put(q, "confirm", i, "delayed")
  /\ UNCHANGED <<serverVars, listed, isLoading, polls, modal, review, misled, faults>>

SendConfirm(q) ==
  /\ requests[q].phase = "delayed"
  /\ requests' = [requests EXCEPT ![q].phase = "sent"]
  /\ StartLoading
  /\ UNCHANGED <<serverVars, listed, polls, misled, faults>>

\* "Discarded" is shown at once; the answer is not waited for.
DiscardConfirmed(q, i) ==
  /\ DialogVisible(i)
  /\ Put(q, "discard", i, "sent")
  /\ StartLoading
  /\ UNCHANGED <<serverVars, listed, polls, misled, faults>>

-----------------------------------------------------------------------------
(* The backend                                                             *)

Answered(q, ok) ==
  requests' = [requests EXCEPT ![q].phase = "answered", ![q].ok = ok]

NewStatus(r) ==
  CASE r.kind = "create" -> "ENRICHING"
    [] r.kind = "save" -> "ARCHIVED"
    [] OTHER -> AllowedTransitions[stored[r.item]][r.kind]

\* An update waits for the item's row while another transaction has it.
Execute(q) ==
  LET r == requests[q] IN
  /\ r.phase = "sent" /\ uncommitted[r.item] = "none"
  /\ \/ /\ r.kind \in {"create", "save"} \/ (stored[r.item] # "ABSENT" /\ CanTransition(stored[r.item], r.kind))
        /\ uncommitted' = [uncommitted EXCEPT ![r.item] = NewStatus(r)]
        /\ Answered(q, TRUE)
     \/ /\ r.kind \notin {"create", "save"}
        /\ stored[r.item] = "ABSENT" \/ ~CanTransition(stored[r.item], r.kind)
        /\ Answered(q, FALSE)
        /\ UNCHANGED uncommitted
  /\ UNCHANGED <<stored, listed, isLoading, polls, dialogVars, misled, faults>>

Commit(i) ==
  /\ uncommitted[i] # "none"
  /\ stored' = [stored EXCEPT ![i] = uncommitted[i]]
  /\ uncommitted' = [uncommitted EXCEPT ![i] = "none"]
  /\ UNCHANGED <<listed, isLoading, requests, polls, dialogVars, misled, faults>>

\* The worker finishes the item's job.
Enrich(i, status) ==
  /\ stored[i] = "ENRICHING" /\ uncommitted[i] = "none"
  /\ stored' = [stored EXCEPT ![i] = status]
  /\ UNCHANGED <<uncommitted, listed, isLoading, requests, polls, dialogVars, misled, faults>>

ReadPending(p) ==
  /\ polls[p].phase = "sent"
  /\ polls' = [polls EXCEPT ![p] = [phase |-> "answered", ok |-> TRUE, list |-> PendingRows]]
  /\ UNCHANGED <<serverVars, listed, isLoading, requests, dialogVars, misled, faults>>

\* The request never arrives, or its answer is lost.
LoseRequest(q) ==
  /\ requests[q].phase = "sent" \/ (requests[q].phase = "answered" /\ requests[q].ok)
  /\ faults < MaxFaults /\ faults' = faults + 1
  /\ Answered(q, FALSE)
  /\ UNCHANGED <<serverVars, listed, isLoading, polls, dialogVars, misled>>

LosePoll(p) ==
  /\ polls[p].phase = "sent"
  /\ faults < MaxFaults /\ faults' = faults + 1
  /\ polls' = [polls EXCEPT ![p].phase = "answered"]
  /\ UNCHANGED <<serverVars, listed, isLoading, requests, dialogVars, misled>>

-----------------------------------------------------------------------------
(* Answers in the browser                                                  *)

\* A discard that leaves the list to the next poll.
ListAfterLazily(r) ==
  CASE r.kind = "create" -> [listed EXCEPT ![r.item] = "ENRICHING"]
    [] r.kind \in {"save", "discard"} -> listed
    [] r.kind = "confirm" -> [listed EXCEPT ![r.item] = "hidden"]
    [] r.kind = "retry" -> [listed EXCEPT ![r.item] = IF @ = "hidden" THEN @ ELSE "ENRICHING"]

\* The list after a request that succeeded.
ListAfter(r) ==
  CASE r.kind = "create" -> [listed EXCEPT ![r.item] = "ENRICHING"]
    [] r.kind = "save" -> listed
    [] r.kind \in {"confirm", "discard"} -> [listed EXCEPT ![r.item] = "hidden"]
    [] r.kind = "retry" -> [listed EXCEPT ![r.item] = IF @ = "hidden" THEN @ ELSE "ENRICHING"]

\* A card that goes takes its dialog along; one that becomes ENRICHING drops
\* the dialog and what was entered, but remembers that it was open.
KeepDialogs(list) ==
  /\ modal' = {i \in modal : list[i] # "hidden"}
  /\ confirming' = {i \in confirming : list[i] \notin {"hidden", "ENRICHING"}}

\* isLoading is one flag for all requests: the first answer clears it.
HandleAnswer(q) ==
  /\ requests[q].phase = "answered"
  /\ requests' = [requests EXCEPT ![q] = Idle]
  /\ listed' = IF requests[q].ok THEN ListAfter(requests[q]) ELSE listed
  /\ isLoading' = FALSE
  /\ KeepDialogs(listed')
  /\ review' = [i \in Items |-> IF listed'[i] \in {"hidden", "ENRICHING"} THEN "PENDING" ELSE review[i]]
  /\ UNCHANGED <<serverVars, polls, misled, faults>>

\* The list has the items that are pending, or will be once what has been
\* answered is committed.
UpToDate(list) ==
  \A i \in Items : LET status == IF uncommitted[i] = "none" THEN stored[i] ELSE uncommitted[i]
                  IN list[i] # "hidden" <=> status \in PendingStatus

HasEnrichingItems == \E i \in Items : listed[i] = "ENRICHING"

\* The interval does not wait for earlier polls.
Poll(p) ==
  /\ HasEnrichingItems /\ polls[p].phase = "idle"
  /\ polls' = [polls EXCEPT ![p].phase = "sent"]
  /\ UNCHANGED <<serverVars, listed, isLoading, requests, dialogVars, misled, faults>>

\* A poll's list merged into the list, so that new cards stay.
HandlePollMerging(p) ==
  /\ polls[p].phase = "answered"
  /\ polls' = [polls EXCEPT ![p] = NoPoll]
  /\ IF polls[p].ok
     THEN /\ listed' = [i \in Items |-> IF polls[p].list[i] = "hidden" THEN listed[i] ELSE polls[p].list[i]]
          /\ review' = Unreviewed
          /\ KeepDialogs(listed')
          /\ misled' = ~UpToDate(polls[p].list)
     ELSE UNCHANGED <<listed, dialogVars, misled>>
  /\ UNCHANGED <<serverVars, isLoading, requests, faults>>

\* A poll's list replaces the list.  Its items are new objects, for which the
\* dialogs start their reviews anew.
HandlePoll(p) ==
  /\ polls[p].phase = "answered"
  /\ polls' = [polls EXCEPT ![p] = NoPoll]
  /\ IF polls[p].ok
     THEN /\ listed' = polls[p].list
          /\ review' = Unreviewed
          /\ KeepDialogs(listed')
          /\ misled' = ~UpToDate(polls[p].list)
     ELSE UNCHANGED <<listed, dialogVars, misled>>
  /\ UNCHANGED <<serverVars, isLoading, requests, faults>>

-----------------------------------------------------------------------------
UserStep ==
  \/ \E q \in Requests, i \in Items : Create(q, i, "create") \/ Create(q, i, "save") \/ Retry(q, i)
  \/ \E i \in Items : OpenModal(i) \/ CloseModal(i) \/ ToggleSuggestion(i)
  \/ \E q \in Requests, i \in Items : ConfirmClicked(q, i) \/ DiscardConfirmed(q, i)

BackendStep ==
  \/ \E q \in Requests : Execute(q) \/ LoseRequest(q)
  \/ \E i \in Items : Commit(i) \/ Enrich(i, "READY_TO_CONFIRM") \/ Enrich(i, "FAILED")
  \/ \E p \in Polls : ReadPending(p) \/ LosePoll(p)

BrowserStep ==
  \/ \E q \in Requests : SendConfirm(q) \/ HandleAnswer(q)
  \/ \E p \in Polls : Poll(p) \/ HandlePoll(p)

Next == UserStep \/ BackendStep \/ BrowserStep

\* Timers fire, requests are answered, commits follow answers, and the worker
\* ends every job (EnrichmentPipeline).  The user need do nothing.
Fairness ==
  /\ \A q \in Requests : WF_vars(SendConfirm(q)) /\ WF_vars(Execute(q)) /\ WF_vars(HandleAnswer(q))
  /\ \A i \in Items : WF_vars(Commit(i)) /\ WF_vars(Enrich(i, "READY_TO_CONFIRM") \/ Enrich(i, "FAILED"))
  /\ \A p \in Polls : WF_vars(Poll(p)) /\ WF_vars(ReadPending(p)) /\ WF_vars(HandlePoll(p))

Spec == Init /\ [][Next]_vars /\ Fairness

-----------------------------------------------------------------------------
(* Properties                                                              *)

\* Nothing is under way, and no poll is to come.
Quiet ==
  /\ \A q \in Requests : Free(q)
  /\ \A p \in Polls : polls[p].phase = "idle"
  /\ \A i \in Items : uncommitted[i] = "none"
  /\ ~HasEnrichingItems

ListMatches == \A i \in Items : listed[i] # "hidden" <=> stored[i] \in PendingStatus

\* Once all is quiet, the cards are the items pending at the server, whatever
\* overlapped before, unless an answer was lost or a poll brought a list read
\* before the last change.
OnlyLatePollsMislead == Quiet /\ ~misled /\ faults = 0 => ListMatches

\* An item shown as ENRICHING is followed by polling until its card changes,
\* also when polls answer late or not at all.
EnrichingIsFollowed == \A i \in Items : listed[i] = "ENRICHING" ~> listed[i] # "ENRICHING"
=============================================================================

--------------------------- MODULE ItemLifecycle ----------------------------
(***************************************************************************)
(* What the backend promises about one item, whatever the number of        *)
(* processes, workers and requests that handle it: its status moves only   *)
(* along the life cycle of domain/entities/item.py, an enrichment round    *)
(* ends in READY_TO_CONFIRM or, after exactly MaxRetries counted failures, *)
(* in FAILED, and every round ends.                                        *)
(*                                                                         *)
(* EnrichmentPipeline implements this specification.                       *)
(***************************************************************************)
EXTENDS Integers, ItemStates

CONSTANTS
  Items,        \* the items users may submit
  MaxRetries    \* settings.enrichment_max_retries, a positive number

VARIABLES
  status,       \* items.status, or "ABSENT"
  failures      \* failed attempts counted in the item's current round

vars == <<status, failures>>

TypeOK ==
  /\ status \in [Items -> ItemStatus \cup {"ABSENT"}]
  /\ failures \in [Items -> 0 .. MaxRetries]

Init ==
  /\ status = [i \in Items |-> "ABSENT"]
  /\ failures = [i \in Items |-> 0]

Become(i, s) == status' = [status EXCEPT ![i] = s]

Reset(i) == failures' = [failures EXCEPT ![i] = 0]

-----------------------------------------------------------------------------
\* POST /items, with enrichment or as a direct save.
Submit(i) == status[i] = "ABSENT" /\ Become(i, "ENRICHING") /\ UNCHANGED failures

Save(i) == status[i] = "ABSENT" /\ Become(i, "ARCHIVED") /\ UNCHANGED failures

\* Item.mark_enriched: an attempt succeeds.
MarkEnriched(i) ==
  /\ status[i] = "ENRICHING"
  /\ Become(i, "READY_TO_CONFIRM")
  /\ Reset(i)

\* An attempt fails and another one is owed.
AttemptFails(i) ==
  /\ status[i] = "ENRICHING"
  /\ failures[i] + 1 < MaxRetries
  /\ failures' = [failures EXCEPT ![i] = @ + 1]
  /\ UNCHANGED status

\* Item.mark_failed: the last attempt fails.
MarkFailed(i) ==
  /\ status[i] = "ENRICHING"
  /\ failures[i] + 1 = MaxRetries
  /\ Become(i, "FAILED")
  /\ Reset(i)

\* A user action the current state allows.
Act(i, a) ==
  /\ status[i] # "ABSENT"
  /\ CanTransition(status[i], a)
  /\ Become(i, AllowedTransitions[status[i]][a])
  /\ UNCHANGED failures

-----------------------------------------------------------------------------
Attempt(i) == MarkEnriched(i) \/ AttemptFails(i) \/ MarkFailed(i)

Next ==
  \E i \in Items :
    \/ Submit(i) \/ Save(i)
    \/ Attempt(i)
    \/ \E a \in UserActions : Act(i, a)

Fairness == \A i \in Items : WF_vars(Attempt(i))

Spec == Init /\ [][Next]_vars /\ Fairness

\* The safety part alone: no assumption about attempts being made.
SafetySpec == Init /\ [][Next]_vars
=============================================================================

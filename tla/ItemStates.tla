----------------------------- MODULE ItemStates -----------------------------
(***************************************************************************)
(* The states of an Item and the user actions each state allows, from the  *)
(* domain entity backend/app/domain/entities/item.py.  The worker's two    *)
(* transitions, mark_enriched and mark_failed, are not in the code's table *)
(* either: they are guarded by the state ENRICHING itself.                 *)
(***************************************************************************)

\* ItemStatus; "ABSENT" stands for an item with no committed row yet.
ItemStatus ==
  {"ENRICHING", "READY_TO_CONFIRM", "FAILED", "ARCHIVED", "DISCARDED"}

UserActions == {"confirm", "discard", "edit", "retry"}

NoActions == [a \in {} |-> a]

\* Mutant: an item may be discarded while it is being enriched.
AllowedTransitionsWhileEnriching ==
  [ ENRICHING        |-> [ discard |-> "DISCARDED" ],
    READY_TO_CONFIRM |-> [ confirm |-> "ARCHIVED",
                           discard |-> "DISCARDED",
                           edit    |-> "READY_TO_CONFIRM" ],
    FAILED           |-> [ discard |-> "DISCARDED",
                           retry   |-> "ENRICHING" ],
    ARCHIVED         |-> [ edit    |-> "ARCHIVED",
                           discard |-> "DISCARDED" ],
    DISCARDED        |-> NoActions ]

\* Item._ALLOWED_TRANSITIONS: state -> action -> next state.
AllowedTransitions ==
  [ ENRICHING        |-> NoActions,
    READY_TO_CONFIRM |-> [ confirm |-> "ARCHIVED",
                           discard |-> "DISCARDED",
                           edit    |-> "READY_TO_CONFIRM" ],
    FAILED           |-> [ discard |-> "DISCARDED",
                           retry   |-> "ENRICHING" ],
    ARCHIVED         |-> [ edit    |-> "ARCHIVED",
                           discard |-> "DISCARDED" ],
    DISCARDED        |-> NoActions ]

CanTransition(s, a) == a \in DOMAIN AllowedTransitions[s]

=============================================================================

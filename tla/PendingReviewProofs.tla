------------------------- MODULE PendingReviewProofs -------------------------
(***************************************************************************)
(* Once all is quiet the pending list shows what is pending at the server, *)
(* for any notes, requests and polls that overlap, unless an answer was    *)
(* lost or the last poll was read too early.                               *)
(***************************************************************************)
EXTENDS PendingReview, TLAPS

Kinds == {"create", "save", "retry", "confirm", "discard"}
Request == [kind : Kinds, item : Items, phase : {"delayed", "sent", "answered"}, ok : BOOLEAN]
PollRow == [phase : {"idle", "sent", "answered"}, ok : BOOLEAN, list : [Items -> Shown]]

TypeInv ==
  /\ stored \in [Items -> ItemStatus \cup {"ABSENT"}]
  /\ uncommitted \in [Items -> ItemStatus \cup {"none"}]
  /\ listed \in [Items -> Shown]
  /\ requests \in [Requests -> Request \cup {Idle}]
  /\ polls \in [Polls -> PollRow]
  /\ misled \in BOOLEAN /\ faults \in Nat

\* The status an item has once what was answered is committed.
Effective == [i \in Items |-> IF uncommitted[i] = "none" THEN stored[i] ELSE uncommitted[i]]

Creating(q) == requests[q].kind \in {"create", "save"}
Done(q) == requests[q].phase = "answered" /\ requests[q].ok
Removes(q) == Done(q) /\ requests[q].kind \in {"confirm", "discard"}

\* One note is saved at a time, and it is not there before.
CreateInv ==
  /\ \A q, r \in Requests : Creating(q) /\ Creating(r) => q = r
  /\ \A q \in Requests : Creating(q) /\ requests[q].phase = "sent" =>
       stored[requests[q].item] = "ABSENT" /\ uncommitted[requests[q].item] = "none"
  /\ \A q \in Requests : Creating(q) => requests[q].phase # "delayed"

\* A note that was confirmed or discarded is not pending again.
RemoveInv ==
  \A q \in Requests : Removes(q) => Effective[requests[q].item] \in {"ARCHIVED", "DISCARDED"}

\* A card that differs from the server waits for an answer, or for a poll.
CardInv ==
  \/ misled
  \/ faults > 0
  \/ \A i \in Items :
       /\ listed[i] # "hidden" =>
            \/ Effective[i] \in PendingStatus
            \/ listed[i] = "ENRICHING"
            \/ \E q \in Requests : Removes(q) /\ requests[q].item = i
       /\ listed[i] = "hidden" /\ Effective[i] \in PendingStatus =>
            \E q \in Requests : Done(q) /\ requests[q].kind = "create" /\ requests[q].item = i

IInv == TypeInv /\ CreateInv /\ RemoveInv /\ CardInv

-----------------------------------------------------------------------------
(* Facts about the rows                                                    *)

\* The free row is no request.
LEMMA IdleRow ==
  /\ Idle.kind = "none" /\ Idle.phase = "idle" /\ Idle.item = NoItem /\ ~Idle.ok
  /\ Idle \notin Request
  BY PendingReviewAssumption DEF Idle, Request

\* What an allowed action makes of an item: only a retry makes it pending again.
LEMMA ActionResult ==
  ASSUME NEW s \in ItemStatus, NEW a \in {"retry", "confirm", "discard"}, CanTransition(s, a)
  PROVE  /\ s # "ENRICHING" /\ s # "DISCARDED"
         /\ a = "retry" => s = "FAILED" /\ AllowedTransitions[s][a] = "ENRICHING"
         /\ a # "retry" => AllowedTransitions[s][a] \in {"ARCHIVED", "DISCARDED"}
         /\ s = "ARCHIVED" => a = "discard"
  BY DEF ItemStatus, CanTransition, AllowedTransitions, NoActions

\* The list of the pending rows shows what is pending by what is committed.
LEMMA RowsListed ==
  ASSUME TypeInv
  PROVE  PendingRows \in [Items -> Shown] /\ \A i \in Items : PendingRows[i] # "hidden" <=> stored[i] \in PendingStatus
  BY DEF PendingRows, PendingStatus, Shown, TypeInv

-----------------------------------------------------------------------------
LEMMA InitInv == Init => IInv
<1> SUFFICES ASSUME Init PROVE IInv
  OBVIOUS
<1>1. stored \in [Items -> ItemStatus \cup {"ABSENT"}]
  BY DEF Init, PendingStatus, ItemStatus
<1>2. TypeInv
  BY <1>1, RowsListed DEF Init, TypeInv, PollRow, NoPoll, Shown, PendingRows
<1>3. CreateInv /\ RemoveInv
  BY IdleRow DEF Init, CreateInv, RemoveInv, Creating, Removes, Done
<1>4. CardInv
  BY <1>2, RowsListed DEF Init, CardInv, Effective
<1> QED BY <1>2, <1>3, <1>4 DEF IInv

\* The dialogs, and a poll before its answer, change nothing that is shown or
\* stored.
LEMMA UnseenStep ==
  ASSUME IInv, UNCHANGED <<serverVars, listed, requests, misled, faults>>, polls' \in [Polls -> PollRow]
  PROVE  IInv'
<1>1. TypeInv'
  BY DEF IInv, TypeInv, serverVars
<1>2. (\A i \in Items : Effective'[i] = Effective[i]) /\ \A q \in Requests : Removes(q)' = Removes(q) /\ Done(q)' = Done(q)
  BY DEF Effective, Removes, Done, serverVars
<1>3. CreateInv' /\ RemoveInv' /\ CardInv'
  BY <1>2 DEF IInv, TypeInv, CreateInv, RemoveInv, CardInv, Creating, Removes, Done, Effective, serverVars
<1> QED BY <1>1, <1>3 DEF IInv

\* A request that is new, or only now on its way, has no answer yet.
LEMMA RequestSent ==
  ASSUME IInv, UNCHANGED <<serverVars, listed, polls, misled, faults>>, NEW q \in Requests,
         NEW row \in Request, row.phase # "answered", ~Done(q),
         requests' = [requests EXCEPT ![q] = row],
         row.kind \in {"create", "save"} =>
           /\ row.phase = "sent"
           /\ \A r \in Requests \ {q} : ~Creating(r)
           /\ stored[row.item] = "ABSENT" /\ uncommitted[row.item] = "none"
  PROVE  IInv'
<1>1. TypeInv'
  BY DEF IInv, TypeInv, serverVars
<1>2. /\ requests'[q] = row /\ \A r \in Requests \ {q} : requests'[r] = requests[r]
      /\ \A i \in Items : Effective'[i] = Effective[i]
  BY DEF IInv, TypeInv, Effective, serverVars
<1>3. CreateInv'
  BY <1>2 DEF IInv, CreateInv, Creating, serverVars
<1>4. RemoveInv'
  BY <1>2 DEF IInv, TypeInv, RemoveInv, Removes, Done, Effective, serverVars
<1>5. CardInv'
  BY <1>2 DEF IInv, CardInv, Removes, Done
<1> QED BY <1>1, <1>3, <1>4, <1>5 DEF IInv

LEMMA UserRequest ==
  ASSUME IInv, NEW q \in Requests, NEW i \in Items,
         \/ Create(q, i, "create") \/ Create(q, i, "save") \/ Retry(q, i)
         \/ ConfirmClicked(q, i) \/ DiscardConfirmed(q, i)
  PROVE  IInv'
<1>1. PICK kind \in Kinds, phase \in {"sent", "delayed"} :
        /\ Put(q, kind, i, phase)
        /\ kind \in {"create", "save"} =>
             /\ phase = "sent"
             /\ \A r \in Requests : ~Creating(r)
             /\ stored[i] = "ABSENT" /\ uncommitted[i] = "none"
  BY DEF Create, Retry, ConfirmClicked, DiscardConfirmed, Kinds, Creating
<1> DEFINE row == [kind |-> kind, item |-> i, phase |-> phase, ok |-> FALSE]
<1>2. UNCHANGED <<serverVars, listed, polls, misled, faults>>
  BY DEF Create, Retry, ConfirmClicked, DiscardConfirmed
<1>3. row \in Request /\ row.phase # "answered" /\ row.kind = kind /\ row.item = i /\ row.phase = phase
  BY DEF Request
<1>4. requests' = [requests EXCEPT ![q] = row] /\ ~Done(q)
  BY <1>1, IdleRow DEF Put, Free, Done
<1> HIDE DEF row
<1> QED BY <1>1, <1>2, <1>3, <1>4, RequestSent

LEMMA SendConfirmStep ==
  ASSUME IInv, NEW q \in Requests, SendConfirm(q)
  PROVE  IInv'
<1> DEFINE row == [requests[q] EXCEPT !.phase = "sent"]
<1>1. requests[q] \in Request /\ requests[q].phase = "delayed"
  BY IdleRow DEF IInv, TypeInv, SendConfirm
<1>2. row \in Request /\ row.phase = "sent" /\ row.kind = requests[q].kind
  BY <1>1 DEF Request
<1>3. row.kind \notin {"create", "save"}
  BY <1>1, <1>2 DEF IInv, CreateInv, Creating
<1>4. requests' = [requests EXCEPT ![q] = row] /\ ~Done(q)
  BY <1>1 DEF SendConfirm, Done
<1>5. UNCHANGED <<serverVars, listed, polls, misled, faults>>
  BY DEF SendConfirm
<1> HIDE DEF row
<1> QED BY <1>2, <1>3, <1>4, <1>5, RequestSent

-----------------------------------------------------------------------------
(* The backend                                                             *)

\* An executed request r is answered, and leaves a status to be committed.
Outcome(q, r, ok, status) ==
  /\ requests' = [requests EXCEPT ![q] = [r EXCEPT !.phase = "answered", !.ok = ok]]
  /\ uncommitted' = IF ok THEN [uncommitted EXCEPT ![r.item] = status] ELSE uncommitted
  /\ ok /\ r.kind = "create" => status = "ENRICHING" /\ stored[r.item] = "ABSENT"
  /\ ok /\ r.kind = "save" => status = "ARCHIVED" /\ stored[r.item] = "ABSENT"
  /\ ok /\ r.kind = "retry" => stored[r.item] = "FAILED" /\ status = "ENRICHING"
  /\ ok /\ r.kind \in {"confirm", "discard"} => stored[r.item] # "ABSENT" /\ status \in {"ARCHIVED", "DISCARDED"}
  /\ ok /\ stored[r.item] \in {"ARCHIVED", "DISCARDED"} => status \in {"ARCHIVED", "DISCARDED"}

LEMMA Executed ==
  ASSUME IInv, NEW q \in Requests, Execute(q), NEW r, r = requests[q]
  PROVE
    /\ r \in Request /\ r.phase = "sent" /\ uncommitted[r.item] = "none"
    /\ \E ok \in BOOLEAN, status \in ItemStatus : Outcome(q, r, ok, status)
<1>1. r \in Request /\ r.phase = "sent" /\ uncommitted[r.item] = "none" /\ r.item \in Items
  BY IdleRow DEF IInv, TypeInv, Execute, Request
<1>2. stored[r.item] \in ItemStatus \cup {"ABSENT"}
  BY <1>1 DEF IInv, TypeInv
<1>3. ASSUME Answered(q, FALSE), UNCHANGED uncommitted
      PROVE  \E ok \in BOOLEAN, status \in ItemStatus :
               /\ ~ok
               /\ requests' = [requests EXCEPT ![q] = [r EXCEPT !.phase = "answered", !.ok = ok]]
               /\ uncommitted' = uncommitted
  <2>1. requests' = [requests EXCEPT ![q] = [r EXCEPT !.phase = "answered", !.ok = FALSE]]
    BY <1>1, <1>3 DEF Answered, Request, IInv, TypeInv
  <2> QED BY <1>3, <2>1 DEF ItemStatus
<1>4. ASSUME Answered(q, TRUE), uncommitted' = [uncommitted EXCEPT ![r.item] = NewStatus(r)],
             r.kind \in {"create", "save"} \/ (stored[r.item] # "ABSENT" /\ CanTransition(stored[r.item], r.kind))
      PROVE  \E status \in ItemStatus :
               /\ requests' = [requests EXCEPT ![q] = [r EXCEPT !.phase = "answered", !.ok = TRUE]]
               /\ uncommitted' = [uncommitted EXCEPT ![r.item] = status]
               /\ r.kind = "create" => status = "ENRICHING" /\ stored[r.item] = "ABSENT"
               /\ r.kind = "save" => status = "ARCHIVED" /\ stored[r.item] = "ABSENT"
               /\ r.kind = "retry" => stored[r.item] = "FAILED" /\ status = "ENRICHING"
               /\ r.kind \in {"confirm", "discard"} => stored[r.item] # "ABSENT" /\ status \in {"ARCHIVED", "DISCARDED"}
               /\ stored[r.item] \in {"ARCHIVED", "DISCARDED"} => status \in {"ARCHIVED", "DISCARDED"}
  <2>1. requests' = [requests EXCEPT ![q] = [r EXCEPT !.phase = "answered", !.ok = TRUE]]
    BY <1>1, <1>4 DEF Answered, Request, IInv, TypeInv
  <2>2. CASE r.kind \in {"create", "save"}
    <3>1. stored[r.item] = "ABSENT"
      BY <1>1, <2>2 DEF IInv, CreateInv, Creating
    <3> QED BY <1>4, <2>1, <2>2, <3>1 DEF NewStatus, ItemStatus
  <2>3. CASE r.kind \in {"retry", "confirm", "discard"}
    <3>1. stored[r.item] \in ItemStatus /\ CanTransition(stored[r.item], r.kind)
      BY <1>2, <1>4, <2>3
    <3>2. NewStatus(r) = AllowedTransitions[stored[r.item]][r.kind]
      BY <2>3 DEF NewStatus
    <3>3. /\ NewStatus(r) \in ItemStatus
          /\ r.kind = "retry" => stored[r.item] = "FAILED" /\ NewStatus(r) = "ENRICHING"
          /\ r.kind # "retry" => NewStatus(r) \in {"ARCHIVED", "DISCARDED"}
          /\ stored[r.item] \in {"ARCHIVED", "DISCARDED"} => r.kind # "retry"
      BY <2>3, <3>1, <3>2, ActionResult DEF ItemStatus
    <3> QED BY <1>4, <2>1, <2>3, <3>3
  <2> QED BY <1>1, <2>2, <2>3 DEF Request, Kinds
<1>5. \/ Answered(q, FALSE) /\ UNCHANGED uncommitted
      \/ /\ Answered(q, TRUE) /\ uncommitted' = [uncommitted EXCEPT ![r.item] = NewStatus(r)]
         /\ r.kind \in {"create", "save"} \/ (stored[r.item] # "ABSENT" /\ CanTransition(stored[r.item], r.kind))
  BY DEF Execute
<1>6. CASE Answered(q, FALSE) /\ UNCHANGED uncommitted
  <2>1. PICK ok \in BOOLEAN, status \in ItemStatus :
               /\ ~ok
               /\ requests' = [requests EXCEPT ![q] = [r EXCEPT !.phase = "answered", !.ok = ok]]
               /\ uncommitted' = uncommitted
    BY <1>3, <1>6
  <2> QED BY <1>1, <2>1 DEF Outcome
<1>7. CASE /\ Answered(q, TRUE) /\ uncommitted' = [uncommitted EXCEPT ![r.item] = NewStatus(r)]
           /\ r.kind \in {"create", "save"} \/ (stored[r.item] # "ABSENT" /\ CanTransition(stored[r.item], r.kind))
  BY <1>1, <1>4, <1>7 DEF Outcome
<1> QED BY <1>5, <1>6, <1>7

LEMMA ExecuteStep ==
  ASSUME IInv, NEW q \in Requests, Execute(q)
  PROVE  IInv'
<1>. PICK r : r = requests[q]
  OBVIOUS
<1>1. /\ r \in Request /\ r.phase = "sent" /\ uncommitted[r.item] = "none"
      /\ UNCHANGED <<stored, listed, polls, misled, faults>>
  BY Executed DEF Execute
<1>0. PICK ok \in BOOLEAN, status \in ItemStatus : Outcome(q, r, ok, status)
  BY Executed
<1>. PICK j : j = r.item
  OBVIOUS
<1>2. /\ requests' = [requests EXCEPT ![q] = [r EXCEPT !.phase = "answered", !.ok = ok]]
      /\ uncommitted' = IF ok THEN [uncommitted EXCEPT ![j] = status] ELSE uncommitted
      /\ ok /\ r.kind = "create" => status = "ENRICHING" /\ stored[j] = "ABSENT"
      /\ ok /\ r.kind = "save" => status = "ARCHIVED" /\ stored[j] = "ABSENT"
      /\ ok /\ r.kind = "retry" => stored[j] = "FAILED" /\ status = "ENRICHING"
      /\ ok /\ r.kind \in {"confirm", "discard"} => stored[j] # "ABSENT" /\ status \in {"ARCHIVED", "DISCARDED"}
      /\ ok /\ stored[j] \in {"ARCHIVED", "DISCARDED"} => status \in {"ARCHIVED", "DISCARDED"}
  BY <1>0 DEF Outcome
<1>3. /\ j \in Items /\ r.kind \in Kinds
      /\ [r EXCEPT !.phase = "answered", !.ok = ok] \in Request
  BY <1>1 DEF Request
<1>4. /\ requests'[q].kind = r.kind /\ requests'[q].item = j
      /\ requests'[q].phase = "answered" /\ requests'[q].ok = ok
      /\ \A p \in Requests \ {q} : requests'[p] = requests[p]
  BY <1>1, <1>2 DEF IInv, TypeInv, Request
<1>5. requests' \in [Requests -> Request \cup {Idle}]
  BY <1>2, <1>3 DEF IInv, TypeInv
<1>6. uncommitted' \in [Items -> ItemStatus \cup {"none"}]
  BY <1>2, <1>3 DEF IInv, TypeInv
<1>7. /\ \A i \in Items \ {j} : Effective'[i] = Effective[i]
      /\ Effective'[j] = IF ok THEN status ELSE stored[j]
      /\ Effective[j] = stored[j]
  BY <1>1, <1>2, <1>3 DEF IInv, TypeInv, Effective, ItemStatus
<1>8. TypeInv'
  BY <1>1, <1>5, <1>6 DEF IInv, TypeInv
<1>9. CreateInv'
  <2>1. \A p \in Requests : Creating(p)' = Creating(p)
    BY <1>4 DEF Creating
  <2>2. ASSUME NEW p \in Requests, Creating(p)', requests'[p].phase = "sent"
        PROVE  stored'[requests'[p].item] = "ABSENT" /\ uncommitted'[requests'[p].item] = "none"
    <3>1. p # q /\ requests'[p] = requests[p] /\ Creating(p)
      BY <1>4, <2>1, <2>2
    <3>2. stored[requests[p].item] = "ABSENT" /\ uncommitted[requests[p].item] = "none" /\ ~Creating(q)
      BY <3>1, <2>2 DEF IInv, CreateInv
    <3>3. requests[p].item # j \/ ~ok
      BY <1>2, <1>3, <3>2 DEF Creating, Kinds
    <3> QED BY <1>1, <1>2, <3>1, <3>2, <3>3 DEF IInv, TypeInv
  <2> QED BY <1>4, <2>1, <2>2 DEF IInv, CreateInv
<1>10. RemoveInv'
  <2> SUFFICES ASSUME NEW p \in Requests, Removes(p)'
               PROVE  Effective'[requests'[p].item] \in {"ARCHIVED", "DISCARDED"}
    BY DEF RemoveInv
  <2>1. CASE p = q
    BY <1>2, <1>4, <1>7, <2>1 DEF Removes, Done
  <2>2. CASE p # q
    <3>1. Removes(p) /\ requests'[p] = requests[p] /\ requests[p].item \in Items
      BY <1>4, <2>2, IdleRow DEF Removes, Done, IInv, TypeInv, Request
    <3>2. Effective[requests[p].item] \in {"ARCHIVED", "DISCARDED"}
      BY <3>1 DEF IInv, RemoveInv
    <3> QED BY <1>2, <1>7, <3>1, <3>2
  <2> QED BY <2>1, <2>2
<1>11. CardInv'
  <2> SUFFICES ASSUME ~misled, faults = 0, NEW i \in Items
               PROVE  /\ listed[i] # "hidden" =>
                           \/ Effective'[i] \in PendingStatus
                           \/ listed[i] = "ENRICHING"
                           \/ \E p \in Requests : Removes(p)' /\ requests'[p].item = i
                      /\ listed[i] = "hidden" /\ Effective'[i] \in PendingStatus =>
                           \E p \in Requests : Done(p)' /\ requests'[p].kind = "create" /\ requests'[p].item = i
    BY <1>1 DEF IInv, TypeInv, CardInv
  <2>1. /\ listed[i] # "hidden" =>
             \/ Effective[i] \in PendingStatus
             \/ listed[i] = "ENRICHING"
             \/ \E p \in Requests : Removes(p) /\ requests[p].item = i
        /\ listed[i] = "hidden" /\ Effective[i] \in PendingStatus =>
             \E p \in Requests : Done(p) /\ requests[p].kind = "create" /\ requests[p].item = i
    BY DEF IInv, CardInv
  <2>2. \A p \in Requests : /\ Removes(p) => p # q /\ Removes(p)' /\ requests'[p].item = requests[p].item
                            /\ Done(p) => p # q /\ Done(p)' /\ requests'[p] = requests[p]
    BY <1>1, <1>4 DEF Removes, Done
  <2>3. CASE i # j \/ ~ok
    <3>1. Effective'[i] = Effective[i]
      BY <1>7, <2>3
    <3> QED BY <2>1, <2>2, <3>1
  <2>4. CASE i = j /\ ok
    <3>1. Effective'[i] = status /\ Effective[i] = stored[j]
      BY <1>7, <2>4
    <3>2. CASE r.kind = "create"
      <4>1. status \in PendingStatus /\ Done(q)' /\ requests'[q].kind = "create" /\ requests'[q].item = i
        BY <1>2, <1>4, <2>4, <3>2 DEF PendingStatus, Done
      <4> QED BY <3>1, <4>1
    <3>3. CASE r.kind = "save"
      <4>1. status \notin PendingStatus /\ Effective[i] \notin PendingStatus
        BY <1>2, <2>4, <3>1, <3>3 DEF PendingStatus
      <4> QED BY <2>1, <2>2, <3>1, <4>1
    <3>4. CASE r.kind = "retry"
      <4>1. status \in PendingStatus /\ Effective[i] \in PendingStatus
        BY <1>2, <2>4, <3>1, <3>4 DEF PendingStatus
      <4> QED BY <2>1, <2>2, <3>1, <4>1
    <3>5. CASE r.kind \in {"confirm", "discard"}
      <4>1. status \notin PendingStatus /\ Removes(q)' /\ requests'[q].item = i
        BY <1>2, <1>4, <2>4, <3>5 DEF PendingStatus, Removes, Done
      <4> QED BY <3>1, <4>1
    <3> QED BY <1>3, <3>2, <3>3, <3>4, <3>5 DEF Kinds
  <2> QED BY <2>3, <2>4
<1> QED BY <1>8, <1>9, <1>10, <1>11 DEF IInv

\* A commit makes effective what is so already, and the worker keeps a pending
\* item pending.
LEMMA CommitStep ==
  ASSUME IInv, NEW i \in Items, Commit(i) \/ Enrich(i, "READY_TO_CONFIRM") \/ Enrich(i, "FAILED")
  PROVE  IInv'
<1>1. /\ UNCHANGED <<listed, requests, polls, misled, faults>>
      /\ stored[i] # "ABSENT" \/ uncommitted[i] # "none"
      /\ \A j \in Items \ {i} : stored'[j] = stored[j] /\ uncommitted'[j] = uncommitted[j]
  BY DEF Commit, Enrich, IInv, TypeInv
<1>2. /\ stored' \in [Items -> ItemStatus \cup {"ABSENT"}] /\ uncommitted' \in [Items -> ItemStatus \cup {"none"}]
      /\ \A j \in Items : \/ Effective'[j] = Effective[j]
                          \/ Effective[j] = "ENRICHING" /\ Effective'[j] \in PendingStatus
  BY DEF Commit, Enrich, IInv, TypeInv, Effective, ItemStatus, PendingStatus
<1>3. TypeInv'
  BY <1>1, <1>2 DEF IInv, TypeInv
<1>4. CreateInv'
  BY <1>1, IdleRow DEF IInv, TypeInv, CreateInv, Creating, Request
<1>5. \A q \in Requests : Removes(q)' = Removes(q) /\ Done(q)' = Done(q)
  BY <1>1 DEF Removes, Done
<1>6. RemoveInv'
  <2> SUFFICES ASSUME NEW q \in Requests, Removes(q)
               PROVE  Effective'[requests[q].item] \in {"ARCHIVED", "DISCARDED"}
    BY <1>1, <1>5 DEF RemoveInv
  <2>1. requests[q].item \in Items /\ Effective[requests[q].item] \in {"ARCHIVED", "DISCARDED"}
    BY IdleRow DEF IInv, TypeInv, RemoveInv, Removes, Done, Request
  <2> QED BY <1>2, <2>1
<1>7. CardInv'
  <2>1. \A j \in Items : Effective'[j] \in PendingStatus <=> Effective[j] \in PendingStatus
    BY <1>2 DEF PendingStatus
  <2> QED BY <1>1, <1>5, <2>1 DEF IInv, CardInv
<1> QED BY <1>3, <1>4, <1>6, <1>7 DEF IInv

\* A poll on its way, the rows it reads, and its loss.
LEMMA PollUnderWay ==
  ASSUME IInv, NEW p \in Polls, ReadPending(p) \/ Poll(p)
  PROVE  IInv'
<1>1. UNCHANGED <<serverVars, listed, requests, misled, faults>>
  BY DEF ReadPending, Poll
<1>2. polls' \in [Polls -> PollRow]
  <2>1. PendingRows \in [Items -> Shown] /\ polls \in [Polls -> PollRow]
    BY RowsListed DEF IInv, TypeInv
  <2>2. CASE ReadPending(p)
    BY <2>1, <2>2 DEF PollRow, ReadPending
  <2>3. CASE Poll(p)
    BY <2>1, <2>3 DEF PollRow, Poll
  <2> QED BY <2>2, <2>3
<1> QED BY <1>1, <1>2, UnseenStep

\* With a fault nothing is said of the cards.
LEMMA LostStep ==
  ASSUME IInv, (\E q \in Requests : LoseRequest(q)) \/ \E p \in Polls : LosePoll(p)
  PROVE  IInv'
<1>1. UNCHANGED <<serverVars, listed, misled>> /\ faults' = faults + 1
  BY DEF LoseRequest, LosePoll
<1>2. CardInv'
  BY <1>1 DEF IInv, TypeInv, CardInv
<1>3. CASE \E p \in Polls : LosePoll(p)
  <2>1. UNCHANGED requests
    BY <1>3 DEF LosePoll
  <2>2. TypeInv'
    BY <1>1, <1>3 DEF IInv, TypeInv, PollRow, LosePoll, serverVars
  <2>3. CreateInv' /\ RemoveInv'
    BY <1>1, <2>1 DEF IInv, CreateInv, RemoveInv, Creating, Removes, Done, Effective, serverVars
  <2> QED BY <1>2, <2>2, <2>3 DEF IInv
<1>4. ASSUME NEW q \in Requests, LoseRequest(q) PROVE IInv'
  <2>1. PICK row : row = [requests[q] EXCEPT !.phase = "answered", !.ok = FALSE]
    OBVIOUS
  <2>2. requests[q] \in Request /\ UNCHANGED polls
    BY <1>4, IdleRow DEF IInv, TypeInv, LoseRequest
  <2>3. row \in Request /\ row.kind = requests[q].kind /\ row.phase = "answered" /\ ~row.ok
    BY <2>1, <2>2 DEF Request
  <2>4. requests' = [requests EXCEPT ![q] = row]
    BY <1>4, <2>1, <2>2 DEF IInv, TypeInv, LoseRequest, Answered
  <2>5. requests'[q] = row /\ \A r \in Requests \ {q} : requests'[r] = requests[r]
    BY <2>4 DEF IInv, TypeInv
  <2>6. TypeInv'
    BY <1>1, <2>2, <2>3, <2>4 DEF IInv, TypeInv, serverVars
  <2>7. CreateInv'
    BY <1>1, <2>3, <2>5 DEF IInv, CreateInv, Creating, serverVars
  <2>8. RemoveInv'
    BY <1>1, <2>3, <2>5 DEF IInv, RemoveInv, Removes, Done, Effective, serverVars
  <2> QED BY <1>2, <2>6, <2>7, <2>8 DEF IInv
<1> QED BY <1>3, <1>4

-----------------------------------------------------------------------------
(* The answers in the browser                                              *)

\* What an answer makes of the list: one card changes.
LEMMA ListChanges ==
  ASSUME IInv, NEW q \in Requests, HandleAnswer(q), NEW r, r = requests[q]
  PROVE  /\ r \in Request /\ r.phase = "answered"
         /\ listed' \in [Items -> Shown]
         /\ \A i \in Items : i # r.item \/ ~r.ok => listed'[i] = listed[i]
         /\ r.ok /\ r.kind = "create" => listed'[r.item] = "ENRICHING"
         /\ r.ok /\ r.kind = "retry" => listed'[r.item] \in {"ENRICHING", listed[r.item]}
                                        /\ (listed'[r.item] = "hidden" <=> listed[r.item] = "hidden")
                                        /\ (listed'[r.item] # "ENRICHING" => listed[r.item] = "hidden")
         /\ r.ok /\ r.kind = "save" => listed'[r.item] = listed[r.item]
         /\ r.ok /\ r.kind \in {"confirm", "discard"} => listed'[r.item] = "hidden"
<1>1. r \in Request /\ r.phase = "answered" /\ r.item \in Items /\ r.kind \in Kinds
  BY IdleRow DEF IInv, TypeInv, HandleAnswer, Request
<1>2. listed' = IF r.ok THEN ListAfter(r) ELSE listed
  BY DEF HandleAnswer
<1>3. listed \in [Items -> Shown]
  BY DEF IInv, TypeInv
<1> QED BY <1>1, <1>2, <1>3 DEF ListAfter, Kinds, Shown, PendingStatus

LEMMA HandleAnswerStep ==
  ASSUME IInv, NEW q \in Requests, HandleAnswer(q)
  PROVE  IInv'
<1>1. PICK r : r = requests[q]
  OBVIOUS
<1>2. /\ UNCHANGED <<serverVars, polls, misled, faults>> /\ requests' = [requests EXCEPT ![q] = Idle]
      /\ UNCHANGED Effective
  BY DEF HandleAnswer, Effective, serverVars
<1>3. /\ requests'[q] = Idle /\ \A p \in Requests \ {q} : requests'[p] = requests[p]
      /\ requests' \in [Requests -> Request \cup {Idle}]
  BY <1>2 DEF IInv, TypeInv
<1>4. TypeInv'
  BY <1>1, <1>2, <1>3, ListChanges DEF IInv, TypeInv, serverVars
<1>5. CreateInv' /\ RemoveInv'
  BY <1>2, <1>3, IdleRow DEF IInv, CreateInv, RemoveInv, Creating, Removes, Done, serverVars
<1>6. CardInv'
  <2> SUFFICES ASSUME ~misled, faults = 0, NEW i \in Items
               PROVE  /\ listed'[i] # "hidden" =>
                           \/ Effective[i] \in PendingStatus
                           \/ listed'[i] = "ENRICHING"
                           \/ \E p \in Requests : Removes(p)' /\ requests'[p].item = i
                      /\ listed'[i] = "hidden" /\ Effective[i] \in PendingStatus =>
                           \E p \in Requests : Done(p)' /\ requests'[p].kind = "create" /\ requests'[p].item = i
    BY <1>2 DEF IInv, TypeInv, CardInv
  <2>1. /\ listed[i] # "hidden" =>
             \/ Effective[i] \in PendingStatus
             \/ listed[i] = "ENRICHING"
             \/ \E p \in Requests : Removes(p) /\ requests[p].item = i
        /\ listed[i] = "hidden" /\ Effective[i] \in PendingStatus =>
             \E p \in Requests : Done(p) /\ requests[p].kind = "create" /\ requests[p].item = i
    BY DEF IInv, CardInv
  <2>2. \A p \in Requests \ {q} : Removes(p)' = Removes(p) /\ Done(p)' = Done(p)
    BY <1>3 DEF Removes, Done
  <2>3. Done(q) <=> r.ok
    BY <1>1, ListChanges DEF Done
  <2>4. CASE r.item # i \/ ~r.ok
    <3>1. listed'[i] = listed[i]
      BY <1>1, <2>4, ListChanges
    <3>2. \A p \in Requests : Done(p) /\ requests[p].item = i => p # q
      BY <1>1, <2>3, <2>4
    <3> QED BY <1>3, <2>1, <2>2, <3>1, <3>2 DEF Removes
  <2>5. CASE r.item = i /\ r.ok
    <3>1. CASE r.kind = "create"
      BY <1>1, <2>5, <3>1, ListChanges
    <3>2. CASE r.kind = "save"
      <4>1. listed'[i] = listed[i] /\ ~Removes(q) /\ requests[q].kind # "create"
        BY <1>1, <2>5, <3>2, ListChanges DEF Removes
      <4> QED BY <1>3, <2>1, <2>2, <4>1
    <3>3. CASE r.kind = "retry"
      <4>1. /\ listed'[i] = "hidden" <=> listed[i] = "hidden"
            /\ listed'[i] # "hidden" => listed'[i] = "ENRICHING"
            /\ requests[q].kind # "create"
        BY <1>1, <2>5, <3>3, ListChanges
      <4> QED BY <1>3, <2>1, <2>2, <4>1
    <3>4. CASE r.kind \in {"confirm", "discard"}
      <4>1. listed'[i] = "hidden" /\ Removes(q)
        BY <1>1, <2>3, <2>5, <3>4, ListChanges DEF Removes
      <4>2. Effective[i] \in {"ARCHIVED", "DISCARDED"}
        BY <1>1, <2>5, <4>1 DEF IInv, RemoveInv
      <4> QED BY <4>1, <4>2 DEF PendingStatus
    <3>5. r.kind \in Kinds
      BY <1>1, ListChanges DEF Request
    <3> QED BY <3>1, <3>2, <3>3, <3>4, <3>5 DEF Kinds
  <2> QED BY <2>4, <2>5
<1> QED BY <1>4, <1>5, <1>6 DEF IInv

\* A list that is not out of date makes every card match.
LEMMA HandlePollStep ==
  ASSUME IInv, NEW p \in Polls, HandlePoll(p)
  PROVE  IInv'
<1>1. polls[p] \in PollRow /\ NoPoll \in PollRow
  BY DEF IInv, TypeInv, PollRow, NoPoll, Shown
<1>2. /\ UNCHANGED <<serverVars, requests, faults>> /\ polls' \in [Polls -> PollRow]
      /\ UNCHANGED Effective
  BY <1>1 DEF HandlePoll, IInv, TypeInv, Effective, serverVars
<1>3. CASE ~polls[p].ok
  BY <1>2, <1>3, UnseenStep DEF HandlePoll
<1>4. CASE polls[p].ok
  <2>1. listed' = polls[p].list /\ misled' = ~UpToDate(polls[p].list)
    BY <1>4 DEF HandlePoll
  <2>2. TypeInv'
    BY <1>1, <1>2, <2>1 DEF IInv, TypeInv, PollRow, serverVars
  <2>3. CreateInv' /\ RemoveInv'
    BY <1>2 DEF IInv, CreateInv, RemoveInv, Creating, Removes, Done, serverVars
  <2>4. CardInv'
    <3>1. ~misled' => \A i \in Items : listed'[i] # "hidden" <=> Effective[i] \in PendingStatus
      BY <2>1 DEF UpToDate, Effective
    <3> QED BY <1>2, <3>1 DEF CardInv
  <2> QED BY <2>2, <2>3, <2>4 DEF IInv
<1> QED BY <1>3, <1>4

-----------------------------------------------------------------------------
LEMMA Inductive == IInv /\ [Next]_vars => IInv'
<1> SUFFICES ASSUME IInv, [Next]_vars PROVE IInv'
  OBVIOUS
<1>1. CASE UserStep
  <2>1. CASE \E i \in Items : OpenModal(i) \/ CloseModal(i) \/ ToggleSuggestion(i)
    <3>1. UNCHANGED <<serverVars, listed, requests, polls, misled, faults>>
      BY <2>1 DEF OpenModal, CloseModal, ToggleSuggestion
    <3>2. polls' \in [Polls -> PollRow]
      BY <3>1 DEF IInv, TypeInv
    <3> QED BY <3>1, <3>2, UnseenStep
  <2> QED BY <1>1, <2>1, UserRequest DEF UserStep
<1>2. CASE BackendStep
  BY <1>2, ExecuteStep, LostStep, CommitStep, PollUnderWay DEF BackendStep
<1>3. CASE BrowserStep
  BY <1>3, SendConfirmStep, HandleAnswerStep, PollUnderWay, HandlePollStep DEF BrowserStep
<1>4. CASE UNCHANGED vars
  <2>1. UNCHANGED <<serverVars, listed, requests, polls, misled, faults>>
    BY <1>4 DEF vars, serverVars
  <2>2. polls' \in [Polls -> PollRow]
    BY <2>1 DEF IInv, TypeInv
  <2> QED BY <2>1, <2>2, UnseenStep
<1> QED BY <1>1, <1>2, <1>3, <1>4 DEF Next

\* Once all is quiet the cards are the notes pending at the server, for any
\* number of notes, requests and polls that overlap, unless an answer was lost
\* or the list was last read too early (AppContext, EntryCard).
THEOREM QuietListMatches == Spec => []OnlyLatePollsMislead
<1>1. IInv => OnlyLatePollsMislead
  <2> SUFFICES ASSUME IInv, Quiet, ~misled, faults = 0, NEW i \in Items
               PROVE  listed[i] # "hidden" <=> stored[i] \in PendingStatus
    BY DEF OnlyLatePollsMislead, ListMatches
  <2>1. \A q \in Requests : ~Done(q) /\ ~Removes(q)
    BY IdleRow DEF Quiet, Free, Done, Removes
  <2>2. Effective[i] = stored[i] /\ listed[i] # "ENRICHING"
    BY DEF Quiet, Effective, HasEnrichingItems
  <2> QED BY <2>1, <2>2 DEF IInv, CardInv
<1> QED BY <1>1, InitInv, Inductive, PTL DEF Spec
=============================================================================

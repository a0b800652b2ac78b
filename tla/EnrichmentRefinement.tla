------------------------ MODULE EnrichmentRefinement ------------------------
(***************************************************************************)
(* EnrichmentPipeline implements the safety part of ItemLifecycle: seen    *)
(* through the committed rows, an item moves only as its life cycle says,  *)
(* whatever the workers, requests and faults do in between.  The live      *)
(* job's attempt counter plays the part of the abstract failure counter.   *)
(***************************************************************************)
EXTENDS EnrichmentPipelineProofs

Failures == [i \in Items |-> AttemptsOf(i)]

-----------------------------------------------------------------------------
(* The abstract counter.                                                   *)

\* CHOOSE finds the one live job.
LEMMA LiveAttempts ==
  ASSUME OneLiveJob, NEW i \in Items, NEW j \in JobIds, Live(j, i)
  PROVE  AttemptsOf(i) = jobs[j].attempts
<1>1. status[i] = "ENRICHING"
  BY DEF OneLiveJob
<1>2. (CHOOSE k \in JobIds : Live(k, i)) = j
  BY DEF OneLiveJob
<1>. QED
  BY <1>1, <1>2 DEF AttemptsOf

\* ... after a step as before it.
LEMMA LiveAttemptsNext ==
  ASSUME OneLiveJob', NEW i \in Items, NEW j \in JobIds, Live(j, i)'
  PROVE  AttemptsOf(i)' = jobs'[j].attempts
<1>1. status'[i] = "ENRICHING"
  BY DEF OneLiveJob
<1>2. (CHOOSE k \in JobIds : Live(k, i)') = j
  BY DEF OneLiveJob
<1>. QED
  BY <1>1, <1>2 DEF AttemptsOf

\* A step that leaves an item's status and its live job's counter alone leaves
\* its abstract counter alone.
LEMMA SameAttempts ==
  ASSUME OneLiveJob, OneLiveJob', NEW i \in Items,
         status'[i] = status[i],
         status[i] = "ENRICHING" =>
           \E j \in JobIds : /\ Live(j, i) /\ Live(j, i)'
                             /\ jobs'[j].attempts = jobs[j].attempts
  PROVE  AttemptsOf(i)' = AttemptsOf(i)
<1>1. CASE status[i] # "ENRICHING"
  BY <1>1 DEF AttemptsOf
<1>2. CASE status[i] = "ENRICHING"
  <2>1. PICK j \in JobIds : /\ Live(j, i) /\ Live(j, i)'
                            /\ jobs'[j].attempts = jobs[j].attempts
    BY <1>2
  <2>2. (CHOOSE k \in JobIds : Live(k, i)) = j
    BY <2>1 DEF OneLiveJob
  <2>3. (CHOOSE k \in JobIds : Live(k, i)') = j
    BY <2>1 DEF OneLiveJob
  <2>. QED
    BY <1>2, <2>1, <2>2, <2>3 DEF AttemptsOf
<1>. QED
  BY <1>1, <1>2

\* A step that touches the rows of one item alone moves its counter alone.
LEMMA OthersKeepTheirs ==
  ASSUME IInv, IInv', NEW i \in Items,
         \A k \in Items : k # i => status'[k] = status[k],
         \A j \in JobIds : jobs[j].item \notin {i, NoItem} => jobs'[j] = jobs[j]
  PROVE  Failures' = [Failures EXCEPT ![i] = AttemptsOf(i)']
<1>1. ASSUME NEW k \in Items, k # i PROVE AttemptsOf(k)' = AttemptsOf(k)
  <2>1. status[k] = "ENRICHING" =>
          \E j \in JobIds : /\ Live(j, k) /\ Live(j, k)'
                            /\ jobs'[j].attempts = jobs[j].attempts
    BY <1>1, PipelineAssumption DEF IInv, OneLiveJob, Live
  <2>. QED
    BY <1>1, <2>1, SameAttempts DEF IInv
<1>. QED
  BY <1>1 DEF Failures

\* A step that changes no committed row is a stutter.
LEMMA RowsKept ==
  ASSUME UNCHANGED <<status, jobs>>
  PROVE  UNCHANGED Lifecycle!vars
<1>1. Failures' = Failures
  BY DEF Failures, AttemptsOf, Live
<1>. QED
  BY <1>1 DEF Failures, Lifecycle!vars

-----------------------------------------------------------------------------
(* Steps.                                                                  *)

\* Confirm, edit and discard are user actions on the item's row.
LEMMA ActStep ==
  ASSUME IInv, IInv', NEW r \in Requests, ConfirmOrEdit(r) \/ Discard(r)
  PROVE  \E i \in Items, a \in UserActions : Lifecycle!Act(i, a)
<1>1. PICK i \in Items, a \in UserActions :
        /\ i = req[r].item /\ a = req[r].op
        /\ status[i] \in ItemStatus
        /\ CanTransition(status[i], a)
        /\ a # "retry"
  <2>1. CASE ConfirmOrEdit(r)
    <3>1. /\ req[r].pc = "locked"
          /\ req[r].op \in {"confirm", "edit"}
          /\ CanTransition(status[req[r].item], req[r].op)
      BY <2>1 DEF ConfirmOrEdit, Holds, Permitted
    <3>. QED
      BY <3>1 DEF IInv, TypeOK, ReqInv, UserActions
  <2>2. CASE Discard(r)
    <3>1. req[r].pc = "deleting"
      BY <2>2 DEF Discard
    <3>. QED
      BY <3>1 DEF IInv, TypeOK, ReqInv, UserActions
  <2>. QED
    BY <2>1, <2>2
<1>2. status' = [status EXCEPT ![i] = AllowedTransitions[@][a]]
  BY <1>1 DEF ConfirmOrEdit, Discard, Commit
<1>3. \A j \in JobIds : jobs[j].item \notin {i, NoItem} => jobs'[j] = jobs[j]
  BY <1>1 DEF ConfirmOrEdit, Discard
<1>4. status[i] # "ENRICHING" /\ AllowedTransitions[status[i]][a] # "ENRICHING"
  BY <1>1, TransitionTable DEF UserActions
<1>5. status[i] # "ENRICHING" /\ status'[i] # "ENRICHING"
  BY <1>1, <1>2, <1>4 DEF IInv, TypeOK
<1>6. Failures' = Failures
  <2>1. \A k \in Items : k # i => status'[k] = status[k]
    BY <1>1, <1>2 DEF IInv, TypeOK
  <2>2. Failures' = [Failures EXCEPT ![i] = AttemptsOf(i)']
    BY <1>1, <1>3, <2>1, OthersKeepTheirs
  <2>3. AttemptsOf(i) = 0
    BY <1>5 DEF AttemptsOf
  <2>4. AttemptsOf(i)' = 0
    BY <1>5 DEF AttemptsOf
  <2>. QED
    BY <1>1, <2>2, <2>3, <2>4 DEF Failures
<1>. QED
  BY <1>1, <1>2, <1>6
  DEF ItemStatus, Failures, Lifecycle!Act, Lifecycle!Become, Lifecycle!CanTransition,
      Lifecycle!AllowedTransitions, Lifecycle!NoActions, CanTransition, AllowedTransitions,
      NoActions

LEMMA SaveStep ==
  ASSUME IInv, IInv', NEW r \in Requests, NEW p \in Procs, NEW i \in Items,
         SaveDirectly(r, p, i)
  PROVE  Lifecycle!Save(i)
<1>1. /\ status[i] = "ABSENT"
      /\ status' = [status EXCEPT ![i] = "ARCHIVED"]
      /\ jobs' = jobs
  BY DEF SaveDirectly
<1>2. Failures' = [Failures EXCEPT ![i] = AttemptsOf(i)']
  <2>1. \A k \in Items : k # i => status'[k] = status[k]
    BY <1>1 DEF IInv, TypeOK
  <2>. QED
    BY <1>1, <2>1, OthersKeepTheirs
<1>3. AttemptsOf(i) = 0 /\ AttemptsOf(i)' = 0
  <2>1. status[i] # "ENRICHING" /\ status'[i] # "ENRICHING"
    BY <1>1 DEF IInv, TypeOK
  <2>2. AttemptsOf(i) = 0
    BY <2>1 DEF AttemptsOf
  <2>3. AttemptsOf(i)' = 0
    BY <2>1 DEF AttemptsOf
  <2>. QED
    BY <2>2, <2>3
<1>4. Failures' = Failures
  BY <1>2, <1>3 DEF Failures
<1>. QED
  BY <1>1, <1>4 DEF Failures, Lifecycle!Save, Lifecycle!Become

\* The commit of a creation submits the item, that of a retry is the action.
LEMMA SubmitOrRetryStep ==
  ASSUME IInv, IInv', NEW r \in Requests, CommitJob(r)
  PROVE  \E i \in Items : Lifecycle!Submit(i) \/ Lifecycle!Act(i, "retry")
<1>1. PICK i \in Items, j \in JobIds :
        /\ i = req[r].item /\ j = req[r].job
        /\ jobs[j].status = "NONE"
        /\ status[i] \in {"ABSENT", "FAILED"}
  BY DEF CommitJob, IInv, ReqInv
<1>2. /\ status' = [status EXCEPT ![i] = "ENRICHING"]
      /\ jobs' = [jobs EXCEPT ![j] = NewRow(i)]
  BY <1>1 DEF CommitJob
<1>3. Failures' = [Failures EXCEPT ![i] = AttemptsOf(i)']
  <2>1. \A k \in Items : k # i => status'[k] = status[k]
    BY <1>1, <1>2 DEF IInv, TypeOK
  <2>2. \A k \in JobIds : jobs[k].item \notin {i, NoItem} => jobs'[k] = jobs[k]
    BY <1>1, <1>2 DEF IInv, TypeOK, RowInv, NoRow
  <2>. QED
    BY <1>1, <2>1, <2>2, OthersKeepTheirs
<1>4. AttemptsOf(i) = 0
  BY <1>1 DEF AttemptsOf
<1>5. AttemptsOf(i)' = 0
  <2>1. Live(j, i)' /\ jobs'[j].attempts = 0
    BY <1>1, <1>2 DEF IInv, TypeOK, Live, NewRow
  <2>2. OneLiveJob'
    BY DEF IInv
  <2>. QED
    BY <1>1, <2>1, <2>2, LiveAttemptsNext
<1>6. Failures' = Failures
  BY <1>3, <1>4, <1>5 DEF Failures
<1>7. CASE status[i] = "ABSENT"
  BY <1>2, <1>6, <1>7 DEF Failures, Lifecycle!Submit, Lifecycle!Become
<1>8. CASE status[i] = "FAILED"
  <2>1. /\ Lifecycle!CanTransition("FAILED", "retry")
        /\ Lifecycle!AllowedTransitions["FAILED"]["retry"] = "ENRICHING"
    BY DEF Lifecycle!CanTransition, Lifecycle!AllowedTransitions
  <2>. QED
    BY <1>2, <1>6, <1>8, <2>1 DEF Failures, Lifecycle!Act, Lifecycle!Become
<1>. QED
  BY <1>1, <1>7, <1>8

\* The three ends of a worker's transaction are the three ends of an attempt.
LEMMA AttemptStep ==
  ASSUME IInv, IInv', NEW p \in Procs, Outcome(p)
  PROVE  \E i \in Items : Lifecycle!Attempt(i)
<1>1. PICK i \in Items, j \in JobIds, n \in Nat :
        /\ i = tx[p].row.item /\ j = tx[p].job /\ n = jobs[j].attempts
        /\ Live(j, i)
        /\ status[i] = "ENRICHING"
        /\ tx[p].row.attempts = n + 1 /\ tx[p].row \in JobRow
        /\ n < MaxRetries
  <2>1. tx[p].pc # "none"
    BY DEF Outcome, Enriched, RetryLater, GiveUp
  <2>2. jobs[tx[p].job].attempts \in Nat /\ jobs[tx[p].job].attempts < MaxRetries
    BY <2>1, HeldJob DEF IInv, TypeOK, RowInv, JobRow
  <2>. QED
    BY <2>1, <2>2, HeldJob DEF Live
<1>2. AttemptsOf(i) = n /\ Failures[i] = n
  BY <1>1, LiveAttempts DEF IInv, Failures
<1>3. ASSUME NEW row, CommitTx(p, row),
             \A k \in Items : k # i => status'[k] = status[k]
      PROVE  /\ jobs' = [jobs EXCEPT ![j] = row]
             /\ Failures' = [Failures EXCEPT ![i] = AttemptsOf(i)']
  <2>1. jobs' = [jobs EXCEPT ![j] = row]
    BY <1>1, <1>3 DEF CommitTx
  <2>2. \A k \in JobIds : jobs[k].item \notin {i, NoItem} => jobs'[k] = jobs[k]
    BY <1>1, <2>1 DEF IInv, TypeOK, Live
  <2>. QED
    BY <1>3, <2>1, <2>2, OthersKeepTheirs
<1>4. ASSUME NEW s \in {"READY_TO_CONFIRM", "FAILED"},
             status' = [status EXCEPT ![i] = s]
      PROVE  /\ \A k \in Items : k # i => status'[k] = status[k]
             /\ AttemptsOf(i)' = 0
  <2>1. status'[i] # "ENRICHING"
    BY <1>4 DEF IInv, TypeOK
  <2>2. AttemptsOf(i)' = 0
    BY <2>1 DEF AttemptsOf
  <2>. QED
    BY <1>4, <2>2 DEF IInv, TypeOK
<1>5. CASE Enriched(p)
  <2>1. CommitTx(p, NoRow) /\ status' = [status EXCEPT ![i] = "READY_TO_CONFIRM"]
    BY <1>1, <1>5 DEF Enriched, CompleteJob
  <2>2. Failures' = [Failures EXCEPT ![i] = 0]
    BY <1>3, <1>4, <2>1
  <2>3. Lifecycle!MarkEnriched(i)
    BY <1>1, <2>1, <2>2
    DEF Failures, Lifecycle!MarkEnriched, Lifecycle!Become, Lifecycle!Reset
  <2>. QED
    BY <2>3 DEF Lifecycle!Attempt
<1>6. CASE GiveUp(p)
  <2>1. /\ CommitTx(p, [tx[p].row EXCEPT !.status = "DEAD"])
        /\ status' = [status EXCEPT ![i] = "FAILED"]
        /\ n + 1 >= MaxRetries
    BY <1>1, <1>6 DEF GiveUp, LastAttempt
  <2>2. Failures' = [Failures EXCEPT ![i] = 0]
    BY <1>3, <1>4, <2>1
  <2>3. Failures[i] + 1 = MaxRetries
    <3>1. MaxRetries \in Int /\ n < MaxRetries /\ n + 1 >= MaxRetries
      BY <1>1, <2>1, PipelineAssumption
    <3>2. n + 1 = MaxRetries
      BY <3>1
    <3>. QED
      BY <1>2, <3>2
  <2>4. Lifecycle!MarkFailed(i)
    BY <1>1, <2>1, <2>2, <2>3
    DEF Failures, Lifecycle!MarkFailed, Lifecycle!Become, Lifecycle!Reset
  <2>. QED
    BY <2>4 DEF Lifecycle!Attempt
<1>7. CASE RetryLater(p)
  <2>1. PICK row : /\ CommitTx(p, row)
                   /\ row.status = "PENDING" /\ row.item = i /\ row.attempts = n + 1
                   /\ status' = status
                   /\ ~(n + 1 >= MaxRetries)
    BY <1>1, <1>7 DEF RetryLater, LastAttempt, JobRow
  <2>2. /\ jobs' = [jobs EXCEPT ![j] = row]
        /\ Failures' = [Failures EXCEPT ![i] = AttemptsOf(i)']
    BY <1>3, <2>1
  <2>3. Live(j, i)' /\ jobs'[j].attempts = n + 1
    BY <1>1, <2>1, <2>2 DEF IInv, TypeOK, Live
  <2>4. AttemptsOf(i)' = n + 1
    <3>1. OneLiveJob'
      BY DEF IInv
    <3>. QED
      BY <1>1, <2>3, <3>1, LiveAttemptsNext
  <2>5. Failures' = [Failures EXCEPT ![i] = Failures[i] + 1]
    BY <1>2, <2>2, <2>4
  <2>6. Failures[i] + 1 < MaxRetries
    BY <1>1, <1>2, <2>1, PipelineAssumption
  <2>7. Lifecycle!AttemptFails(i)
    BY <1>1, <2>1, <2>5, <2>6 DEF Failures, Lifecycle!AttemptFails
  <2>. QED
    BY <2>7 DEF Lifecycle!Attempt
<1>. QED
  BY <1>5, <1>6, <1>7 DEF Outcome

\* Waiting for run_at changes nothing that the abstraction sees.
LEMMA BackoffStutters ==
  ASSUME IInv, IInv', NEW j \in JobIds, BackoffElapses(j)
  PROVE  UNCHANGED Lifecycle!vars
<1>1. /\ status' = status
      /\ \A k \in JobIds : /\ jobs'[k].status = jobs[k].status
                           /\ jobs'[k].item = jobs[k].item
                           /\ jobs'[k].attempts = jobs[k].attempts
  BY DEF BackoffElapses, IInv, TypeOK, JobRow
<1>2. OneLiveJob /\ OneLiveJob'
  BY DEF IInv
<1>3. ASSUME NEW i \in Items PROVE AttemptsOf(i)' = AttemptsOf(i)
  <2>1. status[i] = "ENRICHING" =>
          \E k \in JobIds : /\ Live(k, i) /\ Live(k, i)'
                            /\ jobs'[k].attempts = jobs[k].attempts
    BY <1>1, <1>2 DEF OneLiveJob, Live
  <2>. QED
    BY <1>1, <1>2, <2>1, SameAttempts
<1>4. Failures' = Failures
  BY <1>3 DEF Failures
<1>. QED
  BY <1>1, <1>4 DEF Failures, Lifecycle!vars

LEMMA RequestRefines ==
  ASSUME IInv, IInv', NEW r \in Requests, NewRequest(r) \/ RequestStep(r) \/ Rollback(r)
  PROVE  [Lifecycle!Next]_(Lifecycle!vars)
<1>1. CASE ConfirmOrEdit(r) \/ Discard(r)
  BY <1>1, ActStep DEF Lifecycle!Next, Lifecycle!UserActions, UserActions
<1>2. CASE CommitJob(r)
  BY <1>2, SubmitOrRetryStep DEF Lifecycle!Next, Lifecycle!UserActions
<1>3. ASSUME NEW p \in Procs, NEW i \in Items, SaveDirectly(r, p, i)
      PROVE  Lifecycle!Next
  BY <1>3, SaveStep DEF Lifecycle!Next
<1>4. CASE \/ BeginDiscard(r) \/ RequeueJob(r) \/ Reject(r) \/ Rollback(r)
           \/ \E p \in Procs, i \in Items :
                CreateItem(r, p, i) \/ \E op \in UserActions : LockItem(r, p, i, op)
  <2>1. UNCHANGED <<status, jobs>>
    BY <1>4 DEF BeginDiscard, RequeueJob, Reject, Rollback, CreateItem, LockItem
  <2>. QED
    BY <2>1, RowsKept
<1>. QED
  BY <1>1, <1>2, <1>3, <1>4 DEF NewRequest, RequestStep

LEMMA ProcessRefines ==
  ASSUME IInv, IInv', NEW p \in Procs, ProcessStep(p)
  PROVE  [Lifecycle!Next]_(Lifecycle!vars)
<1>1. CASE Outcome(p)
  BY <1>1, AttemptStep DEF Lifecycle!Next
<1>2. CASE LockJobItem(p)
  <2>1. status[tx[p].row.item] = "ENRICHING"
    BY <1>2, HeldJob DEF LockJobItem
  <2>2. UNCHANGED <<status, jobs>>
    BY <1>2, <2>1 DEF LockJobItem
  <2>. QED
    BY <2>2, RowsKept
<1>3. CASE Reclaim(p)
  <2>1. UNCHANGED <<status, jobs>>
    BY <1>3, ReclaimStep DEF vars
  <2>. QED
    BY <2>1, RowsKept
<1>4. CASE \/ Start(p) \/ PollDrain(p) \/ NotifyDrain(p) \/ Claim(p) \/ EndDrain(p)
           \/ LoseTx(p) \/ Stop(p) \/ Exit(p) \/ Crash(p)
  <2>1. UNCHANGED <<status, jobs>>
    BY <1>4 DEF Start, PollDrain, NotifyDrain, Claim, EndDrain, LoseTx, Stop, Exit,
                Crash, Die
  <2>. QED
    BY <2>1, RowsKept
<1>. QED
  BY <1>1, <1>2, <1>3, <1>4 DEF ProcessStep, WorkerStep

-----------------------------------------------------------------------------
\* Items seen through their committed rows follow the life cycle of
\* ItemLifecycle: every step of requests, workers and faults is a step of one
\* item's life cycle or invisible.
THEOREM Refinement == Spec => StaysInLifecycle
<1>1. Init => Lifecycle!Init
  BY DEF Init, AttemptsOf, Lifecycle!Init
<1>2. IInv /\ IInv' /\ [Next]_vars => [Lifecycle!Next]_(Lifecycle!vars)
  <2> SUFFICES ASSUME IInv, IInv', [Next]_vars PROVE [Lifecycle!Next]_(Lifecycle!vars)
    OBVIOUS
  <2>1. ASSUME NEW j \in JobIds, BackoffElapses(j)
        PROVE  [Lifecycle!Next]_(Lifecycle!vars)
    BY <2>1, BackoffStutters
  <2>2. CASE UNCHANGED vars
    BY <2>2, RowsKept DEF vars
  <2>. QED
    BY <2>1, <2>2, RequestRefines, ProcessRefines DEF Next
<1>. QED
  BY <1>1, <1>2, Invariance, PTL DEF Spec, StaysInLifecycle, Lifecycle!SafetySpec

=============================================================================

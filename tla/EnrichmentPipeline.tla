------------------------- MODULE EnrichmentPipeline -------------------------
(***************************************************************************)
(* The asynchronous enrichment of items: API requests that create, confirm,*)
(* edit, discard and retry items, and the in-process workers that drain    *)
(* the enrichment_outbox table, as database transactions that interleave.  *)
(*                                                                         *)
(* `status' and `jobs' are the COMMITTED rows of items and                 *)
(* enrichment_outbox (PostgreSQL, READ COMMITTED).  A transaction's own    *)
(* writes live in `tx' (workers) or `req' (requests) until its commit      *)
(* step; a row lock is held from the step that takes it to the commit or   *)
(* rollback.  Between its last lock and its commit a transaction writes    *)
(* only rows it has locked or inserted, so these writes and the commit are *)
(* one step, and a failure among them is a rollback.                       *)
(*                                                                         *)
(* Each backend process runs one EnrichmentWorker and serves requests; a   *)
(* crash takes both down and PostgreSQL rolls their transactions back.     *)
(***************************************************************************)
EXTENDS Integers, Sequences, FiniteSets, ItemStates

CONSTANTS
  Items,        \* ids of items users may submit
  Procs,        \* backend processes
  Requests,     \* API requests that can be in progress at a time
  MaxJobs,      \* bound: rows of enrichment_outbox at a time
  MaxRetries,   \* settings.enrichment_max_retries
  Backoff,      \* settings.job_backoff_seconds
  BatchSize,    \* _drain_all's batch_size
  MaxFaults,    \* bound: crashes, restarts and lost transactions
  NoItem, NoProc

ASSUME PipelineAssumption ==
  /\ MaxJobs \in Nat \ {0}
  /\ MaxRetries \in Nat \ {0}
  /\ Backoff \in Seq(Nat) /\ Backoff # <<>>
  /\ BatchSize \in Nat \ {0}
  /\ MaxFaults \in Nat
  /\ NoItem \notin Items
  /\ NoProc \notin Procs

VARIABLES
  status,   \* items.status of each committed item, or "ABSENT"
  jobs,     \* committed rows of enrichment_outbox, by creation order
  mode,     \* life of each process
  wake,     \* a trigger_drain task of the process awaits its drain lock
  drain,    \* holder of each process's _drain_lock and its batch budget
  tx,       \* each worker's transaction
  req,      \* the requests in progress
  faults,   \* faults so far (bounded by MaxFaults)
  calls     \* history: calls made to the AI provider for each job

vars == <<status, jobs, mode, wake, drain, tx, req, faults, calls>>

JobIds == 1 .. MaxJobs

JobRow ==
  [ item     : Items \cup {NoItem},
    status   : {"NONE", "PENDING", "IN_PROGRESS", "DEAD"},
    attempts : 0 .. MaxRetries,
    backoff  : Nat ]      \* seconds until run_at; 0 when the row is due

\* The drain lock's holder and the iterations _drain_all has left.
DrainState ==
  [owner : {"none", "startup", "poll", "notify"}, left : 0 .. BatchSize]

\* A worker's transaction: its job and the row it will commit for it.
TxState ==
  [pc : {"none", "claimed", "calling"}, job : {0} \cup JobIds, row : JobRow]

RequestState ==
  [ pc   : {"idle", "locked", "deleting", "inserted"},
    op   : {"none", "create"} \cup UserActions,
    item : Items \cup {NoItem},
    job  : {0} \cup JobIds,
    proc : Procs \cup {NoProc} ]

NoRow == [item |-> NoItem, status |-> "NONE", attempts |-> 0, backoff |-> 0]

NewRow(i) == [item |-> i, status |-> "PENDING", attempts |-> 0, backoff |-> 0]

NoTx == [pc |-> "none", job |-> 0, row |-> NoRow]

NoDrain == [owner |-> "none", left |-> 0]

NoRequest ==
  [pc |-> "idle", op |-> "none", item |-> NoItem, job |-> 0, proc |-> NoProc]

TypeOK ==
  /\ status \in [Items -> ItemStatus \cup {"ABSENT"}]
  /\ jobs \in [JobIds -> JobRow]
  /\ mode \in [Procs -> {"down", "starting", "running", "stopping"}]
  /\ wake \in [Procs -> BOOLEAN]
  /\ drain \in [Procs -> DrainState]
  /\ tx \in [Procs -> TxState]
  /\ req \in [Requests -> RequestState]
  /\ faults \in 0 .. MaxFaults
  /\ calls \in [JobIds -> Nat]

Init ==
  /\ status = [i \in Items |-> "ABSENT"]
  /\ jobs = [j \in JobIds |-> NoRow]
  /\ mode = [p \in Procs |-> "down"]
  /\ wake = [p \in Procs |-> FALSE]
  /\ drain = [p \in Procs |-> NoDrain]
  /\ tx = [p \in Procs |-> NoTx]
  /\ req = [r \in Requests |-> NoRequest]
  /\ faults = 0
  /\ calls = [j \in JobIds |-> 0]

-----------------------------------------------------------------------------
(* Row locks and insertions of transactions in progress.                   *)

\* The worker took the item's row FOR UPDATE and keeps it while the AI
\* provider runs.
LockedByWorker(i) == \E p \in Procs : tx[p].pc = "calling" /\ tx[p].row.item = i

LockedByRequest(i) ==
  \E r \in Requests : req[r].op \in UserActions /\ req[r].item = i

ItemLocked(i) == LockedByWorker(i) \/ LockedByRequest(i)

JobLocked(j) == \E p \in Procs : tx[p].pc # "none" /\ tx[p].job = j

\* Job ids follow created_at, which is set when the row is inserted: a new
\* row comes after every row that is committed or inserted by a request.
JobUsed(j) ==
  \/ jobs[j].status # "NONE"
  \/ \E r \in Requests : req[r].pc = "inserted" /\ req[r].job = j

NextJob(j) ==
  /\ \A k \in JobIds : k >= j => ~JobUsed(k)
  /\ j > 1 => JobUsed(j - 1)

\* Bound: a request that will insert a job is admitted only if MaxJobs leaves
\* an id for it and for the retries already under way.
RoomForJob ==
  \E j \in JobIds :
    /\ NextJob(j)
    /\ j + Cardinality({q \in Requests : req[q].pc = "locked" /\ req[q].op = "retry"})
         <= MaxJobs

-----------------------------------------------------------------------------
(* API requests.                                                           *)

Serving(r, p) == req[r].pc = "idle" /\ mode[p] = "running"

\* OutboxRepository.create: the row is flushed, not committed, and the
\* notify callback starts a drain task of this process right away.
InsertJob(r, p, op, i, j) ==
  /\ NextJob(j)
  /\ req' = [req EXCEPT ![r] = [pc |-> "inserted", op |-> op, item |-> i,
                                job |-> j, proc |-> p]]
  /\ wake' = [wake EXCEPT ![p] = TRUE]

\* CreateItemUseCase.execute with enrich = true, up to its last statement.
CreateItem(r, p, i) ==
  /\ Serving(r, p)
  /\ status[i] = "ABSENT"
  /\ \A q \in Requests : req[q].item # i
  /\ RoomForJob
  /\ \E j \in JobIds : InsertJob(r, p, "create", i, j)
  /\ UNCHANGED <<status, jobs, mode, drain, tx, faults, calls>>

\* CreateItemUseCase.execute with enrich = false, a single insertion.
SaveDirectly(r, p, i) ==
  /\ Serving(r, p)
  /\ status[i] = "ABSENT"
  /\ \A q \in Requests : req[q].item # i
  /\ status' = [status EXCEPT ![i] = "ARCHIVED"]
  /\ UNCHANGED <<jobs, mode, wake, drain, tx, req, faults, calls>>

\* get_by_id_for_update: a PATCH or retry request takes the item's row,
\* waiting for whoever holds it.
LockItem(r, p, i, op) ==
  /\ Serving(r, p)
  /\ status[i] # "ABSENT"
  /\ ~ItemLocked(i)
  /\ op = "retry" => RoomForJob
  /\ req' = [req EXCEPT ![r] = [pc |-> "locked", op |-> op, item |-> i,
                                job |-> 0, proc |-> p]]
  /\ UNCHANGED <<status, jobs, mode, wake, drain, tx, faults, calls>>

Holds(r, op) == req[r].pc = "locked" /\ req[r].op = op

Permitted(r) == CanTransition(status[req[r].item], req[r].op)

Finish(r) == req' = [req EXCEPT ![r] = NoRequest]

Commit(r) ==
  /\ Finish(r)
  /\ status' = [status EXCEPT ![req[r].item] = AllowedTransitions[@][req[r].op]]

\* UpdateItemUseCase: confirm and edit write the locked row only.
ConfirmOrEdit(r) ==
  /\ Holds(r, "confirm") \/ Holds(r, "edit")
  /\ Permitted(r)
  /\ Commit(r)
  /\ UNCHANGED <<jobs, mode, wake, drain, tx, faults, calls>>

\* UpdateItemUseCase, discard: validate_transition passes ...
BeginDiscard(r) ==
  /\ Holds(r, "discard")
  /\ Permitted(r)
  /\ req' = [req EXCEPT ![r].pc = "deleting"]
  /\ UNCHANGED <<status, jobs, mode, wake, drain, tx, faults, calls>>

\* Mutant: the item's jobs stay in the outbox.
DiscardKeepingJobs(r) ==
  /\ req[r].pc = "deleting"
  /\ Commit(r)
  /\ UNCHANGED <<jobs, mode, wake, drain, tx, faults, calls>>

\* ... and delete_by_item_id waits for the item's job rows to be unlocked.
Discard(r) ==
  /\ req[r].pc = "deleting"
  /\ \A j \in JobIds : jobs[j].item = req[r].item => ~JobLocked(j)
  /\ jobs' = [j \in JobIds |->
                IF jobs[j].item = req[r].item THEN NoRow ELSE jobs[j]]
  /\ calls' = [j \in JobIds |->
                IF jobs[j].item = req[r].item THEN 0 ELSE calls[j]]
  /\ Commit(r)
  /\ UNCHANGED <<mode, wake, drain, tx, faults>>

\* RetryEnrichmentUseCase.execute, up to its last statement.
RequeueJob(r) ==
  /\ Holds(r, "retry")
  /\ Permitted(r)
  /\ \E j \in JobIds : InsertJob(r, req[r].proc, "retry", req[r].item, j)
  /\ UNCHANGED <<status, jobs, mode, drain, tx, faults, calls>>

\* get_db_session commits after the handler has returned: the item (new or
\* retried) and its job become visible together.
CommitJob(r) ==
  /\ req[r].pc = "inserted"
  /\ Finish(r)
  /\ status' = [status EXCEPT ![req[r].item] = "ENRICHING"]
  /\ jobs' = [jobs EXCEPT ![req[r].job] = NewRow(req[r].item)]
  /\ UNCHANGED <<mode, wake, drain, tx, faults, calls>>

\* validate_transition raises: 409 and rollback.
Reject(r) ==
  /\ req[r].pc = "locked"
  /\ ~Permitted(r)
  /\ Finish(r)
  /\ UNCHANGED <<status, jobs, mode, wake, drain, tx, faults, calls>>

\* Any other exception of the handler or of its commit: rollback.
Rollback(r) ==
  /\ req[r].pc # "idle"
  /\ faults < MaxFaults
  /\ faults' = faults + 1
  /\ Finish(r)
  /\ UNCHANGED <<status, jobs, mode, wake, drain, tx, calls>>

-----------------------------------------------------------------------------
(* The worker's drains.                                                    *)

TakeDrainLock(p, owner) ==
  /\ drain[p].owner = "none"
  /\ drain' = [drain EXCEPT ![p] = [owner |-> owner, left |-> BatchSize]]

ReleaseDrainLock(p) == drain' = [drain EXCEPT ![p] = NoDrain]

\* worker.start: the callback is set and the startup scan begins.
Start(p) ==
  /\ mode[p] = "down"
  /\ mode' = [mode EXCEPT ![p] = "starting"]
  /\ TakeDrainLock(p, "startup")
  /\ UNCHANGED <<status, jobs, wake, tx, req, faults, calls>>

\* The poll loop's sleep ends; it keeps running whatever its drain does.
PollDrain(p) ==
  /\ mode[p] = "running"
  /\ TakeDrainLock(p, "poll")
  /\ UNCHANGED <<status, jobs, mode, wake, tx, req, faults, calls>>

\* The task created by trigger_drain gets the drain lock.
NotifyDrain(p) ==
  /\ wake[p]
  /\ TakeDrainLock(p, "notify")
  /\ wake' = [wake EXCEPT ![p] = FALSE]
  /\ UNCHANGED <<status, jobs, mode, tx, req, faults, calls>>

\* Mutant: the claim does not skip locked rows.
RunnableThoughLocked(j) == jobs[j].status = "PENDING" /\ jobs[j].backoff = 0

\* Mutant: the claim overlooks jobs that have been tried before.
RunnableOnce(j) ==
  /\ jobs[j].status = "PENDING" /\ jobs[j].attempts = 0
  /\ ~JobLocked(j)

\* claim_next_pending's conditions on one row.
Runnable(j) == jobs[j].status = "PENDING" /\ jobs[j].backoff = 0 /\ ~JobLocked(j)

\* claim_next_pending: FOR UPDATE SKIP LOCKED on the oldest due job.
Claimable(j) == Runnable(j) /\ \A k \in JobIds : Runnable(k) => j <= k

MayClaim(p) ==
  /\ drain[p].owner # "none"
  /\ tx[p].pc = "none"
  /\ mode[p] # "stopping"      \* self.running
  /\ drain[p].left > 0

Claim(p) ==
  /\ MayClaim(p)
  /\ \E j \in JobIds :
       /\ Claimable(j)
       /\ tx' = [tx EXCEPT ![p] =
                   [pc |-> "claimed", job |-> j,
                    row |-> [jobs[j] EXCEPT !.status = "IN_PROGRESS",
                                            !.attempts = @ + 1]]]
  /\ UNCHANGED <<status, jobs, mode, wake, drain, req, faults, calls>>

\* The batch is used up, nothing is claimable, or the worker is stopping.
\* The startup scan over, the process begins to serve.
EndDrain(p) ==
  /\ drain[p].owner # "none"
  /\ tx[p].pc = "none"
  /\ ~(MayClaim(p) /\ \E j \in JobIds : Runnable(j))
  /\ ReleaseDrainLock(p)
  /\ mode' = [mode EXCEPT ![p] = IF @ = "starting" THEN "running" ELSE @]
  /\ UNCHANGED <<status, jobs, wake, tx, req, faults, calls>>

\* The transaction of p ends with the row of its job as given; _drain_all
\* goes on to its next iteration.
CommitTx(p, row) ==
  /\ jobs' = [jobs EXCEPT ![tx[p].job] = row]
  /\ tx' = [tx EXCEPT ![p] = NoTx]
  /\ drain' = [drain EXCEPT ![p].left = @ - 1]

\* mark_completed deletes the row.
CompleteJob(p) ==
  /\ CommitTx(p, NoRow)
  /\ calls' = [calls EXCEPT ![tx[p].job] = 0]

\* get_by_id_for_update_system waits for the item's row; a job whose item is
\* no longer ENRICHING is dropped, otherwise the AI provider is called.
LockJobItem(p) ==
  /\ tx[p].pc = "claimed"
  /\ ~ItemLocked(tx[p].row.item)
  /\ IF status[tx[p].row.item] = "ENRICHING"
     THEN /\ tx' = [tx EXCEPT ![p].pc = "calling"]
          /\ calls' = [calls EXCEPT ![tx[p].job] = @ + 1]
          /\ UNCHANGED <<jobs, drain>>
     ELSE CompleteJob(p)
  /\ UNCHANGED <<status, mode, wake, req, faults>>

\* The provider answers: item, suggestions and the job's deletion commit
\* together (the item is re-read under the lock already held).
Enriched(p) ==
  /\ tx[p].pc = "calling"
  /\ status' = [status EXCEPT ![tx[p].row.item] = "READY_TO_CONFIRM"]
  /\ CompleteJob(p)
  /\ UNCHANGED <<mode, wake, req, faults>>

\* _handle_failure's choice of delay: job_backoff_seconds[min(attempt_count,
\* len - 1)], its indices counted from 0.
BackoffFor(attempts) ==
  Backoff[IF attempts + 1 < Len(Backoff) THEN attempts + 1 ELSE Len(Backoff)]

\* Mutant: the limit is checked with > instead of >=.
LastAttemptLate(p) == tx[p].row.attempts > MaxRetries

\* Mutant: the attempt is counted once more than it was made.
LastAttemptEarly(p) == tx[p].row.attempts + 1 >= MaxRetries

LastAttempt(p) == tx[p].row.attempts >= MaxRetries

\* Mutant: the attempt's count is not written back.
RetryUncounted(p) ==
  /\ tx[p].pc = "calling"
  /\ ~LastAttempt(p)
  /\ CommitTx(p, [jobs[tx[p].job] EXCEPT !.backoff = BackoffFor(@)])
  /\ UNCHANGED <<status, mode, wake, req, faults, calls>>

\* EnrichmentError or another exception of the provider: the job is retried
\* later ...
RetryLater(p) ==
  /\ tx[p].pc = "calling"
  /\ ~LastAttempt(p)
  /\ CommitTx(p, [tx[p].row EXCEPT !.status = "PENDING",
                                   !.backoff = BackoffFor(tx[p].row.attempts)])
  /\ UNCHANGED <<status, mode, wake, req, faults, calls>>

\* Mutant: the item fails but its job stays in the queue.
GiveUpRequeued(p) ==
  /\ tx[p].pc = "calling"
  /\ LastAttempt(p)
  /\ status' = [status EXCEPT ![tx[p].row.item] = "FAILED"]
  /\ CommitTx(p, jobs[tx[p].job])
  /\ UNCHANGED <<mode, wake, req, faults, calls>>

\* ... or given up.
GiveUp(p) ==
  /\ tx[p].pc = "calling"
  /\ LastAttempt(p)
  /\ status' = [status EXCEPT ![tx[p].row.item] = "FAILED"]
  /\ CommitTx(p, [tx[p].row EXCEPT !.status = "DEAD"])
  /\ UNCHANGED <<mode, wake, req, faults, calls>>

\* run_at passes.
BackoffElapses(j) ==
  /\ jobs[j].status = "PENDING"
  /\ jobs[j].backoff > 0
  /\ jobs' = [jobs EXCEPT ![j].backoff = 0]
  /\ UNCHANGED <<status, mode, wake, drain, tx, req, faults, calls>>

\* _reclaim_expired, for the rows whose lease has run out; a drain follows if
\* there were any.
Reclaim(p) ==
  /\ mode[p] = "running"
  /\ \E expired \in SUBSET {j \in JobIds : jobs[j].status = "IN_PROGRESS"} :
       /\ jobs' = [j \in JobIds |->
                     IF j \in expired THEN [jobs[j] EXCEPT !.status = "PENDING"]
                                      ELSE jobs[j]]
       /\ wake' = [wake EXCEPT ![p] = @ \/ expired # {}]
  /\ UNCHANGED <<status, mode, drain, tx, req, faults, calls>>

-----------------------------------------------------------------------------
(* Faults, stops and restarts.                                             *)

Fault == faults < MaxFaults /\ faults' = faults + 1

AbortTx(p) == tx' = [tx EXCEPT ![p] = NoTx] /\ ReleaseDrainLock(p)

\* A database error inside the worker's transaction also defeats
\* _handle_failure: rollback, and the exception leaves _drain_all.  The poll
\* loop survives it; the startup scan does not.
LoseTx(p) ==
  /\ tx[p].pc # "none"
  /\ Fault
  /\ AbortTx(p)
  /\ mode' = [mode EXCEPT ![p] = IF @ = "starting" THEN "down" ELSE @]
  /\ UNCHANGED <<status, jobs, wake, req, calls>>

\* worker.stop, once the server has finished its requests: the poll task is
\* cancelled with the drain it runs, a notify task may finish its job.
Stop(p) ==
  /\ mode[p] = "running"
  /\ \A r \in Requests : req[r].proc # p
  /\ Fault
  /\ mode' = [mode EXCEPT ![p] = "stopping"]
  /\ IF drain[p].owner = "poll" THEN AbortTx(p) ELSE UNCHANGED <<tx, drain>>
  /\ UNCHANGED <<status, jobs, wake, req, calls>>

Die(p) ==
  /\ mode' = [mode EXCEPT ![p] = "down"]
  /\ wake' = [wake EXCEPT ![p] = FALSE]
  /\ AbortTx(p)
  /\ req' = [r \in Requests |-> IF req[r].proc = p THEN NoRequest ELSE req[r]]
  /\ UNCHANGED <<status, jobs, calls>>

\* The event loop closes and cancels the tasks that are left.
Exit(p) ==
  /\ mode[p] = "stopping"
  /\ Die(p)
  /\ UNCHANGED faults

Crash(p) ==
  /\ mode[p] # "down"
  /\ Fault
  /\ Die(p)

-----------------------------------------------------------------------------
RequestStep(r) ==
  \/ ConfirmOrEdit(r) \/ BeginDiscard(r) \/ Discard(r)
  \/ RequeueJob(r) \/ CommitJob(r) \/ Reject(r)

NewRequest(r) ==
  \E p \in Procs, i \in Items :
    \/ CreateItem(r, p, i) \/ SaveDirectly(r, p, i)
    \/ \E op \in UserActions : LockItem(r, p, i, op)

\* What an attempt at a job comes to.
Outcome(p) == Enriched(p) \/ RetryLater(p) \/ GiveUp(p)

WorkerStep(p) ==
  \/ NotifyDrain(p) \/ Claim(p) \/ EndDrain(p) \/ LockJobItem(p) \/ Outcome(p)

ProcessStep(p) ==
  \/ Start(p) \/ PollDrain(p) \/ WorkerStep(p) \/ Reclaim(p)
  \/ LoseTx(p) \/ Stop(p) \/ Exit(p) \/ Crash(p)

Next ==
  \/ \E r \in Requests : NewRequest(r) \/ RequestStep(r) \/ Rollback(r)
  \/ \E p \in Procs : ProcessStep(p)
  \/ \E j \in JobIds : BackoffElapses(j)

\* Users need not act and faults need not happen.  A process is restarted,
\* its poll loop fires again and again, requests and drains take their next
\* step; row locks and the drain lock are granted in order of arrival, so a
\* waiter that finds the lock free again and again gets it.
Fairness ==
  /\ \A r \in Requests : WF_vars(RequestStep(r))
  /\ \A p \in Procs :
       /\ WF_vars(Start(p))
       /\ WF_vars(Exit(p))
       /\ SF_vars(PollDrain(p))
       /\ SF_vars(LockJobItem(p))
       /\ WF_vars(NotifyDrain(p) \/ Claim(p) \/ EndDrain(p) \/ Outcome(p))
  /\ \A j \in JobIds : WF_vars(BackoffElapses(j))

Spec == Init /\ [][Next]_vars

FairSpec == Spec /\ Fairness

-----------------------------------------------------------------------------
(* Properties.                                                             *)

Live(j, i) == jobs[j].status = "PENDING" /\ jobs[j].item = i

\* No item is stranded and no job outlives its round: the items being
\* enriched are exactly those with a live job, and each has one.  Creation
\* and retry commit the item with its job, a drain ends them together, and
\* no request may leave ENRICHING.
OneLiveJob ==
  \A i \in Items :
    /\ status[i] = "ENRICHING" <=> \E j \in JobIds : Live(j, i)
    /\ \A j, k \in JobIds : Live(j, i) /\ Live(k, i) => j = k

\* A worker locks a job row and then the item's row, a discard the item's row
\* and then its job rows: the two never wait for each other.
NoLockCycle ==
  \A p \in Procs, r \in Requests :
    ~(/\ tx[p].pc = "claimed"
      /\ req[r].pc = "deleting"
      /\ tx[p].row.item = req[r].item)

\* No two workers pay for the enrichment of one item at a time, in one
\* process (drain lock) or in several (SKIP LOCKED).
OneEnricherPerItem ==
  \A p, q \in Procs :
    /\ tx[p].pc # "none"
    /\ tx[q].pc # "none"
    /\ tx[p].row.item = tx[q].row.item
    => p = q

\* The outbox tells why an item is where it is: a FAILED item has used up
\* all attempts of a dead job, a discarded item has left nothing behind that
\* a worker could pick up.
OutboxExplainsStatus ==
  /\ \A i \in Items :
       status[i] = "FAILED" =>
         \E j \in JobIds : /\ jobs[j].item = i
                           /\ jobs[j].status = "DEAD"
                           /\ jobs[j].attempts = MaxRetries
  /\ \A j \in JobIds :
       jobs[j].status # "NONE" => status[jobs[j].item] \notin {"ABSENT", "DISCARDED"}

\* Rolled back attempts are not counted in attempt_count, so a job may cost
\* more than MaxRetries provider calls, but each call beyond them is the
\* work of one fault.
CallsAccountedFor == \A j \in JobIds : calls[j] <= MaxRetries + faults

\* The live job's counter is the abstract count of failed attempts.
AttemptsOf(i) ==
  IF status[i] = "ENRICHING" THEN jobs[CHOOSE j \in JobIds : Live(j, i)].attempts
                             ELSE 0

Lifecycle ==
  INSTANCE ItemLifecycle WITH failures <- [i \in Items |-> AttemptsOf(i)]

\* Items seen through their committed rows follow the life cycle, and every
\* enrichment round ends, whatever requests, workers and faults do.
ImplementsLifecycle == Lifecycle!Spec

\* The safety part, for the instances checked without fairness.
StaysInLifecycle == Lifecycle!SafetySpec

\* A request that holds the row of an item comes to an end, never left waiting
\* for a worker's job row; and whoever holds an item's row lets go of it, a worker
\* with its provider call included, so that requests waiting for it get their turn.
RequestsEnd ==
  /\ \A r \in Requests : (req[r].pc # "idle") ~> (req[r].pc = "idle")
  /\ \A i \in Items : ItemLocked(i) ~> ~ItemLocked(i)
=============================================================================

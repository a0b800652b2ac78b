---------------------- MODULE EnrichmentPipelineProofs ----------------------
(***************************************************************************)
(* Machine-checked proofs about EnrichmentPipeline, for any items,         *)
(* processes, requests and settings: the safety invariants that TLC checks *)
(* on small instances hold for all of them.                                *)
(*                                                                         *)
(* The invariants are not inductive as they stand.  IInv adds what the     *)
(* transactions in progress know about the committed rows: a worker's job  *)
(* row is still PENDING, a discard's item is still discardable, a row about*)
(* to be committed has no rival.                                           *)
(***************************************************************************)
EXTENDS EnrichmentPipeline, TLAPS

USE DEF JobIds

\* Committed rows: IN_PROGRESS is never visible, and a row that will be
\* attempted again has an attempt left.
RowInv ==
  \A j \in JobIds :
    /\ jobs[j].status # "IN_PROGRESS"
    /\ IF jobs[j].status = "NONE" THEN jobs[j] = NoRow ELSE jobs[j].item \in Items
    /\ jobs[j].status = "PENDING" => jobs[j].attempts < MaxRetries

\* A worker's transaction works on a committed PENDING row of its own.
TxInv ==
  /\ \A p \in Procs : tx[p].pc # "none" =>
       /\ drain[p].left > 0
       /\ tx[p].job \in JobIds
       /\ tx[p].row.item \in Items
       /\ jobs[tx[p].job].status = "PENDING"
       /\ jobs[tx[p].job].item = tx[p].row.item
       /\ tx[p].row.attempts = jobs[tx[p].job].attempts + 1
  /\ \A p, q \in Procs :
       /\ tx[p].pc # "none"
       /\ tx[q].pc # "none"
       /\ tx[p].job = tx[q].job
       => p = q

\* What a request relies on between its first statement and its commit.
ReqInv ==
  /\ \A r \in Requests : req[r].pc = "idle" => req[r] = NoRequest
  /\ \A r \in Requests : req[r].pc # "idle" => req[r].item \in Items
  /\ \A r \in Requests : req[r].pc = "locked" =>
       req[r].op \in UserActions /\ status[req[r].item] # "ABSENT"
  /\ \A r \in Requests : req[r].pc = "deleting" =>
       /\ req[r].op = "discard"
       /\ status[req[r].item] # "ABSENT"
       /\ CanTransition(status[req[r].item], "discard")
  /\ \A r \in Requests : req[r].pc = "inserted" =>
       /\ req[r].job \in JobIds
       /\ jobs[req[r].job].status = "NONE"
       /\ \/ req[r].op = "create" /\ status[req[r].item] = "ABSENT"
          \/ req[r].op = "retry" /\ status[req[r].item] = "FAILED"
  /\ \A q, r \in Requests :
       req[q].pc # "idle" /\ req[q].item = req[r].item => q = r
  /\ \A q, r \in Requests :
       /\ req[q].pc = "inserted"
       /\ req[r].pc = "inserted"
       /\ req[q].job = req[r].job
       => q = r

\* Each provider call is counted, in progress, or the work of a fault; a
\* stopping worker's last call has already been charged to its stop.
Charge(p) ==
  CASE tx[p].pc = "calling" /\ mode[p] # "stopping" -> 1
    [] tx[p].pc = "claimed" /\ mode[p] = "stopping" -> -1
    [] OTHER -> 0

CallInv ==
  /\ \A p \in Procs : tx[p].pc # "none" =>
       calls[tx[p].job] <= jobs[tx[p].job].attempts + faults + Charge(p)
  /\ \A j \in JobIds : ~JobLocked(j) => calls[j] <= jobs[j].attempts + faults

IInv ==
  TypeOK /\ RowInv /\ TxInv /\ ReqInv /\ OneLiveJob /\ OutboxExplainsStatus /\ CallInv

-----------------------------------------------------------------------------
(* The transition table.                                                   *)

\* Discard, retry, confirm and edit are allowed in these states and no other.
LEMMA TransitionTable ==
  ASSUME NEW s \in ItemStatus, NEW a \in UserActions, CanTransition(s, a)
  PROVE  /\ s \notin {"ENRICHING", "DISCARDED"}
         /\ AllowedTransitions[s][a] \in ItemStatus
         /\ a = "discard" => AllowedTransitions[s][a] = "DISCARDED"
         /\ a = "retry" => s = "FAILED" /\ AllowedTransitions[s][a] = "ENRICHING"
         /\ a \in {"confirm", "edit"} =>
              /\ s \in {"READY_TO_CONFIRM", "ARCHIVED"}
              /\ AllowedTransitions[s][a] \in {"READY_TO_CONFIRM", "ARCHIVED"}
  BY DEF ItemStatus, UserActions, CanTransition, AllowedTransitions, NoActions

\* The records the actions write are of their types.
LEMMA RowTypes ==
  /\ NoRow \in JobRow
  /\ NoTx \in TxState
  /\ NoDrain \in DrainState
  /\ NoRequest \in RequestState
  /\ \A i \in Items : NewRow(i) \in JobRow
  /\ \A a \in Nat : BackoffFor(a) \in Nat
  BY PipelineAssumption
  DEF NoRow, NewRow, NoTx, NoDrain, NoRequest, JobRow, TxState, DrainState,
      RequestState, BackoffFor

\* A step that leaves transactions and jobs alone keeps the calls accounted for.
LEMMA FaultsOnlyAdd ==
  ASSUME IInv, UNCHANGED <<jobs, tx, calls>>, faults' \in Int, faults' >= faults,
         \A p \in Procs : mode'[p] = "stopping" <=> mode[p] = "stopping"
  PROVE  CallInv'
<1>1. \A j \in JobIds : calls[j] \in Nat /\ jobs[j].attempts \in Nat
  BY DEF IInv, TypeOK, JobRow
<1>2. \A p \in Procs : tx[p].pc # "none" => tx[p].job \in JobIds
  BY DEF IInv, TxInv
<1>3. \A p \in Procs : Charge(p) \in Int /\ Charge(p)' = Charge(p)
  BY DEF Charge
<1>. QED
  BY <1>1, <1>2, <1>3 DEF IInv, TypeOK, CallInv, JobLocked

-----------------------------------------------------------------------------
(* Requests.                                                               *)

\* A row inserted but not committed: its id is free and nobody else has it.
LEMMA CreateItemStep ==
  ASSUME IInv, NEW r \in Requests, NEW p \in Procs, NEW i \in Items,
         CreateItem(r, p, i)
  PROVE  IInv'
<1>1. PICK j \in JobIds : InsertJob(r, p, "create", i, j)
  BY DEF CreateItem
<1>2. UNCHANGED <<status, jobs, mode, drain, tx, faults, calls>>
  BY DEF CreateItem
<1>3. req' = [req EXCEPT ![r] = [pc |-> "inserted", op |-> "create", item |-> i,
                                 job |-> j, proc |-> p]]
  BY <1>1 DEF InsertJob
<1>4. /\ jobs[j].status = "NONE"
      /\ \A q \in Requests : ~(req[q].pc = "inserted" /\ req[q].job = j)
  BY <1>1 DEF InsertJob, NextJob, JobUsed
<1>5. TypeOK'
  BY <1>1, <1>2, <1>3 DEF IInv, TypeOK, RequestState, InsertJob
<1>6. RowInv' /\ TxInv' /\ OneLiveJob' /\ OutboxExplainsStatus'
  BY <1>2 DEF IInv, RowInv, TxInv, OneLiveJob, Live, OutboxExplainsStatus
<1>7. ReqInv'
  <2>1. status[i] = "ABSENT" /\ \A q \in Requests : req[q].item # i
    BY DEF CreateItem
  <2>2. req \in [Requests -> RequestState]
    BY DEF IInv, TypeOK
  <2>. QED
    BY <1>2, <1>3, <1>4, <2>1, <2>2 DEF IInv, ReqInv, RequestState, NoRequest
<1>8. CallInv'
  BY <1>2 DEF IInv, CallInv, Charge, JobLocked
<1>9. QED
  BY <1>5, <1>6, <1>7, <1>8 DEF IInv

LEMMA SaveDirectlyStep ==
  ASSUME IInv, NEW r \in Requests, NEW p \in Procs, NEW i \in Items,
         SaveDirectly(r, p, i)
  PROVE  IInv'
<1>1. /\ status[i] = "ABSENT"
      /\ \A q \in Requests : req[q].item # i
      /\ status' = [status EXCEPT ![i] = "ARCHIVED"]
      /\ UNCHANGED <<jobs, mode, wake, drain, tx, req, faults, calls>>
  BY DEF SaveDirectly
<1>2. TypeOK'
  BY <1>1 DEF IInv, TypeOK, ItemStatus
<1>3. RowInv' /\ TxInv'
  BY <1>1 DEF IInv, RowInv, TxInv
<1>4. ReqInv'
  BY <1>1 DEF IInv, TypeOK, ReqInv
<1>5. OneLiveJob' /\ OutboxExplainsStatus'
  BY <1>1 DEF IInv, TypeOK, OneLiveJob, Live, OutboxExplainsStatus
<1>6. CallInv'
  BY <1>1 DEF IInv, CallInv, Charge, JobLocked
<1>7. QED
  BY <1>2, <1>3, <1>4, <1>5, <1>6 DEF IInv

LEMMA LockItemStep ==
  ASSUME IInv, NEW r \in Requests, NEW p \in Procs, NEW i \in Items,
         NEW op \in UserActions, LockItem(r, p, i, op)
  PROVE  IInv'
<1>1. UNCHANGED <<status, jobs, mode, wake, drain, tx, faults, calls>>
  BY DEF LockItem
<1>2. req' = [req EXCEPT ![r] = [pc |-> "locked", op |-> op, item |-> i,
                                 job |-> 0, proc |-> p]]
  BY DEF LockItem
<1>3. TypeOK'
  BY <1>1, <1>2 DEF IInv, TypeOK, RequestState
<1>4. RowInv' /\ TxInv' /\ OneLiveJob' /\ OutboxExplainsStatus'
  BY <1>1 DEF IInv, RowInv, TxInv, OneLiveJob, Live, OutboxExplainsStatus
<1>5. ReqInv'
  <2>1. status[i] # "ABSENT" /\ \A q \in Requests : req[q].item # i
    <3>1. status[i] # "ABSENT" /\ ~LockedByRequest(i)
      BY DEF LockItem, ItemLocked
    <3>. QED
      BY <3>1, PipelineAssumption
      DEF LockedByRequest, IInv, TypeOK, RequestState, ReqInv, NoRequest, UserActions
  <2>2. req \in [Requests -> RequestState]
    BY DEF IInv, TypeOK
  <2>. QED
    BY <1>1, <1>2, <2>1, <2>2
    DEF IInv, ReqInv, RequestState, NoRequest
<1>6. CallInv'
  BY <1>1 DEF IInv, CallInv, Charge, JobLocked
<1>7. QED
  BY <1>3, <1>4, <1>5, <1>6 DEF IInv

LEMMA ConfirmOrEditStep ==
  ASSUME IInv, NEW r \in Requests, ConfirmOrEdit(r)
  PROVE  IInv'
<1> DEFINE i == req[r].item
           s == AllowedTransitions[status[i]][req[r].op]
<1>1. /\ status' = [status EXCEPT ![i] = s]
      /\ req' = [req EXCEPT ![r] = NoRequest]
      /\ UNCHANGED <<jobs, mode, wake, drain, tx, faults, calls>>
  BY DEF ConfirmOrEdit, Commit, Finish
<1>2. /\ req[r].pc = "locked"
      /\ i \in Items
      /\ status[i] \in {"READY_TO_CONFIRM", "ARCHIVED"}
      /\ s \in {"READY_TO_CONFIRM", "ARCHIVED"}
  <2>1. req[r].pc = "locked" /\ req[r].op \in {"confirm", "edit"}
    BY DEF ConfirmOrEdit, Holds
  <2>2. i \in Items /\ status[i] \in ItemStatus
    BY <2>1 DEF IInv, TypeOK, ReqInv
  <2>3. CanTransition(status[i], req[r].op)
    BY DEF ConfirmOrEdit, Permitted
  <2>. QED
    BY <2>1, <2>2, <2>3, TransitionTable DEF UserActions
<1> HIDE DEF i, s
<1>3. TypeOK'
  BY <1>1, <1>2, RowTypes DEF IInv, TypeOK, ItemStatus
<1>4. RowInv' /\ TxInv'
  BY <1>1 DEF IInv, RowInv, TxInv
<1>5. ReqInv'
  <2>1. \A q \in Requests : q # r /\ req[q].pc # "idle" => req[q].item # i
    BY <1>2 DEF i, IInv, ReqInv
  <2>. QED
    BY <1>1, <2>1, <1>2, PipelineAssumption DEF IInv, TypeOK, ReqInv, NoRequest
<1>6. OneLiveJob' /\ OutboxExplainsStatus'
  BY <1>1, <1>2 DEF IInv, TypeOK, OneLiveJob, Live, OutboxExplainsStatus
<1>7. CallInv'
  BY <1>1 DEF IInv, CallInv, Charge, JobLocked
<1>8. QED
  BY <1>3, <1>4, <1>5, <1>6, <1>7 DEF IInv

LEMMA BeginDiscardStep ==
  ASSUME IInv, NEW r \in Requests, BeginDiscard(r)
  PROVE  IInv'
<1>1. /\ req[r].pc = "locked" /\ req[r].op = "discard"
      /\ CanTransition(status[req[r].item], "discard")
      /\ req' = [req EXCEPT ![r].pc = "deleting"]
      /\ UNCHANGED <<status, jobs, mode, wake, drain, tx, faults, calls>>
  BY DEF BeginDiscard, Holds, Permitted
<1>2. TypeOK'
  BY <1>1 DEF IInv, TypeOK, RequestState
<1>3. RowInv' /\ TxInv' /\ OneLiveJob' /\ OutboxExplainsStatus'
  BY <1>1 DEF IInv, RowInv, TxInv, OneLiveJob, Live, OutboxExplainsStatus
<1>4. ReqInv'
  BY <1>1 DEF IInv, TypeOK, ReqInv, RequestState, NoRequest
<1>5. CallInv'
  BY <1>1 DEF IInv, CallInv, Charge, JobLocked
<1>6. QED
  BY <1>2, <1>3, <1>4, <1>5 DEF IInv

\* No worker holds a job of the item that is deleted: its row would be
\* PENDING and the item ENRICHING, which no discard leaves.
LEMMA DiscardStep ==
  ASSUME IInv, NEW r \in Requests, Discard(r)
  PROVE  IInv'
<1> DEFINE i == req[r].item
<1>1. /\ \A j \in JobIds : jobs[j].item = i => ~JobLocked(j)
      /\ jobs' = [j \in JobIds |-> IF jobs[j].item = i THEN NoRow ELSE jobs[j]]
      /\ calls' = [j \in JobIds |-> IF jobs[j].item = i THEN 0 ELSE calls[j]]
      /\ req' = [req EXCEPT ![r] = NoRequest]
      /\ UNCHANGED <<mode, wake, drain, tx, faults>>
  BY DEF Discard, Commit, Finish
<1>2. /\ req[r].pc = "deleting"
      /\ i \in Items
      /\ status[i] \notin {"ABSENT", "ENRICHING"}
      /\ status' = [status EXCEPT ![i] = "DISCARDED"]
  <2>1. /\ req[r].pc = "deleting"
        /\ req[r].op = "discard"
        /\ i \in Items
        /\ status[i] # "ABSENT"
        /\ CanTransition(status[i], "discard")
    BY DEF Discard, IInv, ReqInv
  <2>2. status[i] \in ItemStatus
    BY <2>1 DEF IInv, TypeOK
  <2>3. AllowedTransitions[status[i]]["discard"] = "DISCARDED"
    BY <2>1, <2>2, TransitionTable DEF UserActions
  <2>4. status[i] # "ENRICHING"
    BY <2>1, <2>2, TransitionTable DEF UserActions
  <2>. QED
    BY <2>1, <2>2, <2>3, <2>4 DEF Discard, Commit, ItemStatus
<1> HIDE DEF i
<1>3. TypeOK'
  BY <1>1, <1>2, RowTypes DEF IInv, TypeOK, ItemStatus
<1>4. RowInv'
  BY <1>1 DEF IInv, RowInv, NoRow
<1>5. TxInv'
  BY <1>1 DEF IInv, TxInv, JobLocked
<1>6. ReqInv'
  <2>1. \A q \in Requests : q # r /\ req[q].pc # "idle" => req[q].item # i
    BY <1>2 DEF i, IInv, ReqInv
  <2>2. \A j \in JobIds : jobs[j].status = "NONE" => jobs'[j].status = "NONE"
    BY <1>1 DEF NoRow
  <2>. QED
    BY <1>1, <1>2, <2>1, <2>2, PipelineAssumption DEF IInv, TypeOK, ReqInv, NoRequest
<1>7. OneLiveJob'
  BY <1>1, <1>2, PipelineAssumption DEF IInv, TypeOK, OneLiveJob, Live, NoRow
<1>8. OutboxExplainsStatus'
  BY <1>1, <1>2 DEF IInv, TypeOK, RowInv, OutboxExplainsStatus, NoRow
<1>9. CallInv'
  <2>1. \A p \in Procs : tx[p].pc # "none" => jobs'[tx[p].job] = jobs[tx[p].job]
                                           /\ calls'[tx[p].job] = calls[tx[p].job]
    BY <1>1 DEF IInv, TxInv, JobLocked
  <2>2. \A j \in JobIds : ~JobLocked(j) => calls'[j] <= jobs'[j].attempts + faults
    BY <1>1 DEF IInv, TypeOK, CallInv, NoRow
  <2>. QED
    BY <1>1, <2>1, <2>2 DEF IInv, CallInv, Charge, JobLocked
<1>10. QED
  BY <1>3, <1>4, <1>5, <1>6, <1>7, <1>8, <1>9 DEF IInv

LEMMA RequeueJobStep ==
  ASSUME IInv, NEW r \in Requests, RequeueJob(r)
  PROVE  IInv'
<1> DEFINE i == req[r].item
           p == req[r].proc
<1>1. PICK j \in JobIds : InsertJob(r, p, "retry", i, j)
  BY DEF RequeueJob
<1>2. /\ req' = [req EXCEPT ![r] = [pc |-> "inserted", op |-> "retry", item |-> i,
                                    job |-> j, proc |-> p]]
      /\ wake' = [wake EXCEPT ![p] = TRUE]
      /\ UNCHANGED <<status, jobs, mode, drain, tx, faults, calls>>
  BY <1>1 DEF RequeueJob, InsertJob
<1>3. /\ jobs[j].status = "NONE"
      /\ \A q \in Requests : ~(req[q].pc = "inserted" /\ req[q].job = j)
  BY <1>1 DEF InsertJob, NextJob, JobUsed
<1>4. /\ req[r].pc = "locked"
      /\ i \in Items
      /\ status[i] = "FAILED"
  <2>1. req[r].pc = "locked" /\ req[r].op = "retry" /\ CanTransition(status[i], "retry")
    BY DEF RequeueJob, Holds, Permitted
  <2>2. i \in Items /\ status[i] \in ItemStatus
    BY <2>1 DEF IInv, TypeOK, ReqInv
  <2>. QED
    BY <2>1, <2>2, TransitionTable DEF UserActions
<1> HIDE DEF i, p
<1>5. TypeOK'
  <2>1. p \in Procs \cup {NoProc}
    BY DEF p, IInv, TypeOK, RequestState
  <2>. QED
    BY <1>2, <1>4, <2>1 DEF IInv, TypeOK, RequestState, UserActions
<1>6. RowInv' /\ TxInv' /\ OneLiveJob' /\ OutboxExplainsStatus'
  BY <1>2 DEF IInv, RowInv, TxInv, OneLiveJob, Live, OutboxExplainsStatus
<1>7. ReqInv'
  <2>1. \A q \in Requests : q # r /\ req[q].pc # "idle" => req[q].item # i
    BY <1>4 DEF i, IInv, ReqInv
  <2>. QED
    BY <1>2, <1>3, <1>4, <2>1, PipelineAssumption DEF IInv, TypeOK, ReqInv, NoRequest
<1>8. CallInv'
  BY <1>2 DEF IInv, CallInv, Charge, JobLocked
<1>9. QED
  BY <1>5, <1>6, <1>7, <1>8 DEF IInv

\* The new row is the item's only live one: the item was not ENRICHING.
LEMMA CommitJobStep ==
  ASSUME IInv, NEW r \in Requests, CommitJob(r)
  PROVE  IInv'
<1> DEFINE i == req[r].item
           j == req[r].job
<1>1. /\ req[r].pc = "inserted"
      /\ req' = [req EXCEPT ![r] = NoRequest]
      /\ status' = [status EXCEPT ![i] = "ENRICHING"]
      /\ jobs' = [jobs EXCEPT ![j] = NewRow(i)]
      /\ UNCHANGED <<mode, wake, drain, tx, faults, calls>>
  BY DEF CommitJob, Finish
<1>2. /\ i \in Items
      /\ j \in JobIds
      /\ jobs[j].status = "NONE"
      /\ status[i] \in {"ABSENT", "FAILED"}
      /\ \A q \in Requests : q # r /\ req[q].pc # "idle" => req[q].item # i
      /\ \A q \in Requests : q # r /\ req[q].pc = "inserted" => req[q].job # j
  BY <1>1 DEF IInv, ReqInv
<1> HIDE DEF i, j
<1>3. TypeOK'
  BY <1>1, <1>2, RowTypes DEF IInv, TypeOK, ItemStatus
<1>4. RowInv'
  BY <1>1, <1>2, PipelineAssumption DEF IInv, TypeOK, RowInv, NewRow, NoRow
<1>5. TxInv'
  BY <1>1, <1>2 DEF IInv, TypeOK, TxInv
<1>6. ReqInv'
  BY <1>1, <1>2, PipelineAssumption DEF IInv, TypeOK, ReqInv, NoRequest
<1>7. OneLiveJob'
  BY <1>1, <1>2 DEF IInv, TypeOK, OneLiveJob, Live, NewRow
<1>8. OutboxExplainsStatus'
  BY <1>1, <1>2 DEF IInv, TypeOK, RowInv, OutboxExplainsStatus, NewRow
<1>9. CallInv'
  <2>1. calls[j] <= faults
    BY <1>2 DEF IInv, TypeOK, RowInv, NoRow, CallInv, TxInv, JobLocked
  <2>. QED
    BY <1>1, <1>2, <2>1 DEF IInv, TypeOK, TxInv, CallInv, Charge, JobLocked, NewRow
<1>10. QED
  BY <1>3, <1>4, <1>5, <1>6, <1>7, <1>8, <1>9 DEF IInv

LEMMA EndRequestStep ==
  ASSUME IInv, NEW r \in Requests, Reject(r) \/ Rollback(r)
  PROVE  IInv'
<1>1. /\ req' = [req EXCEPT ![r] = NoRequest]
      /\ faults' \in faults .. MaxFaults /\ faults' \in Int /\ faults' >= faults
      /\ UNCHANGED <<status, jobs, mode, wake, drain, tx, calls>>
  BY PipelineAssumption DEF IInv, TypeOK, Reject, Rollback, Finish
<1>2. TypeOK'
  <2>1. NoRequest \in RequestState
    BY RowTypes
  <2>. QED
    BY <1>1, <2>1, PipelineAssumption DEF IInv, TypeOK
<1>3. RowInv' /\ TxInv' /\ OneLiveJob' /\ OutboxExplainsStatus'
  BY <1>1 DEF IInv, RowInv, TxInv, OneLiveJob, Live, OutboxExplainsStatus
<1>4. ReqInv'
  BY <1>1, PipelineAssumption DEF IInv, TypeOK, ReqInv, NoRequest
<1>5. CallInv'
  BY <1>1, FaultsOnlyAdd
<1>6. QED
  BY <1>2, <1>3, <1>4, <1>5 DEF IInv

-----------------------------------------------------------------------------
(* Workers.                                                                *)

\* What a worker knows about the job and the item of its transaction.
LEMMA HeldJob ==
  ASSUME IInv, NEW p \in Procs, tx[p].pc # "none"
  PROVE  /\ tx[p].job \in JobIds
         /\ tx[p].row.item \in Items
         /\ tx[p].row \in JobRow
         /\ jobs[tx[p].job].status = "PENDING"
         /\ jobs[tx[p].job].item = tx[p].row.item
         /\ tx[p].row.attempts = jobs[tx[p].job].attempts + 1
         /\ status[tx[p].row.item] = "ENRICHING"
         /\ \A k \in JobIds : Live(k, tx[p].row.item) => k = tx[p].job
         /\ \A q \in Procs : q # p /\ tx[q].pc # "none" =>
              tx[q].job # tx[p].job /\ tx[q].row.item # tx[p].row.item
<1>1. /\ tx[p].job \in JobIds
      /\ tx[p].row.item \in Items
      /\ tx[p].row \in JobRow
      /\ jobs[tx[p].job].status = "PENDING"
      /\ jobs[tx[p].job].item = tx[p].row.item
      /\ tx[p].row.attempts = jobs[tx[p].job].attempts + 1
  BY DEF IInv, TypeOK, TxState, TxInv
<1>2. Live(tx[p].job, tx[p].row.item)
  BY <1>1 DEF Live
<1>3. /\ status[tx[p].row.item] = "ENRICHING"
      /\ \A k \in JobIds : Live(k, tx[p].row.item) => k = tx[p].job
  BY <1>1, <1>2 DEF IInv, OneLiveJob
<1>4. ASSUME NEW q \in Procs, q # p, tx[q].pc # "none"
      PROVE  tx[q].job # tx[p].job /\ tx[q].row.item # tx[p].row.item
  BY <1>1, <1>3, <1>4 DEF IInv, TxInv, Live
<1>. QED
  BY <1>1, <1>3, <1>4

\* The end of a transaction concerns no other worker's.
LEMMA TxCommits ==
  ASSUME IInv, NEW p \in Procs, tx[p].pc # "none",
         NEW row \in JobRow, CommitTx(p, row),
         UNCHANGED <<mode, faults>>,
         calls' \in [JobIds -> Nat],
         \A k \in JobIds : k # tx[p].job => calls'[k] = calls[k],
         calls'[tx[p].job] <= row.attempts + faults
  PROVE  /\ jobs' \in [JobIds -> JobRow]
         /\ tx' \in [Procs -> TxState]
         /\ drain' \in [Procs -> DrainState]
         /\ TxInv'
         /\ CallInv'
<1> DEFINE j == tx[p].job
<1>1. /\ jobs' = [jobs EXCEPT ![j] = row]
      /\ tx' = [tx EXCEPT ![p] = NoTx]
      /\ drain' = [drain EXCEPT ![p].left = @ - 1]
  BY DEF CommitTx
<1>2. /\ j \in JobIds
      /\ \A q \in Procs : q # p /\ tx[q].pc # "none" => tx[q].job # j
  BY HeldJob
<1> HIDE DEF j
<1>3. jobs' \in [JobIds -> JobRow] /\ tx' \in [Procs -> TxState]
  BY <1>1, RowTypes DEF IInv, TypeOK
<1>4. drain' \in [Procs -> DrainState]
  <2>1. drain[p] \in DrainState /\ drain[p].left > 0
    BY DEF IInv, TypeOK, TxInv
  <2>2. [drain[p] EXCEPT !.left = @ - 1] \in DrainState
    <3>1. drain[p].left - 1 \in 0 .. BatchSize
      BY <2>1, PipelineAssumption DEF DrainState
    <3>. QED
      BY <2>1, <3>1 DEF DrainState
  <2>3. drain' = [drain EXCEPT ![p] = [drain[p] EXCEPT !.left = @ - 1]]
    BY <1>1
  <2>. QED
    BY <2>2, <2>3 DEF IInv, TypeOK
<1>5. TxInv'
  BY <1>1, <1>2 DEF IInv, TypeOK, TxInv, NoTx
<1>6. CallInv'
  <2>1. \A q \in Procs : tx'[q].pc # "none" =>
          /\ q # p
          /\ tx'[q] = tx[q] /\ tx[q].job # j
          /\ Charge(q)' = Charge(q)
    BY <1>1, <1>2 DEF IInv, TypeOK, Charge, NoTx
  <2>2. \A q \in Procs : tx'[q].pc # "none" =>
          calls'[tx'[q].job] <= jobs'[tx'[q].job].attempts + faults + Charge(q)'
    BY <1>1, <2>1 DEF j, IInv, TypeOK, TxInv, CallInv
  <2>3. \A k \in JobIds : k # j /\ ~JobLocked(k)' => ~JobLocked(k)
    BY <1>1 DEF j, IInv, TypeOK, JobLocked
  <2>4. \A k \in JobIds : ~JobLocked(k)' => calls'[k] <= jobs'[k].attempts + faults
    BY <1>1, <1>2, <2>3 DEF j, IInv, TypeOK, CallInv
  <2>. QED
    BY <2>2, <2>4 DEF CallInv
<1>. QED
  BY <1>3, <1>4, <1>5, <1>6

\* The attempt counted by a claim pays for the call made under it.
LEMMA AttemptPaysForCall ==
  ASSUME IInv, NEW p \in Procs, tx[p].pc = "calling"
  PROVE  calls[tx[p].job] <= tx[p].row.attempts + faults
<1>1. calls[tx[p].job] <= jobs[tx[p].job].attempts + faults + Charge(p)
  BY DEF IInv, CallInv
<1>2. Charge(p) \in {0, 1}
  BY DEF Charge
<1>3. /\ calls[tx[p].job] \in Int
      /\ jobs[tx[p].job].attempts \in Int
      /\ faults \in Int
      /\ tx[p].row.attempts = jobs[tx[p].job].attempts + 1
  BY HeldJob DEF IInv, TypeOK, JobRow
<1>. QED
  BY <1>1, <1>2, <1>3

\* An outcome of the item's round: the item leaves ENRICHING as its live job
\* goes.
LEMMA RoundEnds ==
  ASSUME IInv, NEW p \in Procs, tx[p].pc # "none",
         NEW row \in JobRow, NEW s \in {"READY_TO_CONFIRM", "FAILED"},
         row = NoRow \/ row = [tx[p].row EXCEPT !.status = "DEAD"],
         s = "FAILED" =>
           row.status = "DEAD" /\ row.item = tx[p].row.item /\ row.attempts = MaxRetries,
         CommitTx(p, row),
         status' = [status EXCEPT ![tx[p].row.item] = s],
         UNCHANGED req
  PROVE  RowInv' /\ ReqInv' /\ OneLiveJob' /\ OutboxExplainsStatus'
<1> DEFINE i == tx[p].row.item
           j == tx[p].job
<1>1. /\ jobs' = [jobs EXCEPT ![j] = row]
      /\ status' = [status EXCEPT ![i] = s]
      /\ UNCHANGED req
  BY DEF CommitTx
<1>2. /\ j \in JobIds /\ i \in Items
      /\ tx[p].row \in JobRow
      /\ jobs[j].status = "PENDING" /\ jobs[j].item = i
      /\ status[i] = "ENRICHING"
      /\ \A k \in JobIds : Live(k, i) => k = j
  BY HeldJob
<1>3. /\ row.status \in {"NONE", "DEAD"}
      /\ row.status = "NONE" => row = NoRow
      /\ row.status = "DEAD" => row.item = i
  BY <1>2 DEF NoRow, JobRow
<1>4. s = "FAILED" => row.status = "DEAD" /\ row.item = i /\ row.attempts = MaxRetries
  OBVIOUS
<1> HIDE DEF i, j
<1>5. RowInv'
  BY <1>1, <1>2, <1>3 DEF IInv, TypeOK, RowInv
<1>6. ReqInv'
  <2>1. ~CanTransition("ENRICHING", "discard")
    BY TransitionTable DEF ItemStatus, UserActions
  <2>. QED
    BY <1>1, <1>2, <2>1 DEF IInv, TypeOK, ReqInv
<1>7. OneLiveJob'
  BY <1>1, <1>2, <1>3 DEF IInv, TypeOK, OneLiveJob, Live
<1>8. OutboxExplainsStatus'
  BY <1>1, <1>2, <1>3, <1>4 DEF IInv, TypeOK, RowInv, OutboxExplainsStatus
<1>. QED
  BY <1>5, <1>6, <1>7, <1>8

LEMMA DrainStep ==
  ASSUME IInv, NEW p \in Procs,
         Start(p) \/ PollDrain(p) \/ NotifyDrain(p) \/ EndDrain(p)
  PROVE  IInv'
<1>1. UNCHANGED <<status, jobs, tx, req, faults, calls>>
  BY DEF Start, PollDrain, NotifyDrain, EndDrain
<1>2. /\ \E d \in DrainState :
           /\ drain' = [drain EXCEPT ![p] = d]
           /\ d.left > 0 \/ tx[p].pc = "none"
      /\ \/ UNCHANGED mode
         \/ mode' = [mode EXCEPT ![p] = IF @ = "starting" THEN "running" ELSE @]
         \/ mode[p] = "down" /\ mode' = [mode EXCEPT ![p] = "starting"]
      /\ UNCHANGED wake \/ wake' = [wake EXCEPT ![p] = FALSE]
  <2>1. CASE EndDrain(p)
    BY <2>1, RowTypes DEF EndDrain, ReleaseDrainLock
  <2>2. CASE Start(p) \/ PollDrain(p) \/ NotifyDrain(p)
    <3>1. PICK owner \in {"startup", "poll", "notify"} : TakeDrainLock(p, owner)
      BY <2>2 DEF Start, PollDrain, NotifyDrain
    <3>2. /\ [owner |-> owner, left |-> BatchSize] \in DrainState
          /\ BatchSize > 0
      BY PipelineAssumption DEF DrainState
    <3>3. drain' = [drain EXCEPT ![p] = [owner |-> owner, left |-> BatchSize]]
      BY <3>1 DEF TakeDrainLock
    <3>. QED
      BY <2>2, <3>2, <3>3 DEF Start, PollDrain, NotifyDrain
  <2>. QED
    BY <2>1, <2>2
<1>3. TypeOK'
  BY <1>1, <1>2 DEF IInv, TypeOK
<1>4. RowInv' /\ ReqInv' /\ OneLiveJob' /\ OutboxExplainsStatus'
  BY <1>1 DEF IInv, RowInv, ReqInv, OneLiveJob, Live, OutboxExplainsStatus
<1>5. TxInv'
  BY <1>1, <1>2 DEF IInv, TypeOK, TxInv
<1>6. CallInv'
  <2>1. \A q \in Procs : mode'[q] = "stopping" <=> mode[q] = "stopping"
    BY <1>2 DEF IInv, TypeOK
  <2>. QED
    BY <1>1, <2>1, FaultsOnlyAdd DEF IInv, TypeOK
<1>. QED
  BY <1>3, <1>4, <1>5, <1>6 DEF IInv

\* A claim finds its job due and unlocked, and counts the attempt.
LEMMA ClaimStep ==
  ASSUME IInv, NEW p \in Procs, Claim(p)
  PROVE  IInv'
<1>1. PICK j \in JobIds :
        /\ Claimable(j)
        /\ tx' = [tx EXCEPT ![p] =
                    [pc |-> "claimed", job |-> j,
                     row |-> [jobs[j] EXCEPT !.status = "IN_PROGRESS",
                                             !.attempts = @ + 1]]]
  BY DEF Claim
<1>2. /\ UNCHANGED <<status, jobs, mode, wake, drain, req, faults, calls>>
      /\ tx[p].pc = "none" /\ drain[p].left > 0 /\ mode[p] # "stopping"
      /\ jobs[j].status = "PENDING" /\ ~JobLocked(j)
  BY <1>1 DEF Claim, MayClaim, Claimable, Runnable
<1>3. jobs[j] \in JobRow /\ jobs[j].item \in Items /\ jobs[j].attempts < MaxRetries
  BY <1>2 DEF IInv, TypeOK, RowInv
<1>4. TypeOK'
  <2>1. [jobs[j] EXCEPT !.status = "IN_PROGRESS", !.attempts = @ + 1] \in JobRow
    <3>1. jobs[j].attempts + 1 \in 0 .. MaxRetries
      BY <1>3, PipelineAssumption DEF JobRow
    <3>. QED
      BY <1>3, <3>1 DEF JobRow
  <2>. QED
    BY <1>1, <1>2, <2>1 DEF IInv, TypeOK, TxState
<1>5. RowInv' /\ ReqInv' /\ OneLiveJob' /\ OutboxExplainsStatus'
  BY <1>2 DEF IInv, RowInv, ReqInv, OneLiveJob, Live, OutboxExplainsStatus
<1>6. TxInv'
  BY <1>1, <1>2, <1>3 DEF IInv, TypeOK, TxInv, JobLocked, JobRow
<1>7. CallInv'
  <2>1. calls[j] <= jobs[j].attempts + faults
    BY <1>2 DEF IInv, CallInv
  <2>2. \A q \in Procs : q # p => tx'[q] = tx[q] /\ Charge(q)' = Charge(q)
    BY <1>1, <1>2 DEF Charge, IInv, TypeOK
  <2>3. Charge(p)' = 0 /\ tx'[p].job = j
    BY <1>1, <1>2 DEF Charge, IInv, TypeOK
  <2>4. jobs[j].attempts \in Int /\ faults \in Int /\ calls[j] \in Int
    BY <1>3 DEF IInv, TypeOK, JobRow
  <2>5. \A k \in JobIds : ~JobLocked(k)' => ~JobLocked(k)
    BY <1>2, <2>2 DEF JobLocked
  <2>. QED
    <3>1. \A q \in Procs : tx'[q].pc # "none" =>
            calls[tx'[q].job] <= jobs[tx'[q].job].attempts + faults + Charge(q)'
      <4>1. TAKE q \in Procs
      <4>2. CASE q = p
        BY <2>1, <2>3, <2>4, <4>2
      <4>3. CASE q # p
        BY <2>2, <4>3 DEF IInv, CallInv
      <4>. QED
        BY <4>2, <4>3
    <3>. QED
      BY <1>2, <2>5, <3>1 DEF IInv, CallInv
<1>. QED
  BY <1>4, <1>5, <1>6, <1>7 DEF IInv

\* The item of a claimed job is always ENRICHING: the provider is called.
LEMMA LockJobItemStep ==
  ASSUME IInv, NEW p \in Procs, LockJobItem(p)
  PROVE  IInv'
<1> DEFINE j == tx[p].job
<1>1. tx[p].pc = "claimed" /\ status[tx[p].row.item] = "ENRICHING" /\ j \in JobIds
  BY HeldJob DEF LockJobItem
<1>2. /\ tx' = [tx EXCEPT ![p].pc = "calling"]
      /\ calls' = [calls EXCEPT ![j] = @ + 1]
      /\ UNCHANGED <<status, jobs, mode, wake, drain, req, faults>>
  BY <1>1 DEF LockJobItem
<1>3. \A q \in Procs : q # p /\ tx[q].pc # "none" => tx[q].job # j
  BY <1>1, HeldJob
<1> HIDE DEF j
<1>4. TypeOK'
  BY <1>1, <1>2 DEF IInv, TypeOK, TxState
<1>5. RowInv' /\ ReqInv' /\ OneLiveJob' /\ OutboxExplainsStatus'
  BY <1>2 DEF IInv, RowInv, ReqInv, OneLiveJob, Live, OutboxExplainsStatus
<1>6. TxInv'
  BY <1>1, <1>2 DEF IInv, TypeOK, TxInv, TxState
<1>7. CallInv'
  <2>1. \A q \in Procs : q # p => tx'[q] = tx[q] /\ Charge(q)' = Charge(q)
    BY <1>2 DEF Charge, IInv, TypeOK
  <2>2. /\ tx'[p].pc = "calling" /\ tx'[p].job = j
        /\ Charge(p) \in Int /\ Charge(p)' = Charge(p) + 1
    BY <1>1, <1>2 DEF j, Charge, IInv, TypeOK, TxState
  <2>3. \A k \in JobIds : calls[k] \in Int /\ jobs[k].attempts \in Int /\ faults \in Int
    BY DEF IInv, TypeOK, JobRow
  <2>4. calls[j] <= jobs[j].attempts + faults + Charge(p)
    BY <1>1 DEF j, IInv, CallInv
  <2>5. \A k \in JobIds : JobLocked(k)' <=> JobLocked(k)
    BY <1>1, <1>2, <2>1, <2>2 DEF j, JobLocked
  <2>6. JobLocked(j)
    BY <1>1 DEF j, JobLocked
  <2>7. \A k \in JobIds : k # j => calls'[k] = calls[k]
    BY <1>2 DEF IInv, TypeOK
  <2>8. calls'[j] = calls[j] + 1
    BY <1>1, <1>2 DEF IInv, TypeOK
  <2>9. \A q \in Procs : tx'[q].pc # "none" =>
          calls'[tx'[q].job] <= jobs'[tx'[q].job].attempts + faults' + Charge(q)'
    <3>1. TAKE q \in Procs
    <3>2. CASE q = p
      BY <1>1, <1>2, <2>2, <2>3, <2>4, <2>8, <3>2
    <3>3. CASE q # p
      BY <1>2, <1>3, <2>1, <2>7, <3>3 DEF IInv, TxInv, CallInv
    <3>. QED
      BY <3>2, <3>3
  <2>. QED
    BY <1>2, <2>5, <2>6, <2>7, <2>9 DEF IInv, CallInv
<1>. QED
  BY <1>4, <1>5, <1>6, <1>7 DEF IInv

LEMMA EnrichedStep ==
  ASSUME IInv, NEW p \in Procs, Enriched(p)
  PROVE  IInv'
<1>1. /\ tx[p].pc # "none"
      /\ status' = [status EXCEPT ![tx[p].row.item] = "READY_TO_CONFIRM"]
      /\ CommitTx(p, NoRow)
      /\ calls' = [calls EXCEPT ![tx[p].job] = 0]
      /\ UNCHANGED <<mode, wake, req, faults>>
  BY DEF Enriched, CompleteJob
<1>2. NoRow \in JobRow /\ NoRow.attempts = 0
  BY RowTypes DEF NoRow
<1>3. /\ jobs' \in [JobIds -> JobRow]
      /\ tx' \in [Procs -> TxState]
      /\ drain' \in [Procs -> DrainState]
      /\ TxInv'
      /\ CallInv'
  <2>1. /\ calls' \in [JobIds -> Nat]
        /\ \A k \in JobIds : k # tx[p].job => calls'[k] = calls[k]
        /\ calls'[tx[p].job] = 0
    BY <1>1, HeldJob DEF IInv, TypeOK
  <2>2. 0 <= NoRow.attempts + faults
    BY <1>2 DEF IInv, TypeOK
  <2>. QED
    BY <1>1, <1>2, <2>1, <2>2, TxCommits
<1>4. RowInv' /\ ReqInv' /\ OneLiveJob' /\ OutboxExplainsStatus'
  BY <1>1, <1>2, RoundEnds
<1>5. TypeOK'
  BY <1>1, <1>3 DEF IInv, TypeOK, ItemStatus
<1>. QED
  BY <1>3, <1>4, <1>5 DEF IInv

\* The last attempt has just been counted: the dead job's counter is
\* MaxRetries exactly, since a PENDING row is below it.
LEMMA GiveUpStep ==
  ASSUME IInv, NEW p \in Procs, GiveUp(p)
  PROVE  IInv'
<1> DEFINE row == [tx[p].row EXCEPT !.status = "DEAD"]
<1>1. /\ tx[p].pc = "calling"
      /\ tx[p].row.attempts >= MaxRetries
      /\ status' = [status EXCEPT ![tx[p].row.item] = "FAILED"]
      /\ CommitTx(p, row)
      /\ UNCHANGED <<mode, wake, req, faults, calls>>
  BY DEF GiveUp, LastAttempt
<1>2. /\ row \in JobRow
      /\ row.status = "DEAD"
      /\ row.item = tx[p].row.item
      /\ row.attempts = tx[p].row.attempts
  BY <1>1, HeldJob DEF JobRow
<1>3. row.attempts = MaxRetries
  BY <1>1, <1>2, PipelineAssumption DEF JobRow
<1>4. calls[tx[p].job] <= row.attempts + faults
  BY <1>1, <1>2, AttemptPaysForCall
<1> HIDE DEF row
<1>5. /\ jobs' \in [JobIds -> JobRow]
      /\ tx' \in [Procs -> TxState]
      /\ drain' \in [Procs -> DrainState]
      /\ TxInv'
      /\ CallInv'
  BY <1>1, <1>2, <1>4, TxCommits DEF IInv, TypeOK
<1>6. RowInv' /\ ReqInv' /\ OneLiveJob' /\ OutboxExplainsStatus'
  BY <1>1, <1>2, <1>3, RoundEnds DEF row
<1>7. TypeOK'
  BY <1>1, <1>5 DEF IInv, TypeOK, ItemStatus
<1>. QED
  BY <1>5, <1>6, <1>7 DEF IInv

LEMMA RetryLaterStep ==
  ASSUME IInv, NEW p \in Procs, RetryLater(p)
  PROVE  IInv'
<1> DEFINE i == tx[p].row.item
           j == tx[p].job
           row == [tx[p].row EXCEPT !.status = "PENDING",
                                    !.backoff = BackoffFor(tx[p].row.attempts)]
<1>1. /\ tx[p].pc = "calling"
      /\ ~(tx[p].row.attempts >= MaxRetries)
      /\ CommitTx(p, row)
      /\ UNCHANGED <<status, mode, wake, req, faults, calls>>
  BY DEF RetryLater, LastAttempt
<1>2. /\ tx[p].row \in JobRow
      /\ i \in Items /\ j \in JobIds
      /\ jobs[j].status = "PENDING" /\ jobs[j].item = i
  BY <1>1, HeldJob
<1>3. /\ row \in JobRow
      /\ row.status = "PENDING"
      /\ row.item = i
      /\ row.attempts = tx[p].row.attempts
      /\ row.attempts < MaxRetries
  <2>1. /\ BackoffFor(tx[p].row.attempts) \in Nat
        /\ tx[p].row.attempts < MaxRetries
    BY <1>1, <1>2, RowTypes, PipelineAssumption DEF JobRow
  <2>. QED
    BY <1>2, <2>1 DEF JobRow
<1>4. calls[j] <= row.attempts + faults
  BY <1>1, <1>3, AttemptPaysForCall
<1>5. jobs' = [jobs EXCEPT ![j] = row]
  BY <1>1 DEF CommitTx
<1> HIDE DEF row
<1>6. /\ jobs' \in [JobIds -> JobRow]
      /\ tx' \in [Procs -> TxState]
      /\ drain' \in [Procs -> DrainState]
      /\ TxInv'
      /\ CallInv'
  BY <1>1, <1>3, <1>4, TxCommits DEF IInv, TypeOK
<1> HIDE DEF i, j
<1>7. RowInv'
  BY <1>2, <1>3, <1>5 DEF IInv, TypeOK, RowInv
<1>8. ReqInv'
  BY <1>1, <1>2, <1>5 DEF IInv, TypeOK, ReqInv
<1>9. OneLiveJob'
  BY <1>1, <1>2, <1>3, <1>5 DEF IInv, TypeOK, OneLiveJob, Live
<1>10. OutboxExplainsStatus'
  BY <1>1, <1>2, <1>3, <1>5 DEF IInv, TypeOK, OutboxExplainsStatus
<1>11. TypeOK'
  BY <1>1, <1>6 DEF IInv, TypeOK
<1>. QED
  BY <1>6, <1>7, <1>8, <1>9, <1>10, <1>11 DEF IInv

-----------------------------------------------------------------------------
(* Time, leases and faults.                                                *)

LEMMA BackoffElapsesStep ==
  ASSUME IInv, NEW j \in JobIds, BackoffElapses(j)
  PROVE  IInv'
<1>1. /\ jobs[j].status = "PENDING"
      /\ jobs' = [jobs EXCEPT ![j].backoff = 0]
      /\ UNCHANGED <<status, mode, wake, drain, tx, req, faults, calls>>
  BY DEF BackoffElapses
<1>2. \A k \in JobIds : /\ jobs'[k].status = jobs[k].status
                        /\ jobs'[k].item = jobs[k].item
                        /\ jobs'[k].attempts = jobs[k].attempts
                        /\ jobs'[k].status = "NONE" => jobs'[k] = jobs[k]
  BY <1>1 DEF IInv, TypeOK, JobRow
<1>3. TypeOK'
  BY <1>1 DEF IInv, TypeOK, JobRow
<1>4. RowInv'
  BY <1>1, <1>2 DEF IInv, RowInv
<1>5. TxInv'
  BY <1>1, <1>2 DEF IInv, TxInv
<1>6. ReqInv'
  BY <1>1, <1>2 DEF IInv, ReqInv
<1>7. OneLiveJob' /\ OutboxExplainsStatus'
  BY <1>1, <1>2 DEF IInv, OneLiveJob, Live, OutboxExplainsStatus
<1>8. CallInv'
  <2>1. \A p \in Procs : Charge(p)' = Charge(p)
    BY <1>1 DEF Charge
  <2>2. \A k \in JobIds : JobLocked(k)' <=> JobLocked(k)
    BY <1>1 DEF JobLocked
  <2>. QED
    BY <1>1, <1>2, <2>1, <2>2 DEF IInv, TxInv, CallInv
<1>. QED
  BY <1>3, <1>4, <1>5, <1>6, <1>7, <1>8 DEF IInv

\* A lease is written and cleared in one transaction, so no committed row
\* ever has one to expire.
LEMMA ReclaimStep ==
  ASSUME IInv, NEW p \in Procs, Reclaim(p)
  PROVE  UNCHANGED vars
<1>1. PICK expired \in SUBSET {j \in JobIds : jobs[j].status = "IN_PROGRESS"} :
        /\ jobs' = [j \in JobIds |->
                      IF j \in expired THEN [jobs[j] EXCEPT !.status = "PENDING"]
                                       ELSE jobs[j]]
        /\ wake' = [wake EXCEPT ![p] = @ \/ expired # {}]
  BY DEF Reclaim
<1>2. expired = {}
  BY DEF IInv, RowInv
<1>3. jobs' = jobs
  BY <1>1, <1>2 DEF IInv, TypeOK
<1>4. wake' = wake
  <2>1. wake \in [Procs -> BOOLEAN]
    BY DEF IInv, TypeOK
  <2>2. wake' = [wake EXCEPT ![p] = wake[p]]
    BY <1>1, <1>2, <2>1, Zenon
  <2>. QED
    BY <2>1, <2>2
<1>. QED
  BY <1>3, <1>4 DEF Reclaim, vars

\* A fault pays for the call whose attempt it rolls back.
LEMMA TxAborts ==
  ASSUME IInv, NEW p \in Procs, AbortTx(p), UNCHANGED <<jobs, calls>>,
         faults' \in Int, faults' >= faults,
         tx[p].pc # "none" => faults' >= faults + Charge(p),
         \A q \in Procs : q # p => mode'[q] = mode[q]
  PROVE  /\ tx' \in [Procs -> TxState]
         /\ drain' \in [Procs -> DrainState]
         /\ TxInv'
         /\ CallInv'
<1>1. tx' = [tx EXCEPT ![p] = NoTx] /\ drain' = [drain EXCEPT ![p] = NoDrain]
  BY DEF AbortTx, ReleaseDrainLock
<1>2. tx' \in [Procs -> TxState] /\ drain' \in [Procs -> DrainState]
  BY <1>1, RowTypes DEF IInv, TypeOK
<1>3. TxInv'
  BY <1>1 DEF IInv, TypeOK, TxInv, NoTx
<1>4. CallInv'
  <2>1. \A q \in Procs : q # p => tx'[q] = tx[q] /\ Charge(q)' = Charge(q)
    BY <1>1 DEF IInv, TypeOK, Charge
  <2>2. tx'[p].pc = "none"
    BY <1>1 DEF IInv, TypeOK, NoTx
  <2>3. \A k \in JobIds : calls[k] \in Int /\ jobs[k].attempts \in Int
    BY DEF IInv, TypeOK, JobRow
  <2>4. \A q \in Procs : tx[q].pc # "none" =>
          /\ tx[q].job \in JobIds
          /\ Charge(q) \in Int
          /\ calls[tx[q].job] <= jobs[tx[q].job].attempts + faults + Charge(q)
    BY DEF IInv, TxInv, CallInv, Charge
  <2>5. \A q \in Procs : tx'[q].pc # "none" =>
          calls'[tx'[q].job] <= jobs'[tx'[q].job].attempts + faults' + Charge(q)'
    BY <2>1, <2>2, <2>3, <2>4 DEF IInv, TypeOK
  <2>6. ASSUME NEW k \in JobIds, ~JobLocked(k)'
        PROVE  calls'[k] <= jobs'[k].attempts + faults'
    <3>1. CASE ~JobLocked(k)
      BY <2>3, <3>1 DEF IInv, TypeOK, CallInv
    <3>2. CASE JobLocked(k)
      <4>1. tx[p].pc # "none" /\ tx[p].job = k
        BY <2>1, <2>6, <3>2 DEF JobLocked
      <4>. QED
        BY <2>3, <2>4, <4>1 DEF IInv, TypeOK
    <3>. QED
      BY <3>1, <3>2
  <2>. QED
    BY <2>5, <2>6 DEF CallInv
<1>. QED
  BY <1>2, <1>3, <1>4

LEMMA LoseTxStep ==
  ASSUME IInv, NEW p \in Procs, LoseTx(p)
  PROVE  IInv'
<1>1. /\ AbortTx(p)
      /\ faults' = faults + 1 /\ faults' \in 0 .. MaxFaults
      /\ mode' = [mode EXCEPT ![p] = IF @ = "starting" THEN "down" ELSE @]
      /\ UNCHANGED <<status, jobs, wake, req, calls>>
  BY PipelineAssumption DEF LoseTx, Fault, IInv, TypeOK
<1>2. /\ tx' \in [Procs -> TxState]
      /\ drain' \in [Procs -> DrainState]
      /\ TxInv'
      /\ CallInv'
  <2>1. Charge(p) \in Int /\ Charge(p) <= 1
    BY DEF Charge
  <2>2. faults' \in Int /\ faults' >= faults /\ faults' >= faults + Charge(p)
    BY <1>1, <2>1 DEF IInv, TypeOK
  <2>3. \A q \in Procs : q # p => mode'[q] = mode[q]
    BY <1>1 DEF IInv, TypeOK
  <2>. QED
    BY <1>1, <2>2, <2>3, TxAborts
<1>3. TypeOK'
  BY <1>1, <1>2 DEF IInv, TypeOK
<1>4. RowInv' /\ ReqInv' /\ OneLiveJob' /\ OutboxExplainsStatus'
  BY <1>1 DEF IInv, RowInv, ReqInv, OneLiveJob, Live, OutboxExplainsStatus
<1>. QED
  BY <1>2, <1>3, <1>4 DEF IInv

LEMMA StopStep ==
  ASSUME IInv, NEW p \in Procs, Stop(p)
  PROVE  IInv'
<1>1. /\ faults' = faults + 1 /\ faults' \in 0 .. MaxFaults
      /\ mode[p] = "running"
      /\ mode' = [mode EXCEPT ![p] = "stopping"]
      /\ UNCHANGED <<status, jobs, wake, req, calls>>
  BY PipelineAssumption DEF Stop, Fault, IInv, TypeOK
<1>2. \A q \in Procs : q # p => mode'[q] = mode[q]
  BY <1>1 DEF IInv, TypeOK
<1>3. /\ tx' \in [Procs -> TxState]
      /\ drain' \in [Procs -> DrainState]
      /\ TxInv'
      /\ CallInv'
  <2>1. CASE AbortTx(p)
    <3>1. Charge(p) \in Int /\ Charge(p) <= 1
      BY DEF Charge
    <3>2. faults' \in Int /\ faults' >= faults /\ faults' >= faults + Charge(p)
      BY <1>1, <3>1 DEF IInv, TypeOK
    <3>. QED
      BY <1>1, <1>2, <2>1, <3>2, TxAborts
  <2>2. CASE UNCHANGED <<tx, drain>>
    <3>1. CallInv'
      <4>1. \A q \in Procs : Charge(q) \in Int /\ Charge(q)' \in {Charge(q), Charge(q) - 1}
        BY <1>1, <1>2, <2>2 DEF IInv, TypeOK, Charge
      <4>2. \A k \in JobIds : calls[k] \in Int /\ jobs[k].attempts \in Int /\ faults \in Int
        BY DEF IInv, TypeOK, JobRow
      <4>3. \A k \in JobIds : JobLocked(k)' <=> JobLocked(k)
        BY <2>2 DEF JobLocked
      <4>. QED
        BY <1>1, <2>2, <4>1, <4>2, <4>3 DEF IInv, TxInv, CallInv
    <3>. QED
      BY <1>1, <2>2, <3>1 DEF IInv, TypeOK, TxInv
  <2>. QED
    BY <2>1, <2>2 DEF Stop
<1>4. TypeOK'
  BY <1>1, <1>3 DEF IInv, TypeOK
<1>5. RowInv' /\ ReqInv' /\ OneLiveJob' /\ OutboxExplainsStatus'
  BY <1>1 DEF IInv, RowInv, ReqInv, OneLiveJob, Live, OutboxExplainsStatus
<1>. QED
  BY <1>3, <1>4, <1>5 DEF IInv

\* A stopping worker's last call was charged to its stop already.
LEMMA DieStep ==
  ASSUME IInv, NEW p \in Procs, Exit(p) \/ Crash(p)
  PROVE  IInv'
<1>1. /\ AbortTx(p)
      /\ mode' = [mode EXCEPT ![p] = "down"]
      /\ wake' = [wake EXCEPT ![p] = FALSE]
      /\ req' = [r \in Requests |-> IF req[r].proc = p THEN NoRequest ELSE req[r]]
      /\ UNCHANGED <<status, jobs, calls>>
  BY DEF Exit, Crash, Die
<1>2. /\ faults' \in 0 .. MaxFaults
      /\ faults' = faults + 1 \/ (mode[p] = "stopping" /\ faults' = faults)
  BY PipelineAssumption DEF Exit, Crash, Fault, IInv, TypeOK
<1>3. /\ tx' \in [Procs -> TxState]
      /\ drain' \in [Procs -> DrainState]
      /\ TxInv'
      /\ CallInv'
  <2>1. Charge(p) \in Int /\ Charge(p) <= 1 /\ (mode[p] = "stopping" => Charge(p) <= 0)
    BY DEF Charge
  <2>2. faults' \in Int /\ faults' >= faults /\ faults' >= faults + Charge(p)
    BY <1>2, <2>1 DEF IInv, TypeOK
  <2>3. \A q \in Procs : q # p => mode'[q] = mode[q]
    BY <1>1 DEF IInv, TypeOK
  <2>. QED
    BY <1>1, <2>2, <2>3, TxAborts
<1>4. TypeOK'
  BY <1>1, <1>2, <1>3, RowTypes DEF IInv, TypeOK
<1>5. RowInv' /\ OneLiveJob' /\ OutboxExplainsStatus'
  BY <1>1 DEF IInv, RowInv, OneLiveJob, Live, OutboxExplainsStatus
<1>6. ReqInv'
  <2>1. \A r \in Requests : req'[r] = NoRequest \/ req'[r] = req[r]
    BY <1>1
  <2>. QED
    BY <1>1, <2>1, PipelineAssumption DEF IInv, ReqInv, NoRequest
<1>. QED
  BY <1>3, <1>4, <1>5, <1>6 DEF IInv

-----------------------------------------------------------------------------
(* The inductive invariant and what follows from it.                       *)

LEMMA InitEstablishes == Init => IInv
<1> SUFFICES ASSUME Init PROVE IInv
  OBVIOUS
<1>1. TypeOK
  BY RowTypes, PipelineAssumption DEF Init, TypeOK
<1>2. RowInv /\ TxInv /\ ReqInv
  BY PipelineAssumption DEF Init, RowInv, TxInv, ReqInv, NoRow, NoTx, NoRequest
<1>3. OneLiveJob /\ OutboxExplainsStatus
  BY DEF Init, OneLiveJob, Live, OutboxExplainsStatus, NoRow
<1>4. CallInv
  BY DEF Init, CallInv, JobLocked, NoRow, NoTx
<1>. QED
  BY <1>1, <1>2, <1>3, <1>4 DEF IInv

LEMMA RequestPreserves ==
  ASSUME IInv, NEW r \in Requests, NewRequest(r) \/ RequestStep(r) \/ Rollback(r)
  PROVE  IInv'
<1>1. CASE NewRequest(r)
  <2>1. PICK p \in Procs, i \in Items :
          \/ CreateItem(r, p, i) \/ SaveDirectly(r, p, i)
          \/ \E op \in UserActions : LockItem(r, p, i, op)
    BY <1>1 DEF NewRequest
  <2>. QED
    BY <2>1, CreateItemStep, SaveDirectlyStep, LockItemStep
<1>2. CASE ConfirmOrEdit(r) \/ BeginDiscard(r) \/ Discard(r)
  BY <1>2, ConfirmOrEditStep, BeginDiscardStep, DiscardStep
<1>3. CASE RequeueJob(r) \/ CommitJob(r) \/ Reject(r) \/ Rollback(r)
  BY <1>3, RequeueJobStep, CommitJobStep, EndRequestStep
<1>. QED
  BY <1>1, <1>2, <1>3 DEF RequestStep

LEMMA ProcessPreserves ==
  ASSUME IInv, NEW p \in Procs, ProcessStep(p)
  PROVE  IInv' \/ UNCHANGED vars
<1>1. CASE Start(p) \/ PollDrain(p) \/ NotifyDrain(p) \/ EndDrain(p)
  BY <1>1, DrainStep
<1>2. CASE Claim(p) \/ LockJobItem(p)
  BY <1>2, ClaimStep, LockJobItemStep
<1>3. CASE Outcome(p)
  BY <1>3, EnrichedStep, RetryLaterStep, GiveUpStep DEF Outcome
<1>4. CASE Reclaim(p)
  BY <1>4, ReclaimStep
<1>5. CASE LoseTx(p) \/ Stop(p) \/ Exit(p) \/ Crash(p)
  BY <1>5, LoseTxStep, StopStep, DieStep
<1>. QED
  BY <1>1, <1>2, <1>3, <1>4, <1>5 DEF ProcessStep, WorkerStep

LEMMA StutterPreserves == ASSUME IInv, UNCHANGED vars PROVE IInv'
<1>1. TypeOK' /\ RowInv' /\ TxInv' /\ ReqInv'
  BY DEF vars, IInv, TypeOK, RowInv, TxInv, ReqInv
<1>2. OneLiveJob' /\ OutboxExplainsStatus'
  BY DEF vars, IInv, OneLiveJob, Live, OutboxExplainsStatus
<1>3. CallInv'
  BY DEF vars, IInv, CallInv, Charge, JobLocked
<1>. QED
  BY <1>1, <1>2, <1>3 DEF IInv

LEMMA NextPreserves == IInv /\ [Next]_vars => IInv'
<1> SUFFICES ASSUME IInv, [Next]_vars PROVE IInv'
  OBVIOUS
<1>1. ASSUME NEW r \in Requests, NewRequest(r) \/ RequestStep(r) \/ Rollback(r)
      PROVE  IInv'
  BY <1>1, RequestPreserves
<1>2. ASSUME NEW p \in Procs, ProcessStep(p) PROVE IInv'
  BY <1>2, ProcessPreserves, StutterPreserves
<1>3. ASSUME NEW j \in JobIds, BackoffElapses(j) PROVE IInv'
  BY <1>3, BackoffElapsesStep
<1>4. CASE UNCHANGED vars
  BY <1>4, StutterPreserves
<1>. QED
  BY <1>1, <1>2, <1>3, <1>4 DEF Next

\* The strengthened invariant holds in every reachable state.
THEOREM Invariance == Spec => []IInv
  BY InitEstablishes, NextPreserves, PTL DEF Spec

\* Every variable keeps its type, the attempt counter its bound and the drain
\* its budget.
THEOREM TypeCorrect == Spec => []TypeOK
<1>1. IInv => TypeOK
  BY DEF IInv
<1>. QED
  BY Invariance, <1>1, PTL

\* The items being enriched are those with a live job in the outbox, and each
\* has exactly one: no item is stranded in ENRICHING, no job is enriched for
\* an item that has moved on.
THEOREM LiveJobs == Spec => []OneLiveJob
<1>1. IInv => OneLiveJob
  BY DEF IInv
<1>. QED
  BY Invariance, <1>1, PTL

\* A worker that waits for an item's row and a discard that waits for the
\* item's job rows never meet: the worker's item is ENRICHING, the discard's
\* is in a state that allows discard.
THEOREM NoDeadlock == Spec => []NoLockCycle
<1>1. IInv => NoLockCycle
  <2> SUFFICES ASSUME IInv, NEW p \in Procs, NEW r \in Requests,
                      tx[p].pc = "claimed", req[r].pc = "deleting",
                      tx[p].row.item = req[r].item
               PROVE  FALSE
    BY DEF NoLockCycle
  <2>1. status[req[r].item] = "ENRICHING"
    BY HeldJob
  <2>2. CanTransition(status[req[r].item], "discard")
    BY DEF IInv, ReqInv
  <2>. QED
    BY <2>1, <2>2, TransitionTable DEF ItemStatus, UserActions
<1>. QED
  BY Invariance, <1>1, PTL

\* At most one worker of all processes enriches an item at a time.
THEOREM OneEnricher == Spec => []OneEnricherPerItem
<1>1. IInv => OneEnricherPerItem
  BY HeldJob DEF OneEnricherPerItem
<1>. QED
  BY Invariance, <1>1, PTL

\* A FAILED item has a dead job with all attempts used up; a discarded item
\* has no job left.
THEOREM OutboxExplains == Spec => []OutboxExplainsStatus
<1>1. IInv => OutboxExplainsStatus
  BY DEF IInv
<1>. QED
  BY Invariance, <1>1, PTL

\* A job costs at most MaxRetries provider calls and one more per fault.
THEOREM CallsBounded == Spec => []CallsAccountedFor
<1>1. IInv => CallsAccountedFor
  <2> SUFFICES ASSUME IInv, NEW j \in JobIds PROVE calls[j] <= MaxRetries + faults
    BY DEF CallsAccountedFor
  <2>1. /\ calls[j] \in Int /\ jobs[j].attempts \in Int /\ faults \in Int
        /\ jobs[j].attempts <= MaxRetries
    BY PipelineAssumption DEF IInv, TypeOK, JobRow
  <2>2. CASE ~JobLocked(j)
    BY <2>1, <2>2, PipelineAssumption DEF IInv, CallInv
  <2>3. CASE JobLocked(j)
    <3>1. PICK p \in Procs : tx[p].pc # "none" /\ tx[p].job = j
      BY <2>3 DEF JobLocked
    <3>2. calls[j] <= jobs[j].attempts + faults + Charge(p)
      BY <3>1 DEF IInv, CallInv
    <3>3. jobs[j].attempts < MaxRetries
      BY <3>1, HeldJob DEF IInv, RowInv
    <3>4. Charge(p) \in Int /\ Charge(p) <= 1
      BY DEF Charge
    <3>. QED
      BY <2>1, <3>2, <3>3, <3>4, PipelineAssumption
  <2>. QED
    BY <2>2, <2>3
<1>. QED
  BY Invariance, <1>1, PTL

\* The lease of a job never shows in a committed row, so reclaiming expired
\* leases changes nothing: recovery from a crash is PostgreSQL's rollback.
THEOREM ReclaimIsIdle == Spec => [][\A p \in Procs : Reclaim(p) => UNCHANGED vars]_vars
<1>1. IInv => \A p \in Procs : Reclaim(p) => UNCHANGED vars
  BY ReclaimStep
<1>. QED
  BY Invariance, <1>1, PTL

=============================================================================

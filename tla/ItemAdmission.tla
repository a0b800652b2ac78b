--------------------------- MODULE ItemAdmission ----------------------------
(***************************************************************************)
(* Admission of the items of one user: POST /items with its idempotency    *)
(* key, concurrency limit and daily AI quota, as database transactions     *)
(* (PostgreSQL, READ COMMITTED) that interleave with each other, with the  *)
(* enrichment worker, with the user's other actions and with midnight.     *)
(*                                                                         *)
(* All rows below are scoped to the user, so users do not interact.  A     *)
(* request's own writes live in `req' until its commit.  It waits at two   *)
(* places: the upsert of the day's usage row and the insertion into the    *)
(* unique index of the keys.  What happens to admitted items in detail is  *)
(* EnrichmentPipeline's subject; here they only move along the same table. *)
(***************************************************************************)
EXTENDS Integers, FiniteSets, ItemStates

CONSTANTS
  Items,              \* ids that items may get
  Keys,               \* values of the Idempotency-Key header
  Requests,           \* requests that can be in progress at a time
  DailyLimit,         \* QuotaService.get_daily_limit of the user's plan
  ConcurrencyLimit,   \* QuotaService.get_concurrency_limit
  MaxDay,             \* bound: days
  NoKey, NoItem

ASSUME AdmissionAssumption ==
  /\ IsFiniteSet(Items)
  /\ IsFiniteSet(Requests)
  /\ DailyLimit \in Nat \ {0}
  /\ ConcurrencyLimit \in Nat \ {0}
  /\ MaxDay \in Nat \ {0}
  /\ NoKey \notin Keys
  /\ NoItem \notin Items

VARIABLES
  today,      \* the UTC day
  status,     \* items.status of each committed item, or "ABSENT"
  charged,    \* for an item created with enrichment its day of creation, or 0
  usage,      \* ai_daily_usage.enrichment_count of each day
  keys,       \* the row of idempotency_keys of each key
  req,        \* the requests in progress
  keyOf,      \* history: the key each item was created under
  retried     \* history: items that POST /items/:id/retry has put back

vars == <<today, status, charged, usage, keys, req, keyOf, retried>>

Days == 1 .. MaxDay

KeyRow == [item : Items \cup {NoItem}, day : 0 .. MaxDay, expired : BOOLEAN]

\* A request's local state: `day' and `used' are execute's today and
\* new_usage, `item' the item it has inserted.
RequestState ==
  [ pc     : {"idle", "started", "admitted", "inserted", "keyed"},
    enrich : BOOLEAN,
    key    : Keys \cup {NoKey},
    day    : 0 .. MaxDay,
    used   : 0 .. DailyLimit,
    item   : Items \cup {NoItem} ]

NoKeyRow == [item |-> NoItem, day |-> 0, expired |-> FALSE]

NoRequest ==
  [pc |-> "idle", enrich |-> FALSE, key |-> NoKey, day |-> 0, used |-> 0, item |-> NoItem]

TypeOK ==
  /\ today \in Days
  /\ status \in [Items -> ItemStatus \cup {"ABSENT"}]
  /\ charged \in [Items -> 0 .. MaxDay]
  /\ usage \in [Days -> 0 .. DailyLimit]
  /\ keys \in [Keys -> KeyRow]
  /\ req \in [Requests -> RequestState]
  /\ keyOf \in [Items -> Keys \cup {NoKey}]
  /\ retried \in SUBSET Items

Init ==
  /\ today = 1
  /\ status = [i \in Items |-> "ABSENT"]
  /\ charged = [i \in Items |-> 0]
  /\ usage = [d \in Days |-> 0]
  /\ keys = [k \in Keys |-> NoKeyRow]
  /\ req = [r \in Requests |-> NoRequest]
  /\ keyOf = [i \in Items |-> NoKey]
  /\ retried = {}

-----------------------------------------------------------------------------
(* POST /items.                                                            *)

Stored == <<today, status, charged, usage, keys, keyOf, retried>>

Finish(r) == req' = [req EXCEPT ![r] = NoRequest]

Unused(i) == status[i] = "ABSENT" /\ \A q \in Requests : req[q].item # i

\* Bound: a request is begun only if Items leaves it an id.
RoomForItem ==
  Cardinality({q \in Requests : req[q].pc # "idle"})
    < Cardinality({i \in Items : status[i] = "ABSENT"})

\* idempotency_repo.get finds no row, or one whose expires_at has passed.  (A
\* valid row is answered with its item: nothing changes.)  `today' is read
\* here, before anything the request waits for.
Begin(r, k, enrich) ==
  /\ req[r].pc = "idle"
  /\ k # NoKey => keys[k].item = NoItem \/ keys[k].expired
  /\ RoomForItem
  /\ req' = [req EXCEPT ![r] = [pc |-> "started", enrich |-> enrich, key |-> k,
                                day |-> today, used |-> 0, item |-> NoItem]]
  /\ UNCHANGED Stored

Enriching == {i \in Items : status[i] = "ENRICHING"}

\* Mutant: the limit is compared with > instead of >=.
TooActiveLate == Cardinality(Enriching) > ConcurrencyLimit

TooActive == Cardinality(Enriching) >= ConcurrencyLimit

\* count_enriching_items sees committed items only.
CountEnriching(r) ==
  /\ req[r].pc = "started" /\ req[r].enrich
  /\ IF TooActive THEN Finish(r)
                  ELSE req' = [req EXCEPT ![r].pc = "admitted"]
  /\ UNCHANGED Stored

\* Mutant: the increment does not lock the usage row.
UsageNeverLocked(d) == FALSE

\* The upsert of increment_daily_usage locks the day's row to the end of the
\* transaction, also when it inserts it.
UsageLocked(d) ==
  \E q \in Requests :
    req[q].pc \in {"inserted", "keyed"} /\ req[q].enrich /\ req[q].day = d

\* Mutant: the limit is compared one unit late.
OverQuotaLate(n) == n > DailyLimit + 1

OverQuota(n) == n > DailyLimit

\* increment_daily_usage, the quota check (an exception undoes the increment),
\* then ledger, item and job, which are fresh rows.
Charge(r) ==
  LET n == usage[req[r].day] + 1 IN
  /\ req[r].pc = "admitted"
  /\ ~UsageLocked(req[r].day)
  /\ IF OverQuota(n)
     THEN Finish(r)
     ELSE \E i \in Items :
            /\ Unused(i)
            /\ req' = [req EXCEPT ![r] = [@ EXCEPT !.pc = "inserted", !.used = n,
                                                   !.item = i]]
  /\ UNCHANGED Stored

\* Direct save: the item is inserted as ARCHIVED.
InsertDirectly(r) ==
  /\ req[r].pc = "started" /\ ~req[r].enrich
  /\ \E i \in Items :
       /\ Unused(i)
       /\ req' = [req EXCEPT ![r] = [@ EXCEPT !.pc = "inserted", !.item = i]]
  /\ UNCHANGED Stored

\* An uncommitted insertion of the key makes other insertions wait.
KeyLocked(k) == \E q \in Requests : req[q].pc = "keyed" /\ req[q].key = k

\* Mutant: an expired row gives way to a new one.
KeyTakenUntilExpiry(k) == keys[k].item # NoItem /\ ~keys[k].expired

\* The unique index does not know about expires_at.
KeyTaken(k) == keys[k].item # NoItem

MayWriteKey(r) ==
  /\ req[r].pc = "inserted" /\ req[r].key # NoKey
  /\ ~KeyLocked(req[r].key)

\* IntegrityError: everything the request wrote is undone, the answer is 500.
KeyConflict(r) ==
  /\ MayWriteKey(r)
  /\ KeyTaken(req[r].key)
  /\ Finish(r)
  /\ UNCHANGED Stored

\* Mutant: a request that meets the key in use waits until it is gone.
WriteKeyPatiently(r) ==
  /\ MayWriteKey(r)
  /\ ~KeyTaken(req[r].key)
  /\ req' = [req EXCEPT ![r].pc = "keyed"]
  /\ UNCHANGED Stored

\* idempotency_repo.create.
WriteKey(r) ==
  \/ /\ MayWriteKey(r)
     /\ ~KeyTaken(req[r].key)
     /\ req' = [req EXCEPT ![r].pc = "keyed"]
     /\ UNCHANGED Stored
  \/ KeyConflict(r)

\* get_db_session commits what the request has written.
Commit(r) ==
  LET i == req[r].item  k == req[r].key  d == req[r].day IN
  /\ \/ req[r].pc = "keyed"
     \/ req[r].pc = "inserted" /\ k = NoKey
  /\ IF req[r].enrich
     THEN /\ status' = [status EXCEPT ![i] = "ENRICHING"]
          /\ charged' = [charged EXCEPT ![i] = d]
          /\ usage' = [usage EXCEPT ![d] = req[r].used]
     ELSE /\ status' = [status EXCEPT ![i] = "ARCHIVED"]
          /\ UNCHANGED <<charged, usage>>
  /\ keys' = IF k = NoKey THEN keys
             ELSE [keys EXCEPT ![k] = [item |-> i, day |-> today, expired |-> FALSE]]
  /\ keyOf' = [keyOf EXCEPT ![i] = k]
  /\ Finish(r)
  /\ UNCHANGED <<today, retried>>

\* Any other exception, a cancelled request or a crash: rollback.
Abort(r) ==
  /\ req[r].pc # "idle"
  /\ Finish(r)
  /\ UNCHANGED Stored

-----------------------------------------------------------------------------
(* What else happens to the rows.                                          *)

\* The worker ends an enrichment round.
Settle(i) ==
  /\ status[i] = "ENRICHING"
  /\ \E s \in {"READY_TO_CONFIRM", "FAILED"} : status' = [status EXCEPT ![i] = s]
  /\ UNCHANGED <<today, charged, usage, keys, req, keyOf, retried>>

\* PATCH /items/:id and POST /items/:id/retry: no quota, no limit.
Act(i, a) ==
  /\ status[i] # "ABSENT"
  /\ CanTransition(status[i], a)
  /\ status' = [status EXCEPT ![i] = AllowedTransitions[@][a]]
  /\ retried' = IF a = "retry" THEN retried \cup {i} ELSE retried
  /\ UNCHANGED <<today, charged, usage, keys, req, keyOf>>

\* 24 hours after its creation a key is no longer looked up; its row stays.
Expire(k) ==
  /\ keys[k].item # NoItem /\ ~keys[k].expired
  /\ keys[k].day < today
  /\ keys' = [keys EXCEPT ![k].expired = TRUE]
  /\ UNCHANGED <<today, status, charged, usage, req, keyOf, retried>>

Midnight ==
  /\ today < MaxDay
  /\ today' = today + 1
  /\ UNCHANGED <<status, charged, usage, keys, req, keyOf, retried>>

-----------------------------------------------------------------------------
RequestStep(r) ==
  CountEnriching(r) \/ Charge(r) \/ InsertDirectly(r) \/ WriteKey(r) \/ Commit(r)

Next ==
  \/ \E r \in Requests :
       \/ \E k \in Keys \cup {NoKey}, enrich \in BOOLEAN : Begin(r, k, enrich)
       \/ RequestStep(r)
       \/ Abort(r)
  \/ \E i \in Items : Settle(i) \/ \E a \in UserActions : Act(i, a)
  \/ \E k \in Keys : Expire(k)
  \/ Midnight

Spec == Init /\ [][Next]_vars

\* A request takes its next step; the locks of PostgreSQL are granted in order
\* of arrival, so a request that finds the usage row or the key free again and
\* again gets it.
Fairness ==
  \A r \in Requests :
    /\ WF_vars(CountEnriching(r) \/ InsertDirectly(r) \/ Commit(r))
    /\ SF_vars(Charge(r))
    /\ SF_vars(WriteKey(r))

FairSpec == Spec /\ Fairness

-----------------------------------------------------------------------------
(* Properties.                                                             *)

ChargedOn(d) == {i \in Items : charged[i] = d}

\* The user pays for what the system has, no more and no less: each day's
\* usage is the number of items created for enrichment on that day, whichever
\* requests were refused, undone, repeated or run across midnight.
ChargesMatchItems == \A d \in Days : usage[d] = Cardinality(ChargedOn(d))

\* However often and however concurrently a client repeats a request, its key
\* stands for at most one item.
OneItemPerKey ==
  \A i, j \in Items : keyOf[i] = keyOf[j] /\ keyOf[i] # NoKey => i = j

\* The check-then-insert race on the concurrency limit is bounded: requests
\* that run together exceed it by no more than their number.
OvershootBounded ==
  Cardinality(Enriching \ retried) < ConcurrencyLimit + Cardinality(Requests)

\* Each request ends, although it waits for rows of others while it holds its
\* own.
RequestsAnswered == \A r \in Requests : (req[r].pc # "idle") ~> (req[r].pc = "idle")

\* docs/architecture/ai_rate_limiting.md:102: a repeated request returns the
\* existing item.  It never fails on a key that is still valid.
RepeatsReturnTheItem ==
  [][\A r \in Requests : KeyConflict(r) => keys[req[r].key].expired]_vars
=============================================================================

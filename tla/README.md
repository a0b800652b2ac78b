# LiteVault: a formal model

LiteVault keeps notes and articles ("items").  A user captures a text, an AI
provider proposes a title, a summary and tags, the user confirms or discards,
and confirmed items live in a library.  The repository holds a FastAPI backend
(`backend/app`), a Next.js web client (`frontend/src`) and a Kotlin
Multiplatform mobile client (`mobile/composeApp`).  This directory holds TLA+
modules translated from that code, the configurations TLC checks them with, and
theorems about them that TLAPS proves.

## 1. Inventory

Paths below `backend/app` unless another root is given.

### Backend

| Part | State it keeps | Operations | Interacts with |
|---|---|---|---|
| Item life cycle, `domain/entities/item.py` | `Item.status` | confirm, discard, edit, retry; the worker's mark_enriched and mark_failed | every use case, the worker |
| Enrichment worker, `infrastructure/enrichment/worker.py` | `running`, `_drain_lock`, poll and reclaim tasks; one transaction at a time | start, stop, trigger_drain, drain, process one job, handle a failure | outbox, items, AI provider, process life |
| Outbox, `.../outbox_repository_impl.py` | rows of `enrichment_outbox` | create (with notification), claim, complete, fail, dead, reclaim, delete by item | worker, create/update/retry |
| Item use cases, `application/items/` | rows of `items` | create (AI or direct), confirm, edit, discard, retry, get, list pending | all repositories |
| Quota and idempotency, `ai_usage_repository_impl.py`, `idempotency_repository_impl.py`, `domain/services/quota_service.py` | `ai_daily_usage`, `ai_usage_ledger`, `idempotency_keys` | charge a unit, count ENRICHING items, look up and store a key | create |
| Tags and suggestions, `tag_repository_impl.py`, `item_tag*_repository_impl.py`, `api/v1/tags.py` | `tags.usage_count`, `deleted_at`, associations, suggestions | get-or-create/revive, increment, decrement, rename, delete, accept, reject | create, confirm, edit |
| Uploads and attachments, `application/uploads/upload_service.py` | `uploads.status`, `item_attachments` | initiate, complete, delete | object storage, items |
| Library and search, `api/v1/library.py`, `api/v1/search.py` | none (queries) | cursor pages, search | items |
| Users and auth, `user_repository_impl.py`, `infrastructure/auth/clerk.py` | `users` | just-in-time upsert, profile | every request |

One database session per request: `get_db_session` commits after the handler
has returned and rolls back on any exception; the worker uses the same pattern
per job.  PostgreSQL runs at READ COMMITTED.

### Clients

Paths below `frontend/src` unless another root is given.

| Part | State it keeps | Operations | Interacts with |
|---|---|---|---|
| Note editor, `lib/hooks/useEditorState.ts`, `useEditorSave.ts`, `components/domain/editor/` | form, original form, editor state, errors, uploads, deletions | load, edit, validate, save, close, discard, attach | item endpoints; the page that opened it |
| Pending list, `lib/store/AppContext.tsx`, `components/domain/home/Pending*.tsx`, `components/shared/InsightSummaryModal.tsx` | pending items, one loading flag, polling timer, dialogs, reviews | create, confirm, discard, retry, poll every 2 s | item endpoints |
| Home box, `app/page.tsx`, `lib/hooks/useUpload.ts`, `components/domain/home/` | text, draft, tags, staged files, the save under way | type, stage, paste, drop, save, retry, remove | items, tags, uploads, object store, sign-in |
| Tag page, `app/settings/tags/page.tsx`, `lib/hooks/useTags.ts`, `components/domain/tags/` | list query, two dialogs, four mutations | create, rename, recolour, delete | tag endpoints |
| Tag picker, `components/shared/TagPicker.tsx`, `lib/hooks/useTagSearch.ts` | popover, search text, answers per query, selection | search, toggle, create | tag endpoints; the home box or the editor |
| Search, `app/search/page.tsx` | query, draft, results | search, retry, clear, suggestions | search endpoint, sign-in |
| Library, `app/library/page.tsx`, `lib/hooks/useLibrary.ts` | pages of items, fetch under way | load more, retry, refetch, patch | library endpoint, the editor |
| Attachments, `AttachmentGrid`, `AttachmentLightbox`, `DocumentPreviewDialog` in `components/shared` | addresses, tiles, lightbox, preview | list, open, navigate, preview, download | attachment endpoints |
| Account settings, `lib/hooks/useAccountProfile.ts`, `components/domain/settings/` | profile query, dialog form, saves | edit profile, pick preference | profile and preferences endpoints |
| Mobile view models, `mobile/.../feature/*` | lists, polling job, search query, detail form | the same operations, own scheduling | all endpoints |
| Mobile session, `mobile/.../data/repository/AuthRepositoryImpl.kt` | tokens | sign in, refresh, sign out | identity provider |

### What is hard, and what makes each part correct

* **Worker, outbox, items.** Several processes claim jobs, requests change the
  same items, a process may die between claim, provider call and commit.
  Correct means: no item stranded in ENRICHING, no item enriched twice at a
  time, no job left behind by a discard, no deadlock of row locks, attempts
  limited, every round ends.
* **Quota and idempotency.** Check-then-act across concurrent requests.
  Correct means: charges equal AI items, the day's limit holds, one item per
  key.
* **Tags.** Reads before writes without locks, commits after answers, rows of
  several tags locked in the order users typed them.  Correct means: a name
  exists once, a change undoes nothing its request could see, counts follow the
  links wherever nothing raced, every request ends, the table shows the tags.
* **Uploads.** Three requests per file, each of which may fail after the note is
  stored.  Correct means: a file shown as uploaded is attached, saved text is
  never lost, the box becomes usable again.
* **Library.** Pages neither skip nor repeat an item that stays; a note reported
  saved is shown with an older text only where it was read before the commit that
  follows the answer.
* **Editor.** One save at a time although typing goes on, and answers that reach
  the editor they belong to.  Text typed during a save is lost: see "Where the code
  and its documents differ".
* **Polling, search, addresses.** An older answer must not replace a newer one,
  and an answer must be kept for what it answers.

`PROJECT.json` lists the hazards at their lines.  Hazards that no module covers,
beside those listed there: completion repeated after its attachment
was deleted (`upload_service.py:225`), `sort_order`, where 0 is taken for "none"
(`item_attachment_repository_impl.py:37`), the first two requests of a new user
(`user_repository_impl.py:80`, an error answer and no loss), and overlapping
refreshes of the mobile home screen (`HomeViewModel.kt:108`).

## 2. Plan

1. `ItemStates`, `ItemLifecycle`, `EnrichmentPipeline` - the core.  **Done**, with proofs.
2. `ItemAdmission` - creating items: idempotency key, concurrency limit, daily
   quota.  **Done**, with proofs.
3. `EditorState`, `NoteEditor` - the web editor and its saves.  **Done**, with proofs.
4. `PendingReview` - the pending list against the backend whose commit follows
   its response.  **Done**, with proofs.
5. `NoteCapture` - the home box and its uploads.  **Done**, with proofs.
6. `TagManagement` - the tag page and the tag endpoints.  **Done**, with proofs.
7. `TagUsage` - usage counts and links of items to tags, as interleaved
   transactions.  **Done**, with proofs.
8. `LibraryPaging`, `AttachmentViewer`, `AccountSettings`, `TagPicker`,
   `SearchPage`, and of the mobile client `MobileDetail` and `MobileLibrary`,
   composed with `TagManagement` by `ClientPages`.  **Done**, with proofs.
9. Every invariant and action property of a passing run is now a theorem.  What
   could still be proved is listed at the end of section 5.
10. Models to come: deletion and clean-up of attachments, polling of the mobile
    home screen, the mobile session.

`EnrichmentPipeline` refines `ItemLifecycle`; `PendingReview` takes from
`ItemStates` what the backend may answer; `NoteEditor` extends the reducer
`EditorState`; `ClientPages` instantiates eight pages that share nothing but the
backend.

## 3. Modules

| Module | Role |
|---|---|
| `ItemStates` | the states of an item and the table of user actions, shared |
| `ItemLifecycle` | abstract specification: one item seen from outside |
| `EnrichmentPipeline` | detailed specification: requests, processes, workers, outbox rows, transactions |
| `EnrichmentPipelineProofs` | inductive invariant and its theorems |
| `EnrichmentRefinement` | proof that the pipeline implements the life cycle |
| `ItemAdmission` | creating one user's items: idempotency key, concurrency limit, daily quota, as interleaved transactions |
| `ItemAdmissionProofs` | inductive invariant and its theorems |
| `EditorState` | the reducer of `useEditorState`, one action per dispatch |
| `NoteEditor` | the editor at work: provider, saves, discards, the page behind it, the server |
| `NoteEditorProofs` | inductive invariants of both and their theorems |
| `PendingReview` | pending list, polling, cards and review dialogs, with late commits |
| `PendingReviewProofs` | inductive invariant and its theorem |
| `NoteCapture` | the home box: signing in, tags, staged files, the save and its uploads |
| `NoteCaptureProofs` | inductive invariant and its theorems |
| `TagManagement` | the tag page over the transactions of the tag endpoints |
| `TagUsage` | tags of notes at the backend: rows, counts, links, and the transactions that change them |
| `TagUsageProofs` | inductive invariant and its theorems |
| `TagPicker` | the popover that searches, toggles and creates tags |
| `SearchPage` | the search page, its draft and its answers |
| `LibraryPaging` | the library page over the cursor query |
| `AttachmentViewer` | a note's images and documents, and the addresses they share |
| `AccountSettings` | profile and preferences over the transactions of their endpoints |
| `MobileDetail` | the mobile detail screen: one view model for every note, and the requests it makes |
| `MobileLibrary` | the mobile library: a search that waits, requests nobody cancels |
| `ClientPages` | tag page, picker, search, library, attachments and settings of the web client, detail screen and library of the mobile one, composed: the user is on one of them |
| `ClientPagesProofs` | an inductive invariant of each of these pages, and the theorems |
| `MC...` | constants and symmetry for TLC |

### EnrichmentPipeline and the code

| Variable | Code |
|---|---|
| `status[i]` | committed `items.status`; `"ABSENT"` before creation |
| `jobs[j]` | committed rows of `enrichment_outbox` in `created_at` order: item, status, `attempt_count`, whether `run_at` has passed |
| `mode[p]` | life of a backend process: lifespan startup, serving, `worker.stop`, gone |
| `wake[p]` | a task made by `trigger_drain` waits for `_drain_lock` (several tasks coalesce: all but one find the queue as the first left it or drain it further, which the remaining actions allow) |
| `drain[p]` | who holds `_drain_lock`, and the iterations left of the batch |
| `tx[p]` | the worker's transaction in `_process_one_job`: the claimed row as it will be written |
| `req[r]` | a request's transaction: the item row it has locked, the job it has inserted |
| `faults`, `calls` | bound on faults; history of provider calls per job |

Actions follow the order of lock waits in the code, since only there can other
transactions interleave visibly.  `LockItem`, then `ConfirmOrEdit`, or
`BeginDiscard` and `Discard` (item row, then job rows), or `RequeueJob` and
`CommitJob`; `CreateItem` and `CommitJob`; `SaveDirectly`; `Reject` for a 409;
`Rollback` for any other failure.  On the worker's side `Claim` (FOR UPDATE
SKIP LOCKED), `LockJobItem` (item row; skips a job whose item left ENRICHING),
then the provider's outcome: `Enriched`, `RetryLater`, `GiveUp`; `EndDrain`.
`Crash`, `Stop`, `Exit`, `LoseTx` end a process or one of its transactions.

Choices worth knowing:

* Job ids are positions of `created_at`.  An id is taken when the row is
  inserted, so a later insertion that commits first has the higher id, as in
  the code.
* A claim's IN_PROGRESS status, lease and owner are never committed: the
  transaction that writes them also ends the job.  `Reclaim` is modelled
  nevertheless, and `ReclaimIsIdle` proves it has nothing to do.
* The worker reads an item a second time after the provider's answer, under
  the lock it already holds; the check cannot fail and is not a step.
* The semaphore `llm_concurrency` never blocks, because the drain lock admits
  one job per process.
* With `job_notify_enabled = False` nobody wakes the worker but the poll; those
  are behaviours of the model too (the notified task may run after the poll).
* Tag counts are `TagUsage`'s, quota and idempotency keys `ItemAdmission`'s,
  suggestion rows in no module; an exception raised by them is `Rollback`.
* The delay of a back-off is kept as a number only to tell 0 (due at once) from
  more (`BackoffElapses` makes it 0).

### ItemAdmission and the code

| Variable | Code |
|---|---|
| `today` | the UTC date of `datetime.now` |
| `status[i]` | committed `items.status` |
| `charged[i]` | the day of the item's `ai_usage_ledger` row, 0 without one |
| `usage[d]` | committed `ai_daily_usage.enrichment_count` |
| `keys[k]` | the row of `idempotency_keys`: `response_item_id`, the day it was written, whether `expires_at` has passed |
| `req[r]` | a `POST /items` in progress: how far `CreateItemUseCase.execute` has come and what it has written but not committed |
| `keyOf`, `retried` | history: the key an item was created under, the items `POST /items/:id/retry` has put back |

A creation is `Begin` (key lookup, `now`), `CountEnriching` (committed items
only; 429 at the limit), `Charge` (upsert of the day's row, which waits for any
transaction that has incremented it; 429 over the quota; then ledger, item and
job) or `InsertDirectly`, `WriteKey` (which waits for an uncommitted insertion
of the same key, and fails if the key is there), `Commit`.  `Abort` is any other
failure at any point.  Around it the worker ends rounds (`Settle`), the user
acts on items (`Act`, with the table of `ItemStates`), keys expire and days
pass.

Choices worth knowing:

* Everything is per user in the code (both limits, the usage row, the unique
  key), so one user is modelled.
* A lookup that finds a valid key answers from it and changes nothing: it is no
  action.  Items are never deleted, so a valid key always has its item.
* The quota's exception undoes the increment in the same transaction, so the
  increment and the check are one action.
* `RoomForItem` begins no request the bound on ids could not serve; the code has
  no such limit.

### EditorState, NoteEditor and the code

`EditorState` has the fields of the reducer's state (`editorState`, `form`,
`originalForm`, `validationErrors`, `attachmentUploads`,
`deletedAttachmentIds`) and an action per dispatch, whose guard is the
reducer's own: most dispatches are taken in every state.  `EditorSpec` allows
them in any order; `NoteEditor` takes those that `EditorProvider` and the
components below it make.

| Variable of `NoteEditor` | Code |
|---|---|
| `stored`, `listed` | the items at the server; the copies the page opens editors with (`toItem` of the search page has no text and takes the summary) |
| `editing`, `session` | the mounted editor; how many have been mounted |
| `confirmingDiscard` | the dialog of `ItemDetailEditor` |
| `requests` | PATCH requests without a handled answer, with the session whose callbacks wait for it |

`Save` is `save()` with validation, payload and request; `HandleSuccess` includes
the callback's toast-free effects, the effect that closes a SAVED editor, and
what follows a discard.  `Cancel` drops unsaved changes, because
`setPendingAction` is a state setter and runs the action it is handed.  The
editor dispatches no uploads or deletions, so the runs give it none.  Only
archived items reach it, so it never confirms.  A save succeeds (`Succeeds`) when
the request that was under way is answered with the row it wrote; typing goes on
meanwhile, which is what `UnsavedTypingIsKept` is about.

### PendingReview and the code

| Variable | Code |
|---|---|
| `stored`, `uncommitted` | committed statuses; what an answered transaction is about to commit (`get_db_session` commits after the response) |
| `listed`, `isLoading` | `pendingItems` and `isLoading` of `AppContext` |
| `requests`, `polls` | user requests and list requests under way |
| `modal`, `confirming`, `review` | open dialogs, running confirms, choices about a suggestion |
| `misled` | history: the last poll's list was out of date when it was applied |

Setting `isLoading` unmounts the cards with their dialogs (`StartLoading`); a
poll's list replaces the list and starts every review anew (`HandlePoll`).
One suggestion stands for all of an item.  The mock mode is left out.

### NoteCapture and the code

`handleSave` is a sequence of awaited requests, so it is a small machine,
`save`, with a step per request (tag, item, then per file initiate, PUT,
complete) that works on the values it was called with while the user goes on
(`RemoveStaged`, `RetryStaged`).  Texts are numbers in the order they were typed.
`Expire` lets an upload's lifetime pass at any moment.  Server steps commit at
once here.  `deleteAttachment` of `useUpload` is called by nothing;
`listAttachments` is called by the editor (`ItemDetailEditor.tsx:195`), where it is
`ListAnswered` of `AttachmentViewer`.

### TagManagement and the code

| Variable | Code |
|---|---|
| `rows` | `tags`: name, colour, live or deleted; one user, names up to capitalisation |
| `requests` | mutations in the order made, each a transaction: sent, loaded, flushed, committed and answered in either order |
| `listing`, `table`, `hasData`, `page` | the list query and what the page shows of it |
| `createOpen`, `renameTarget`, `submitting` | the dialogs |
| `misled` | history: a list was read between an answer and its commit, or an answer was lost |

`Flush` waits for a row or an index entry that another transaction has written
and is refused by the unique index (`Taken`), which covers deleted tags.
The repository's `update` reads the row a second time (`Reread`) and assigns the
whole copy made from the first reading to it, so what is sent are the columns in
which the copy differs from the second reading (`Columns` of `before` and
`again`).  A change committed between the two readings is undone; one committed
before the first or after the second is not, which is `OnlyUnseenEditsAreUndone`.

### TagUsage and the code

| Variable | Code |
|---|---|
| `tags` | committed rows of `tags`: absent, live or deleted, and `usage_count` |
| `items` | committed `items.status` and the `tags` array |
| `links` | committed rows of `item_tags` |
| `requests` | transactions in progress: the operations left, the row last read, the rows written and held |
| `drifted` | history: tags whose count was ever committed from a stale one, or counted twice by one request |

`Save`, `Confirm`, `Edit`, `Discard` and `OnTag` begin a request and lay out its
operations on tags in the order of the code: get-or-create of each name,
decrements of removed tags (in any order, since the code walks a set), increments
of new ones.  An operation is a SELECT without lock (`Read`) and the UPDATE or
INSERT of the flush (`Write`), which takes the row's lock, kept to the end.  A
write of what another transaction has locked waits; `Refuse` is the unique index
or PostgreSQL breaking a deadlock, `Fail` any other exception.  A tag that is linked
already, or named twice, is linked without being counted (`keep`).  `Commit`
publishes rows, links and the item together.  A note that is still to be
confirmed can be edited too (`update_item.py` sends READY items to the edit
branch when no action is given), so tags can be linked before confirmation.
Counts may be wrong at first: earlier versions of a row may have drifted.

### The pages of ClientPages and the code

Each page has its variables in its own module; `ClientPages` gives them one
`route` and leaves every other page alone, so an instance is a disjoint union
of small ones and each property is about one page.

* `LibraryPaging`: `archivedAt`, `discarded`, `version` are the rows; `data`,
  `fetching`, `isError` the infinite query, whose refetch reads all its pages
  again, one cursor after the other.  `After` is the `WHERE` of the cursor
  (time, then id), `Sorted` its `ORDER BY`.  Each page remembers, as history, which notes existed when it
  was read (`at`), so that "was there throughout" can be said, and which of its
  notes were read while a save of theirs was answered and not committed (`early`).
  `editing` follows a save: sent, written by `UpdateItem` (which holds the row),
  then committed and answered in either order, since `get_db_session` commits after
  the response (`database.py:42`).  `SaveAnswered` drops the fetch under way and
  starts a new one (`invalidateQueries`), and patches the card (`updateItem`).  A
  second save of a note whose first is not committed yet is left out: the editor
  opened again would wait for the row.
* `AttachmentViewer`: an address is the attachment it leads to and its
  disposition.  `ImageToFetch` is the lightbox's effect, which is part of every
  action that changes what it depends on.  A download is asked for from a pill,
  from the preview or from the lightbox.  What a click will open is what `UrlFor`
  gives it, which `UrlsOfTheirFile` says of every request that waits.
* `AccountSettings`: `before` is the row a transaction loaded, `again` the one
  `update` reads a second time, `Written` the columns in which the copy differs
  from it.  The preferences are one column (`Columns`), so a save that saw one of
  them change writes all of them back.  `doubtful` marks, as history, columns
  changed between the two readings, and settings whose save was lost sight of.
  The settings page mounts the account card alone; `PreferencesCard`, mounted by no page of this commit, is modelled beside it on
  the hook the two share.
* `TagPicker`: `cache`, `stale`, `fetching` are the query cache per search text.
  `parent` says what is made of a change: the home page keeps the list it is
  given, the editor the difference from its form (`Difference`).  A creation holds
  the selection its caller saw, and `OnChange` gets that one when it is answered;
  `TagChoicesKept` says that in the editor this takes nothing back.
* `SearchPage`: a query is a tag sign or none and a word or none; `asked` and
  `submitted` are history.
* `MobileDetail`: `MainScreen` keeps one `DetailViewModel`; `detailItemId` is the
  note it has opened, `item`, `inputs`, `tagEditorTags` and the flags are the
  fields of `DetailState` (title and summary are treated alike, one field stands
  for both), `loads` and `update` the coroutines under way, `stored` the notes at
  the server.  A text is the note it was typed for and whether it would be sent.
  `ApplyItem` is what every answer to a load does, whichever note is open by
  then.  A confirmation with a changed original text is two requests
  (`ConfirmNow` begins the second); `crossed` marks, as history, notes confirmed
  although another was loaded between the two.
* `MobileLibrary`: `searchJob` is the search that waits 300 ms (`DelayEnds`).  What
  it starts is a coroutine of its own, which the next change of the query does
  not cancel, so `requests` may hold several; `overtaken` marks, as history, that
  the list came from an older one than the newest answered.

## 4. Runs

| Run | Instance | Shows |
|---|---|---|
| `EnrichmentWorkers` | 2 items, 2 processes, 1 request, 2 jobs, batch 2, 1 fault | types, `NoLockCycle`, `OneEnricherPerItem`, `CallsAccountedFor` |
| `EnrichmentRequests` | 2 items, 1 process, 2 requests, 3 jobs, batch 1, 1 fault | `OneLiveJob`, `OutboxExplainsStatus`, `StaysInLifecycle` (refinement, safety part) |
| `EnrichmentLiveness` | 1 item, 2 processes, 1 request, 2 jobs, batch 1, 1 fault | `ImplementsLifecycle` (refinement with fairness), `RequestsEnd` (also: whoever holds an item's row lets go of it, a worker with its provider call included) |
| `AdmissionSafety` | 4 items, 1 key, 2 requests, quota 2, concurrency 1, 2 days | types, `ChargesMatchItems`, `OneItemPerKey`, `OvershootBounded` |
| `AdmissionLiveness` | 2 items, 1 key, 2 requests, quota 1, concurrency 1, 2 days | `RequestsAnswered` |
| `RepeatedRequest` | 2 requests, 1 day | violated: a repeat that overtakes the first copy's commit fails |
| `NoteEditing` | 1 item, 2 titles, 2 texts (1 invalid), 1 tag, 2 editors one after the other | types, `CleanMeansEqual`, `OneRequestPerEditor`, `SavingEnds` |
| `PendingList` | 1 item, 2 requests, 2 polls, 1 lost answer | `OnlyLatePollsMislead`, `EnrichingIsFollowed` |
| `NoteCapturing` | 1 text, 1 file, 1 tag, 2 notes, 1 lost answer | `SubmittedTextKept`, `SuccessMeansAttached`, `SaveEnds` |
| `TagCounts` | 3 items (1 waiting, 1 archived), 2 tags, 4 tag lists (none, both orders, one twice), 2 requests, 1 fault | types, `CountsDriftOnlyByRaces`, `EditsEnd` |
| `TypingDuringSave` | 1 item, 2 titles, 2 texts, 1 editor | violated: text typed during a save is lost when the save succeeds |
| `ClientPages` | library: 3 notes, 2 of them edited, pages of 1, 2 times; 2 images and 2 documents, 2 clicks; 2 saves of settings; tags: 3 rows, 2 names, 2 colours, 2 changes, 1 lost answer; picker: 2 names, 2 creations; 2 words; mobile: 2 notes, 2 loads, 2 updates; 2 queries, 3 changes of the query, 4 requests | types, `PagesAreGapless`, `OnlyEarlyReadsHideSaves`, `UrlsOfTheirFile`, `LightboxShowsImage`, `SavedSettingsStay`, `CardsShowTheRow`, `OneTagPerName`, `OnlyEarlyReadsMislead`, `OnlyUnseenEditsAreUndone`, `TagChoicesKept`, `ResultsOfLastSearch`, `TextsOfTheirNote`, `ListedForTheQuery` |

Bounds.  `MaxRetries` is 2 instead of 3: one attempt that is retried and one
that is the last are the two cases of the code.  A batch of 1 makes a drain end
with jobs left, a batch of 2 lets it go on.  Three jobs allow a dead job, a live
one and one being inserted.  `MaxFaults` 1 places a single crash, stop, lost
transaction or failed request at every possible moment.  Back-off is the default
`<<0, 30, 300>>`, so both an immediate and a delayed retry occur.  Symmetry
(items, processes, requests) is used in the safety runs only.

For admission, quota 2 and concurrency 1 are the code's values for the free
plan.  Four items are enough to fill a day's quota, be refused, and fill the
next day's; two requests race for every shared row; one key is enough since
requests interact only through an equal key; two days give an expired key, a
fresh quota and a request that runs across midnight.  The admission runs set
`CHECK_DEADLOCK FALSE`: with all ids used and discarded on the last day the
bounds end a behaviour (`RequestsAnswered` shows that no request is stuck).

For the web client two of everything that can overlap are enough for every order
of two answers: two requests and two polls, two saves of settings, two tag
changes, two editors in a row.  Three notes on pages of one make two page
boundaries, one of them between notes archived at the same time; two notes that are
edited (`MaxEdited`) let the answer to one save come between the commit and the
refetch of the other; one tile for
two images leaves an image only the lightbox fetches; two clicks wait together for
two files, or for the preview and the download of one (`MaxClicks`).  In the picker
a creation can be under way twice for one name, before and after another tag was
chosen (`MaxCreations`).  One note with a file and
one that may follow make the case of files kept from a failed save.  Three rows of
tags leave room for two creations beside a row that is there, so a creation can
race a rename for a name.  In `TagCounts` two requests are enough for each
pair of statements to interleave and for a deadlock (two tags in both orders),
and a tag named twice in one request is in the instance; the third item is one
that does not exist yet.  On the mobile client two loads put a second note on the
screen while requests of the first are under way, and two updates let one start
before the other is seen; one note starts waiting for review, the other archived
or failed.  Three changes of the query are a search, another and a clearing.  `MaxFaults`
1 loses one request or answer at each possible moment.  `NoteEditing`,
`NoteCapturing`, `TagCounts`, `PendingList`, `ClientPages` and `TypingDuringSave` set
`CHECK_DEADLOCK FALSE`: their users may stop, or the bounds are used up.

Fairness (`Fairness` in the module).  Users need not act and faults need not
happen.  A process that is down is restarted (the deployment's restart policy),
requests and drains take their next step.  Strong fairness is assumed twice:
`PollDrain`, since the poll's sleep ends again and again and `asyncio.Lock` is
first come, first served; `LockJobItem`, since PostgreSQL grants row locks in
order of arrival.  The provider answers or times out (`litellm_provider.py`
passes a timeout).  In `ItemAdmission` a request takes its next step; strong
fairness for `Charge` and `WriteKey` is again PostgreSQL's order of arrival.  In
the web modules only what happens by itself is fair: requests are answered or
fail (`fetch` settles), callbacks and effects run (the event loop), timers fire,
commits follow answers, and in `PendingReview` the worker ends its jobs, as
`EnrichmentLiveness` shows.  In `TagUsage` a transaction that has begun carries
on: its next statement runs, its lock is granted, or the database ends it.  Weak fairness is enough: none of these steps is
disabled again before it is taken.  No user action is fair.

### Where the code and its documents differ

With a run:

* `docs/architecture/ai_rate_limiting.md:102` returns the existing item to a
  repeated request; while the first copy is uncommitted the repeat runs into the
  unique key (`create_item.py:174`) and is answered with 500.  No second item
  arises: `OneItemPerKey`.  Run `RepeatedRequest`.
* `lib/hooks/useUnsavedChangesGuard.ts:4` prevents navigation with unsaved changes;
  the answer to a save declares whatever the form holds by then to be saved
  (`useEditorState.ts:217`) and the editor closes, so what was typed during the save
  is gone.  Run `TypingDuringSave`.

Seen while modelling, with no run of their own.  Backend:

* `docs/architecture/data_model_v1.md:350` notifies after the commit; the code
  notifies after the flush (`outbox_repository_impl.py:35`).  The job is then
  found by the next poll (30 s) or the next notification: `ImplementsLifecycle`
  still holds, latency is what suffers.
* `docs/architecture/backend_architecture_v1.md:298` allows three attempts; an
  attempt that is rolled back (crash, lost connection) is not counted, since
  claim and outcome share a transaction.  `CallsAccountedFor` is the limit that
  does hold.  For the same reason the lease never protects anything.
* `docs/architecture/ai_rate_limiting.md:26` limits the items in ENRICHING to
  protect the queue, and line 129 accepts an overage by concurrent requests;
  `retry_enrichment.py:28` exceeds the limit with one request at a time.
  `OvershootBounded` is what holds for items that were not retried.
* `docs/architecture/data_model_v1.md:570` wants a daily job that deletes expired
  keys; there is none, and since the lookup ignores expired rows
  (`idempotency_repository_impl.py:28`) a request under such a key fails.
* `docs/architecture/data_model_uploads_v1.md:100` has uploads marked expired;
  the mark (`upload_service.py:235`) is rolled back by the exception after it.
* `docs/process/BACKEND_FRONTEND_PHASE_3_LIBRARY_TAGS.md:96` computes usage counts
  from the links; the code keeps a counter that loses increments of concurrent
  requests (`tag_repository_impl.py:206`), is written back from an older reading by
  a recolouring (line 133), and counts a tag twice that a request names twice
  (`create_item.py:166`).  `CountsDriftOnlyByRaces` says that nothing else makes it
  wrong.
* A confirmation that names an existing tag by id fails (`update_item.py:119` reads
  a `deleted_at` the entity does not have); a note edited before its confirmation
  keeps the links of tags the confirmation no longer names.
* A rename or recolouring, and a save of profile or preferences, brings back what
  another request changed between its two readings (`tag_repository_impl.py:124`,
  `user_repository_impl.py:41`).
* A deleted tag can still be renamed, and then keeps the new name from others
  (`tags.py:125`).

Mobile client:

* `DetailViewModel.kt:297` reads the tags again after the first request of a
  confirmation has been awaited; if another note was loaded meanwhile its tags
  go to the note confirmed.  `TextsOfTheirNote` says that this is the only way.
* `DetailViewModel.kt:434` deletes the note last read, which while another is
  loading is the one shown before; the answers of line 47, 332 and 409 replace
  whatever note is open, and end the loading display of a newer load.
* `LibraryViewModel.kt:41` cancels only the wait for a search: answers under way
  still come, and an older one may replace the newer.

Web client:

* `docs/design/UI_INTERACTION_SPEC.md:286` lets tags be added and removed in the
  editor; the request has no room for them (`useEditorSave.ts:108`) and success
  is reported.
* `docs/process/FRONTEND_FIX_CARDS_TAGS_EDITING.md:140` has the library reflect a
  saved edit; the refetch that follows the answer (`useEditorSave.ts:131`) may read
  the row before the commit that follows it too (`database.py:42`), and puts the old
  text back on the patched card until the next refetch.  `OnlyEarlyReadsHideSaves`
  says that this is the only way.
* `useUnsavedChangesGuard.ts:4` is there to prevent the loss of unsaved changes;
  Cancel, too, drops them at once (`EditorProvider.tsx:227`).
* `docs/architecture/API_CONTRACT_V1.md:417` leaves what was not modified
  unchanged; the editor takes for modified what differs from the item as last listed (`EditorProvider.tsx:183`).
* `docs/design/UI_INTERACTION_SPEC.md`: the editor shows the original text (283),
  but from a search it shows the summary (`app/search/page.tsx:33`), and would
  store it; a new card appears (106) and a confirmed one goes (164), but an older
  poll undoes either (`AppContext.tsx:121`), for good if nothing is enriching;
  the accepted suggestions are sent (161), but each poll resets what was accepted
  (`InsightSummaryModal.tsx:50`); a failed confirm keeps the dialog (177), but the
  skeleton has unmounted it by then (`PendingReviewSection.tsx:13`); a discard is
  reported on success (173), but the toast precedes the answer
  (`InsightSummaryModal.tsx:97`); selected tags are shown as chips (97), but those
  toggled during a creation are dropped on the home page (`TagPicker.tsx:143`).
* `docs/design/UI_UPLOADS_SPEC_V1.md`: a failed file can be retried (112), but the
  button sends nothing (`app/page.tsx:72`); files are attached to the note they were
  staged with (55), but failed ones stay for whatever is saved next
  (`app/page.tsx:216`).
* `docs/architecture/API_CONTRACT_V1.md:231` deduplicates by key; each attempt has
  a new one (`AppContext.tsx:189`).
* A tag that cannot be created is skipped without a word (`app/page.tsx:167`), and
  of what was entered signed out only the text returns (`app/page.tsx:251`).
* `EditProfileModal.tsx:32` fills the form when the dialog opens; the card opens it
  without that handler (`AccountCard.tsx:113`).  Line 112 says that an empty
  avatar falls back to the provider's; empty is sent as null, and null is
  ignored (`auth.py:105`).
* The lightbox asks again at once, and without end, for an address that fails
  (`AttachmentLightbox.tsx:64`); the spinner of a preview ends with the first of
  two requests (`ItemDetailEditor.tsx:241`); a failed "Load more" replaces the
  list by the error (`app/library/page.tsx:66`); a late rename closes the dialog
  opened for another tag (`useTags.ts`, `RenameTagModal.tsx`).

## 5. Proofs

### EnrichmentPipeline

TLAPS proves for every number of items, processes, requests, jobs, retries and
faults, from the single assumption `PipelineAssumption` on the constants:

| Theorem | Statement |
|---|---|
| `TypeCorrect` | `Spec => []TypeOK` |
| `LiveJobs` | `Spec => []OneLiveJob` |
| `NoDeadlock` | `Spec => []NoLockCycle` |
| `OneEnricher` | `Spec => []OneEnricherPerItem` |
| `OutboxExplains` | `Spec => []OutboxExplainsStatus` |
| `CallsBounded` | `Spec => []CallsAccountedFor` |
| `ReclaimIsIdle` | no reclaim changes a row |
| `Refinement` | `Spec => StaysInLifecycle` |

None of the properties is inductive alone.  `IInv` adds what ties transactions
to committed rows: `RowInv` (a committed row is free, PENDING below the limit,
or DEAD at the limit), `TxInv` (a worker's transaction holds a PENDING row no
other transaction holds, its attempt counted once more than the committed row;
from the provider call on, its item is ENRICHING and unlocked by anyone else),
`ReqInv` (requests lock different items, an inserting request owns a fresh job
id and its item is ABSENT or FAILED), and `CallInv` (calls exceed the counted
attempts by at most the faults).  One lemma per action shows the invariant kept,
one step per conjunct the action can disturb; `Invariance` combines them.  The
refinement proof shows that each step either leaves every item's status and
attempt count alone or changes one item the way the life cycle says; the
attempt count of an item is that of its unique live job, which is where
`OneLiveJob` is needed.

### ItemAdmission

For any items, keys, requests, days and limits, from `AdmissionAssumption`
(finite sets, positive limits):

| Theorem | Statement |
|---|---|
| `AdmissionTypes` | `Spec => []TypeOK`; `usage[d] <= DailyLimit` is part of it |
| `ExactCharges` | `Spec => []ChargesMatchItems` |
| `KeysNameOneItem` | `Spec => []OneItemPerKey` |
| `BoundedOvershoot` | `Spec => []OvershootBounded` |

`ChargesMatchItems` needs to know that what a request will commit is one more
than what is committed, which `HoldInv` says and which stays true because
`Exclusive` gives the usage row of a day, a fresh id and an uncommitted key to
one request at a time.  `RowInv` ties `keyOf` to the key's row, from which
`OneItemPerKey` follows.  `Overshoot` counts the active items together with the
requests that have passed the concurrency check: the check admits a request
only below the limit, and a commit moves a request from one count to the other.

### EditorState and NoteEditor

For any items, texts, tags and number of editors opened, from
`NoteEditorAssumption`:

| Theorem | Statement |
|---|---|
| `CleanReducer` | `EditorSpec => []CleanMeansEqual`, for the reducer under dispatches in any order |
| `EditorTypes` | `Spec => []TypeOK` |
| `CleanEditor` | `Spec => []CleanMeansEqual` |
| `OneRequest` | `Spec => []OneRequestPerEditor` |

`CleanMeansEqual` is inductive for the reducer: every dispatch that declares the
form clean also takes the snapshot it is compared with, or compares.
`OneRequestPerEditor` rests on the flags: a save starts only while neither the
machine's state nor the mutation is pending.  `SessionInv` adds that requests
belong to editors opened so far, that an open editor has a number above 0, so
that the next editor's number is new, and that the discard dialog is open only
while nothing is pending.

### NoteCapture

For any files, tags and numbers of notes and faults, from
`NoteCaptureAssumption`:

| Theorem | Statement |
|---|---|
| `CaptureTypes` | `Spec => []TypeOK` |
| `SubmittedKept` | `Spec => []SubmittedTextKept` |
| `SuccessAttached` | `Spec => []SuccessMeansAttached` |

The box is cleared in one place, at the end of a save, so `SubmittedTextKept`
needs to know that the save's text is then that of the box and is stored, which
is `SaveInv`; while the user signs in it is the draft that holds the text
(`KeepInv`).  `SuccessMeansAttached` needs, at the moment the completion is
answered, that the upload answered for is the one of the file under way and has
a note: `UploadInv` follows the upload through its three requests, and
`SaveInv` says that a save that uploads has a note.  An upload that expires and
an answer that is lost touch neither.

### PendingReview

For any notes, requests, polls and faults, from `PendingReviewAssumption`:

| Theorem | Statement |
|---|---|
| `QuietListMatches` | `Spec => []OnlyLatePollsMislead` |

The property speaks of moments when nothing is under way, the invariant of all
of them.  `CardInv` says that a card that differs from what the server has, or
is about to commit, either waits for the answer to its own request, is shown as
being enriched and will be polled, or the list was misled or something lost.
That a note whose confirmation was answered is never pending again
(`RemoveInv`), and that one note is created at a time which was not there before
(`CreateInv`), is what keeps `CardInv` through a commit that follows its answer.

### TagUsage

For any items, tags, lists of tags and numbers of requests, from
`TagUsageAssumption` (finite sets; the lists are sequences of tags):

| Theorem | Statement |
|---|---|
| `TagTypes` | `Spec => []TypeOK`; no count falls below 0 |
| `CountsFollowLinks` | `Spec => []CountsDriftOnlyByRaces` |

The count of a tag is right only between transactions, so `BalanceInv` states an
equation for each transaction under way and each tag that is neither read stale
nor drifted: the count the transaction sees, plus what its remaining operations
do to it, is the committed count plus what its commit will do to the links; and
each tag is counted at most once by what remains.  It needs `LockInv` (a row
that has been written, and the row of a note, belong to one transaction) and
`ItemInv` (what is edited is there, a note that is not there has no links).  A
commit then moves count and links by the same number, which `CountInv` says of
the cardinality of the links.  The operations of a request form a sequence
consumed from its head; the lemmas about `Each`, `Link` and the interleaving of
a confirmation say what such a sequence does to a tag.

### ClientPages

Each page has an invariant of its own; `PageSteps` says that a step of the
clients is a step of one page and leaves the others alone.  From
`ClientPagesAssumption` (finite set of notes, positive page length, special
values different from the ordinary ones):

| Theorem | Statement |
|---|---|
| `PagesTyped` | `Spec => []TypeOK` |
| `LibraryIsGapless`, `EarlyReadsAlone` | `Spec => []PagesAreGapless`, `Spec => []OnlyEarlyReadsHideSaves` |
| `AddressesLeadToTheirFile` | `Spec => []UrlsOfTheirFile` |
| `SettingsStaySaved`, `CardsMatch` | `Spec => []SavedSettingsStay`, `Spec => []CardsShowTheRow` |
| `NamesAreUnique`, `TableShowsTags` | `Spec => []OneTagPerName`, `Spec => []OnlyEarlyReadsMislead` |
| `EditsUndoOnlyUnseen`, `ChoicesKept` | `Spec => OnlyUnseenEditsAreUndone`, `Spec => TagChoicesKept`, action properties |
| `LastSearchShown` | `Spec => []ResultsOfLastSearch` |
| `OwnTexts`, `LastQueryListed` | `Spec => []TextsOfTheirNote`, `Spec => []ListedForTheQuery` |

* Library.  `LibInv` states of the pages shown, and again of those a fetch has
  read with its answer appended: each is a sorted part of the library as it was
  read; all but the last say that there are more; later pages lie below the end
  of every earlier one; and the pages up to the k-th leave out no note that was
  in the library at each of their readings and is not below the end of the k-th.
  The last conjunct survives new notes and discards because a cursor is a note's
  time and number, which never change.  That a page can be sorted at all is
  `LibSortExists`: the place of a note is one more than the number of notes
  before it, which is injective, and hence onto.  For `EarlyReadsAlone` the pages
  shown, and those of a fetch that outlives the save, carry for each note either
  the version told to be saved or the mark that it was read early; what is told is
  never ahead of the commit by more than the save that is still to commit, and a
  fetch from before an answer is dropped by it.
* Account settings.  A save changes settings of its own card (`AccSaveInv`); two
  saves of one card overlap only where one was lost sight of (`AccOneInv`); what
  a transaction has read twice agrees, column by column, and its own settings
  are still as it read them (`AccReadInv`); a save committed and not yet answered
  is in the row (`AccCommitInv`); and what the cards show, or are about to, is
  the row unless it is asked for again (`AccShownInv`).
* Tags.  A name is checked and then written, so `OneTagPerName` needs that
  whoever has written holds the name against all others until the commit
  (`TagHoldInv`, `TagNameInv`), and that a row about to be made is nobody
  else's (`TagFreshInv`; `TagFreeInv` counts the rows left, so that there is one
  for each request that may still ask).  `TagListInv` says where the right list
  is: shown, on its way, or still to be asked for.
* Mobile note.  The property is about the server and needs to know what is on
  the way there: a request carries texts of its note (`NoteUpdateInv`), the
  fields are always those of the note shown, whichever answer came last
  (`NoteInputInv`), and the note shown is still that of a first request unless a
  load has crossed it.
* Mobile library.  `ListLastInv` says where the last request is (under way, lost
  or listed), and `ListNumberInv` that no other has its number.
* Attachments, search page and picker need little more than their types:
  `UrlsOfTheirFile` and `ResultsOfLastSearch` are inductive with them, and
  `ChoicesKept` is about single steps: the difference between the selection a
  creation saw and the one it answers with is its own name alone.

Two statements changed when they were to be proved.  `SavedSettingsStay` was
first stated with doubt about the changed setting only; with three saves it is
false, since the preferences share a column: one save that saw the language
change between its readings writes the time zone back too.  Two saves, which the
run has, do not show it.  `PagesAreGapless` spoke of the concatenation of all
pages, and speaks of pairs of places in them now, which means the same.

### Left to TLC

Liveness (`ImplementsLifecycle` beyond its safety part, `RequestsEnd`,
`RequestsAnswered`, `SavingEnds`, `EnrichingIsFollowed`, `EditsEnd`,
`SaveEnds`, `LightboxShowsImage`), since fairness is outside the prover's reach.
No safety property of a passing run is left.  `ItemLifecycle` is the one abstract
specification so far; what an atomic count of tags, or a set of uniquely named
ones, would promise is stated by the invariants of `TagUsage` and
`TagManagement` and by no specification of its own.

## 6. Not modelled

* The status of suggestion rows; deletion of attachments, clean-up of uploads, `sort_order`; filters of the library, the SQL
  of the search; creation of users on their first request.
* The rest of the mobile client: the home screen, whose polling is like the web
  client's, the profile screens, sign-in and session, layout.
* `ItemDetailModal.tsx`, which nothing renders; the texts of `microcopy.ts`; the
  wrappers of `components/ui`; date labels, colours of the tag palette, layout.
* Other browser tabs, the expiry of fetched addresses, the mock mode without a
  backend.
* HTTP schemas, migrations, prompts, object storage and token verification:
  text, layout or external services.

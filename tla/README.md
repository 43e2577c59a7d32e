# RaceFrame: TLA+ models and proofs

RaceFrame matches race photos with participants. Photographers upload photos,
workers read bib numbers and faces in them, participants search with their bib
number or with selfies. What is hard about the program happens between the web
application, its PostgreSQL database, the object store and the worker
processes: leases that run out, answers that get lost, transactions that read
what another one is about to change, requests that stop half-way. This
directory models that part in TLA+, checks it with TLC on small instances and
proves its safety invariants and one refinement with TLAPS for every size.

| Module | Models | Used by |
|---|---|---|
| `JobRecord` | one row of a worker queue and what each helper of `worker_api.py` does to it | `PhotoJobs`, `FaceSearch`, `Worker` |
| `PhotoJobs` | the photo queue: claims, reports, the status of a photo | `MCPhotoJobs`, `PhotoJobsProofs` |
| `JobLedger` | what the photo queue promises, without leases, retries and transactions | `PhotoJobs` (refinement) |
| `Worker` | worker processes, their heartbeat threads and HTTP against one queue | `MCWorker` |
| `DeletionOutbox` | the object-deletion outbox | `MCDeletionOutbox` |
| `FaceSearch` | a selfie search: uploads, the face-search queue, expiry and purge | `MCFaceSearch` |
| `PhotoStorage` | the bucket and the rows that refer to it: uploads, deletions, backfill, reconciliation | `MCPhotoStorage` |
| `BibEvidence` | what a text says about a bib number | `SearchResults`, `ParticipantMatches` |
| `SearchResults` | the results of one search, how they come about and how they are paged | `MCSearchResults` |
| `ParticipantMatches` | participants, the rebuild of matches, OCR completions, the admin lock | `MCParticipantMatches` |
| `Admission` | rate limits, slots and backlog in front of searches and uploads | `MCAdmission` |
| `PhotoJobsProofs` | theorems about `PhotoJobs`, and that it implements `JobLedger` | |
| `FaceSearchProofs`, `WorkerProofs`, `DeletionOutboxProofs`, `PhotoStorageProofs`, `SearchResultsProofs`, `ParticipantMatchesProofs`, `AdmissionProofs` | theorems about the module each is named after | |

Each module that has proofs ends with the inductive invariant they use.
`MC*.tla` give the constants their values for TLC, each `.cfg` is one run.
`PROJECT.json` maps every definition that models code to its lines.

## 1. Inventory

Paths are relative to `src/`; `app/` is `backend/app/`.

### Worker control plane (`app/worker_api.py`, `app/face.py`)
*State*: the tables `photo_jobs`, `participant_face_jobs`, `face_search_jobs`
(status, attempt count, attempt id, lease, retry time) and the status of the
parent: photo, face image, or search image and session.
*Operations*: claim (dead-letter exhausted rows, then lease the oldest
available one, `SKIP LOCKED`), heartbeat, complete, fail.
*Interactions*: the ingests insert the rows, workers call the endpoints,
maintenance deletes searches and their jobs.
*Hard*: leases that lapse while a report is on its way; reports that are sent
again; two completions of one photo that read each other's row unlocked;
sessions without autoflush, so that a query misses what was just assigned;
three comparisons of one attempt budget.
*Correct when*: only the attempt handed out last stores results, once; an owner
with a live lease is not preempted; outcomes are final; a job is handed out at
most `max_attempts` times and always settles; the parent's status sums up its
jobs and is written at all.

### Worker process (`raceframe-worker/worker.py`)
*State*: the job it holds, the sends it has left, the lease-heartbeat thread
and its event `lost`, the presence thread, the cursor of the claim poller.
*Operations*: poll, claim, download, scan, complete, report a failure, abandon,
stop on SIGTERM.
*Hard*: two threads over one lease; late answers; an unreachable backend that
must not look like a bad image; a claim whose answer is lost.
*Correct when*: a confirmed completion is on record; only bad input fails a job
for good; a job that was let go is not kept leased; shutdown loses no job; one
failing queue does not starve the others.

### Object-deletion outbox (`app/maintenance.py`)
*State*: `object_deletion_tasks` and the bucket.
*Operations*: queue a key (again), dead-letter lost leases, lease a batch,
delete, record the outcome, purge old tasks.
*Interactions*: photo deletion, event deletion, thumbnails, selfie purges and
the reconciliation queue keys; the timer and request handlers drain it, also at
the same time.
*Hard*: the attempt id is checked before the storage call and the outcome is
written after it; a batch shares one two-minute lease; runs die.
*Correct when*: no object whose deletion was requested is forgotten; attempts
are bounded; every task settles.

### Selfie searches (`app/face.py`, `app/main.py`, `app/maintenance.py`)
*State*: session, images, jobs, results, stored selfies.
*Operations*: upload one selfie after the other, each with a commit of its own;
complete; fail; purge after expiry.
*Hard*: compensation after a failed commit or refresh; a crash between the
object and its row; completions and purges that lock in opposite orders.
*Correct when*: every stored selfie is referenced or queued for deletion,
images tell the outcome of their jobs, expired searches disappear, settled ones
are finished.

### Photo ingest and deletion, event thumbnail, reconciliation, backfill (`app/photographer.py`, `app/uploads.py`, `app/event_thumbnail.py`, `app/storage_reconcile.py`, `app/thumbnail_backfill.py`, `app/admin.py`)
*State*: photos with two objects each, the event's thumbnail, the bucket.
*Operations*: ingest with compensation and idempotent repeats, delete, replace
a thumbnail, list orphans, regenerate thumbnails, delete an event.
*Hard*: objects and rows are not written together; the reconciliation lists
first and reads references later; the backfill acts on rows it read earlier;
the cascade of an event drops photo rows without queueing their objects.
*Correct when*: a referenced object is not deleted, an object without a row has
a cause that is known, a reconciliation that is applied overlooks no selfie
without a row. (The weekly timer applies nothing, it only reports.)

### Matching and results (`app/face.py`, `app/photographer.py`, `app/main.py`)
*State*: texts and faces of photos, the rows of `face_search_results` and of
`photo_participant_matches`, the pages a browser has read.
*Operations*: compare an embedding with all faces of an event, reinforce by
faces found, find seeds for a search without a selfie, classify, accept, order
and page results, collect all pages for an archive.
*Hard*: a bounded heap over rows in no stated order; thresholds, majorities and
limits; two completions of one search that upsert the same rows; rows loaded
once and reordered later; results that change between two pages; candidates
chosen by match rows, evidence judged by the text.
*Correct when*: no better face is lost, reinforcement does not wander off to
other people, seeds belong to one person, an archive is complete as far as its limit goes, the two
readings of a bib agree.

### Participants and the admin lock (`app/admin.py`, `app/photographer.py`, `app/participant_lookup.py`, `app/main.py`)
*State*: participants with a bib that is unique in the event, matches with their
source, one row that says which admin session is at work.
*Operations*: add, import, update, delete; after each, clear the matches by text
and match every photo again, with a commit per photo; take the lock over.
*Hard*: OCR completions insert matches meanwhile, also between the SELECT of the
clearing and its commit; the session keeps the participant of the route as it was
loaded; the lock is looked at once, when the request begins; a request can die
half-way.
*Correct when*: bibs stay unique, matches are exact after an undisturbed
rebuild, matches by face survive, two admins overlap only by takeover or idling.

### Admission control (`app/rate_limits.py`, `app/web_security.py`, `app/main.py`)
*State*: fixed windows in the database, sliding windows and slots in each web
process, the number of open jobs.
*Operations*: hit, enter, leave, count the backlog, purge.
*Hard*: a time read before the count it belongs to, counters that are purged,
failures after the count, a backlog read before the insert it guards, slots that
must be given back, requests without the CSRF cookie of a browser page, which take
none.
*Correct when*: budgets hold per window across processes, the backlog exceeds
its limit by no more than the files that were before their commit at once, no slot
leaks.

### The rest
Maintenance of diagnostics, CSRF and capabilities, the ZIP stream, event
administration and pages, storage client, metrics, audit log, configuration,
migrations, evaluation tools and deployment scripts are listed in
`PROJECT.json` with the reason they are not modelled: they are pure I/O, observe
only, decide nothing that another component reads, or are security functions
outside this development.

## 2. The modules

### How code became TLA+
* **Transactions.** PostgreSQL runs at READ COMMITTED. A handler that only
  writes rows it holds under `SELECT ... FOR UPDATE` is one action. A handler
  that reads another row unlocked, or waits for a second lock, is split where
  that happens. `SKIP LOCKED` skips a row with a transaction in flight; other
  writers of the row wait (their action is disabled).
* **SQLAlchemy.** `SessionLocal` has `autoflush=False` (`app/db.py:38`): a SELECT
  does not see attributes assigned before it and not flushed. `complete_*` of the
  photo queue flush first, `_sync_terminal_parent_state` and the end of a
  face search do not, and the models say which is which (`StatusesRead`,
  `SyncedPhoto`, `Summary`). A flush writes changed attributes only.
* **Time** is not a number. A lease is null, live or expired; a retry time is
  null, waiting or due; a session is expired or not. Clock actions move them one
  way, at any moment. Delays and lengths of leases are therefore arbitrary.
* **Attempt ids** are ordinals instead of uuid4; only equality is used.
* **Data** that no decision reads is dropped. In the queues, results are
  represented by the attempt that stored them; embeddings and texts appear only
  in `SearchResults` and `ParticipantMatches`, which are about them.
* Variables marked *history* or *ghost* in the modules are not in the code; they record
  what the properties speak about. Actions read them only to draw the next
  attempt id and to know which attempts exist that could send a report.

### `JobRecord`
The columns the three queues share, and one operator per helper: `Available`,
`Exhausted` and `Claimable` (the WHERE clauses of reaper and claim), `Owns`
(`_verify_active_attempt` answering "processing"), `Claimed`, `Heartbeaten`,
`Completed`, `AfterFailure` (`_fail_job`), `DeadLettered`. `RowSound(row, n)` says
what these helpers keep of a row that was handed out `n` times: its attempt id,
its attempt count and `n` move together, and leases, retry times and dead letters
occur only in the states that justify them.

### `PhotoJobs`
Every photo has an OCR and a face-scan job, from the commit of its ingest.
`Claim(types)` is one claim request: it dead-letters the oldest exhausted jobs,
up to `ReapLimit` (50 in the code), and leases the oldest claimable one.
`Heartbeat` and `Fail` are single steps. A completion is `CompleteFlush` (verify
and flush its own row), `CompleteRead` (read the statuses of the photo's jobs)
and `CompleteCommit`, or `CompleteRollback`. `LeaseLapses` and `RetryElapses`
are the clock. Workers are left open: any report of any attempt that was handed
out may arrive at any time and any number of times, which includes every loss,
delay, repetition and crash.

`JobLedger` is the promise in four variables: hand-outs left, outcome, number of
results, verdict on the photo. It makes no promise that the verdict arrives
(see the findings). The refinement mapping is `Ledger` in `PhotoJobs`.

### `Worker`
Here the workers are explicit and the parent's status is left out. A process is
`polling`, `claiming`, `working`, posting a report (`complete`, `retry`,
`reject`) or `down`; its heartbeat thread is `off`, `waiting` or `posting`, and
shares the event `lost` with it. `mail` is the set of requests the backend may
still handle, so that a request is lost, overtaken, handled after its sender
gave up, or handled without its answer being heard. `BackendClient.post` sends a
report up to `Tries` times (`WORKER_HTTP_RETRIES`) and a claim once. `GiveUp` is
the `except ControlPlaneError` of `handle_claimed_job`: abandon, never report.
`Stop` is SIGTERM between two jobs, `Crash` a kill or a `WorkerConfigError`.
Several heartbeats that one thread has under way are one element of `mail`:
renewing a live lease twice is renewing it once. Reports carry their send, so a
late first send and its repetition are two requests. Abstracted: the other two
queues (the rotation of `FairClaimPoller`), the presence thread, delays.

### `DeletionOutbox`
Tasks, the store, and any number of overlapping runs. A run goes `Reap`,
`ClaimBatch`, then per task `ReadTask` (the attempt id is checked here),
`DeleteSucceeds` or `DeleteFails`, and `Record`, which writes the outcome by
primary key, computed from the count that was read before the call. `Crash` ends
it anywhere. `Request` queues a key or resets its row. A lease may lapse, and a
key be queued again, at any time, also under a run that has the key in hand. The
history `overtaken` has the tasks of which that is so until they are claimed or
requested afresh: those whose row some run may write with an outcome that is not
about it.

### `FaceSearch`
The request stores a selfie (`Store`), inserts its rows and commits (`Publish`),
or fails before or after the commit (`PublishFails`), one file after the other;
then it is answered or dies. A completion takes its job row's lock
(`CompleteLock`), matches, taking a key-share lock on the session when it has
results to insert (`CompleteMatch`), and commits. The purge locks expired
sessions (`PurgeLock`) and later deletes their rows and queues the objects
(`PurgeCommit`); the two wait for each other, and PostgreSQL rolls one of them
back when they deadlock. The batch limits (50 reaped jobs, 500 purged searches)
are not reached in one search and are left out.

### `PhotoStorage`
`bucket`, `outbox`, the rows, and for each request how far it is (`pc`) and which
keys it read to use later (`seen`). An upload of a photo looks for an accepted
one (`BeginUpload`), stores the original and the thumbnail (`Store`), inserts
(`Commit`, refused by the unique constraints in `CommitFails`) and refreshes
(`Refreshed`, `RefreshFails`); every failure goes through `Compensate`, which may
itself fail object by object. Selfies and event thumbnails take the same steps
where their code does. Deletions read first and write later: `BeginDeletion`,
`BeginDeleteAll` and `BeginDeleteEvent` against `DeletePhotos` and
`CommitDeleteEvent`; so do the backfill and the reconciliation. The latter lists
the bucket (`ReconcileList`), reads the references (`ReconcileCompare`), and with
`--apply` queues what it found (`ReconcileQueue`); without it, as the weekly timer
runs it, or when it dies, it ends there (`ReconcileEnds`). The history `due` has the
selfies without a row at its listing. While the backfill works on a photo, its
stage is that photo. `StorageAssumption` gives requests,
stages and photos identities of their own, as primary keys and uuid4 keys do. The
outbox is abstract here: a queued key stays queued until its object is gone, which is
`NoForgottenObject` of `DeletionOutbox`; that it goes is not assumed.

### `BibEvidence` and `SearchResults`
`BibEvidence` has texts as sequences of characters, because the properties are
about them: both `extract_match_candidates` (`Candidates` of `face.py`,
`TokenCandidates` of `photographer.py`), the longest common substring, partial
and exact evidence. In `SearchResults` faces are points on a line; similarity
falls with distance and is a percentage. A completion is a transaction:
`BeginSelfie` or `BeginBibOnly`, `CompareSeed` per embedding, `LoadRound` and
`Reinforce` for the two rounds, `Commit` or `RollBack`. Two completions of one
search overlap; one that would upsert a row of the other waits, and when both
wait the database rolls one back. Rows keep the scores and texts they had when
the session first loaded them, as SQLAlchemy's identity map does without
`populate_existing` (`seen`, `known`, `exact`). `Scan` and `ReadText` are the
photo jobs that complete meanwhile. `matched` has the rows of
`photo_participant_matches` whose source is a text, which are what makes a photo
without a scored face a candidate (`CandidatePhotos`). `ReadText` makes one for an
exact bib. `RebuildRead`, `RebuildClear`, `RebuildList` and `RebuildPhoto` are
`rebuild_event_photo_matches` for this participant: select the rows, delete those,
list the photos, and make a row for each that has the bib as a token. A rebuild
may die anywhere; `RebuildsAfter` says at which steps another one may begin.
`BeginDownload`, `ReadPage`, `EndDownload` are `user_download_all_photos` over
`Items`. Abstracted: the order of rows that
tie in a query is the same each time nothing changed; searches of earlier
releases without a participant (`list_legacy_face_search_photo_items`) and the
labels shown with a result. Photos and faces that tie in a score are ordered by
`CreatedAt` and `Quality`, which no two of them share, as the creation times and
the float-valued qualities of the code practically do not; a tie in the bounded
heap is decided either way. `Sorted` and `Top` are the ORDER BY and LIMIT of the
queries and the sorted lists of the code. `Total` takes the place of the average
of vectors: an average of points is their sum over their number.

### `ParticipantMatches`
A request of an admin takes the lock in the middleware (`BeginRequest`), looks
its bib up (`Check`), commits the change (`Save`, `SaveFails`, `Delete`), selects
the matches by text without a lock (`ClearRead`), deletes or updates these by primary
key and commits (`ClearCommit`, or `ClearFails` when a row to be updated is gone),
reads all photos (`Load`), and for each photo finds (`Match`; `Skip` without text)
and commits (`WriteMatches`, `RebuildFails`) its matches; it ends or dies (`Die`).
The routes that add and update hold on to the participant (`person`), so that the
session does not load it again until a commit expires it: `BibSeen` is the bib
that `Match` takes, `bib` of a request the one it has loaded. When that is
outdated, two participants may seem to have one bib; `OneOfEach` takes one of them,
as the dictionary keyed by the bib does. Commits happen only for photos with
matches, so that photos without leave what is loaded as it is.
`OcrRead` and `OcrCommit` are the matching part of an OCR
completion. `TakeOver` and `Pause` are the takeover of the lock and the time
without admin requests after which it is free. `Newest` is the order in which a
rebuild visits the photos, all of them. Abstracted: participants are
their bibs, a file is imported like its rows one at a time.

### `Admission`
A request passes the limits and slots of its process (`Dispatch`), or comes
without the admission context of a browser, has no category and passes neither
(`DispatchOutside`); both go on to the limits
that processes share, each in two steps because the time is read before the row
is counted (`ReadClock`, `Hit`, `HitFails`), the backlog for all its files
(`EnsureCapacity`) and for each file again (`CheckFile`, `CommitFile`).
`Recent` is the `while` loop that pops the hits a sliding window has left behind,
from the front. `Leaves` is the `finally` of the middleware. `outside` has the
requests without a category, and the ghost `busiest` the most files that were
at once between their look at the backlog and their commit. Here time is a
number, because windows are; `Tick` assumes that a hit is not counted more than a
window after the one it read, which is when a purge may take its row.
Abstracted: limits per IP address behave like those per event; the
eviction of keys beyond 50 000 is left out.

## 3. Runs

| Run | Instance | What it shows |
|---|---|---|
| `photo_jobs_one_photo` | one photo, its two jobs, 3 attempts | types; the photo's status is the right summary whenever it leaves "processing" (`PhotoStatusSound`); exactly the last attempt of a completed job stored results; attempts stay in budget; owners are not preempted; outcomes are final; every job settles |
| `photo_jobs_two_photos` | two photos, 2 attempts, `ReapLimit` 1 | `PhotoJobs` implements `JobLedger` |
| `worker_reports` | 2 processes, 1 job, 2 attempts, 2 sends | a confirmed completion is on record; a job that failed for good was refused by the worker |
| `worker_settles` | the same, 1 send | leases end; the job settles |
| `outbox_overlap` | 2 keys in one batch, 2 overlapping runs, 2 attempts, 2 requests per key | no requested object is forgotten; but for overtaken tasks, none is queued without attempts left (`NoStrandedTask`) and dead letters come at the limit only (`DeadLetteredAtLimit`) |
| `outbox_settles` | 1 key, 2 runs that may crash or outlive their leases | every task settles, but for overtaken ones that have no attempts left |
| `face_search` | 2 selfies, 2 attempts | selfies accounted for; images follow jobs; purges and completions exclude each other; expired searches are purged |
| `photo_storage` | every set of 3 requests out of 2 uploads of one photo, 2 event thumbnails, a removal, a selfie, a photo deletion, the deletion of the event and the backfill, next to reconciliations with and without `--apply`; one older photo with the same content | a row loses its object in the two ways of the code only (`ReferencedIsKept`); every object without a row or a task has a cause (`OrphansExplained`); a reconciliation that is applied queues every selfie that had no row when it listed the bucket (`OrphansCondemned`) |
| `search_results` | 4 photos, 5 faces, 2 selfies or a bib, 6 placements, the faces of one photo or the text of another late, rebuilds of the match rows, 3 reinforcements, pages of 2 | no better face is lost (`TopFacesKept`); reinforcement stays within two steps per selfie (`DriftBounded`); seeds have the majority; archives hold accepted photos once each, and when the candidates fit in the limit all with a scored face or a match row, that is, all of them before the first rebuild and those with the bib as a token after one (`ArchiveFaithful`); readings of a bib agree |
| `participant_matches` | 2 photos, 2 bibs, 2 participants, 2 changes by 2 admins, one takeover or pause | unique bibs and foreign keys; `SingleAdmin`; `MatchesExact`: after a rebuild that ran to its end, with nothing stale written since it chose the rows to clear, matches by text are exact; matches by face stay |
| `admission` | 2 searches or 2 uploads, with and without the context of a browser, 2 visitors, 1 process with one slot, 5 instants, 1 failure | slots balance; budgets per window hold (`BudgetsHold`); the backlog is bounded by the files before their commit, and these by slots and requests without context (`BacklogBounded`) |

*Why these bounds.* Two jobs of one photo are all that a photo's status depends
on; two photos are what the order of claims needs; two attempts give a last and
a not-last one (three also a middle one). Two processes suffice for a stale
owner against a current one, two runs and two keys for a stale outcome within a
shared batch, two selfies for "first settled before the second exists". In
the queues nothing counts beyond the attempt budget and the sends, so there is
no other bound, except `MaxRequests` in `DeletionOutbox` (requests per key),
which caps an otherwise unbounded history; no run of them bounds the number of
crashes, losses or repeated reports.

In `photo_storage`, each orphan and each lost object needs one request that reads
and one or two that change what was read, so that three requests besides the
timers show them all; the two uploads have the content of the older photo, and
one of them an idempotency key, so that every way to conflict occurs. The scenes
of `search_results` are a chain along which reinforcement could drift, crowds
larger than the four results that are kept, groups with and without a majority,
and a single photo; they are chosen because each makes one of the properties
nearly fail. Its limit on the faces of an event is not reached: reaching it only
rolls the transaction back, which also happens there by conflict. Late are the
faces of one photo or the text of another, and `RebuildsAfter` lets a second rebuild
begin where the first died after clearing, which is where rows are missing.
`participant_matches` has a text whose bib only one of the two extractions
finds. In `admission` a window of two instants is the shortest in which a
purge one window early loses a count; limits are one to three units because the
second hit is what decides; time stands still once both requests ended. With one
slot, the second request at once is one without context, or one that another
process would let in; the theorems are about any number of processes.

Symmetry is used for interchangeable requests, runs and processes, in runs
without liveness only. Deadlock is checked, except in `search_results`,
`participant_matches` and `admission`, whose requests are finite in number and
done in the end.

One further run, `violation_failed_photo`, ends in a counterexample:
`tests/test_worker_protocol.py:162` says that the photo of a dead-lettered last
job is "failed" (`FailedPhotoIsFailed`), but `_sync_terminal_parent_state` reads
the statuses before the flush, and the photo stays "processing". The session of
the test flushes automatically, that of the application does not. No concurrency
is needed.

Three more statements are refuted by the models. Their properties stand in the
modules and are violated when added to a run, the last one also without a rebuild
if `MaxSearchResults = 2`:

| Property | Statement | Why |
|---|---|---|
| `CompletedPhotoIsReady` (`PhotoJobs`) | `admin_event_form.html:107` counts photos "ready for participant search" | two overlapping completions each see the other's job as open |
| `SettledSearchFinished` (`FaceSearch`) | `user_event_search.html:89`: a processing search is still being checked | the session is summed up before its last job is flushed, and stays "processing" |
| `EveryMatchInArchive` (`SearchResults`) | `user_event_search.html:106`: the archive holds "every original matched photo" | the limit on results (250) cuts the candidates, scored photos first, before it is decided which to accept (`photographer.py:298`, `:311`, `:314`): faces too weak to be shown take the place of a photo with the exact bib. And after a rebuild: it makes no row for a bib inside a token (`M1234`), the search accepts the photo by its text, but only rows make candidates (`photographer.py:302`) |

What the properties except is also what the code does, and worth knowing:

* One two-minute lease covers a batch of up to a thousand storage calls with retries
  (`maintenance.py:106`), and an outcome is written by primary key whoever holds
  the task by then. So an outcome recorded late may queue a task again that has no
  attempts left, which no run claims or dead-letters any more, and may dead-letter a
  request that was just renewed (`maintenance.py:40`). `docs/operations/data-lifecycle.md:5`
  and `:15` promise bounded retries and dead letters after the limit. `NoStrandedTask`,
  `DeadLetteredAtLimit` and `EveryTaskSettles` except overtaken tasks and nothing
  else; without that exception each is violated by its run.
* An upload whose refresh fails after its commit deletes the objects of rows
  that exist (`photographer.py:647`, `event_thumbnail.py:63`, `face.py:323`), and
  the reconciliation may queue a selfie that was committed after it read the
  references (`docs/operations/data-lifecycle.md:58` warns of it). These are the
  two exceptions of `ReferencedIsKept`.
* Photos that join an event after `delete_all_event_photos` listed them lose
  their rows with the event and keep their objects for good; so does a thumbnail
  the backfill stores for a photo that is being deleted, and an event thumbnail
  when two changes read the same previous key. Only selfies are reconciled.
  These are the causes in `OrphansExplained`.
* An OCR completion, or the rebuild of another admin, that read the participants
  before a change may commit what it found after the rebuild that follows the
  change, and a rebuild that dies leaves the photos it had not reached without
  matches by text. A match that such a completion commits between the SELECT of a
  clearing and its commit survives it (`photographer.py:813`), and when another admin
  changes the participant that a route holds, the route matches photos with the bib it
  had (`photographer.py:855`). `MatchesExact` says what holds otherwise: an OCR completion
  that read the participants of now, or a request that only looks, does no harm.
  The two extractions
  of bibs differ (`photographer.py:890`, `face.py:1270`): digits in a mixed token
  match when OCR completes and no longer after a rebuild, so that the property
  has a lower and an upper bound.
* An archive may miss or repeat a photo when results change between two of its
  pages, misses photos that weak scores crowd out of the candidates, and after
  a rebuild photos that show the bib inside a token only;
  `ArchiveFaithful` is about the others.
* Only requests with the admission context of a browser page are given a category,
  and with it a slot (`web_security.py:438`, `:465`, `:501`); what reaches a handler
  without is bounded by the shared limits alone. So `BacklogBounded` has the slots and
  the number of such requests.

## 4. Fairness

* `PhotoJobs`: weak fairness of each clock step, of the transaction in flight
  (the database ends it) and of the claims (workers poll). No report is ever
  owed: `EveryJobSettles` holds for workers that stay silent. That a lease
  lapses is where this module relies on workers not renewing it for ever; it is
  what `LeaseEnds` of `Worker` shows of them.
* `Worker`: a running process goes on (every HTTP call has a timeout, and a scan
  is assumed to end), a process that ended is started again (container restart
  policy), not every start is cut short before the first claim and not every
  claim is lost (strong fairness of `SendClaim` and `HandleClaim`). A lease
  lapses unless it is being renewed (`Renewed`). Nothing obliges any report to
  arrive.
* `DeletionOutbox`: the timer starts runs, storage calls return, and a run is
  not killed between its first two transactions every time.
* `FaceSearch`: the request goes on, transactions end, sessions expire, the
  purge runs, and not every purge is the victim of a deadlock (strong fairness
  of `PurgeCommit`).
* `PhotoStorage`, `SearchResults`, `ParticipantMatches`, `Admission` have safety
  properties only. In particular nobody owes a reconciliation with `--apply`:
  `raceframe-storage-reconcile.service` runs it without.

## 5. Proofs

The theorems hold for every set of photos, keys, requests, processes and so on,
and for every budget and limit. They rest only on the named assumptions about
constants, which the modules state and every run evaluates: budgets, limits and
batch sizes are positive (`MaxAttemptsAssumption`, `OutboxAssumption`,
`WorkerAssumption`, `AdmissionAssumption`, `SearchAssumption`), creation times are numbers
(`PhotoJobsAssumption`, `FaceSearchAssumption`), and different things have
different names (`NoRowAssumption`, `StorageAssumption`, `MatchesAssumption`).
`SearchAssumption` also says that photos, faces and selfies are finite in number,
that no two photos share a `CreatedAt` and no two faces a `Quality`, that the
database streams each face once in whatever order, that the four thresholds are
percentages in the order of `config.py`, and that more than one photo may give seeds.
Only `Refinement` states a further hypothesis, given below.

Each `*Proofs` module follows one scheme. The invariant `IInv` at the end of the
module it is about is the conjunction of `TypeOK`, the properties of section 3
and what they need to become inductive. `Init => IInv` is one lemma; each
conjunct has a lemma that a step keeps it, with a step per action; `Invariance`
combines them, and the other theorems follow from it.

| Module | Theorem | States |
|---|---|---|
| `PhotoJobsProofs` | `TypeCorrect`, `Invariance` | `TypeOK`, `IInv` |
| | `PhotoStatusCorrect`, `ResultsCorrect`, `AttemptsCorrect` | the safety invariants of `photo_jobs_one_photo` |
| | `OutcomesStayFinal`, `AttemptKept` | its action properties |
| | `Refinement` | `Spec => ImplementsLedger`, for finitely many photos |
| `FaceSearchProofs` | `TypeCorrect`, `Invariance`, `SelfiesAccounted`, `ImagesFollowJobs`, `CompletionKeepsRows` | the safety properties of `face_search` |
| | `ResultsCorrect` | `ResultsFromLastAttempt` of a selfie search |
| `WorkerProofs` | `TypeCorrect`, `Invariance`, `AcksAreTrue`, `FailuresAreJustified` | the invariants of `worker_reports` |
| `DeletionOutboxProofs` | `TypeCorrect`, `Invariance`, `NoObjectForgotten`, `NoTaskStranded`, `DeadLettersCorrect` | the invariants of `outbox_overlap` |
| | `AttemptsCorrect` | at most `MaxAttempts` attempts per request, however runs overlap |
| `PhotoStorageProofs` | `TypeCorrect`, `Invariance`, `ReferencesAreKept`, `OrphansHaveReasons`, `NoOrphanOverlooked` | the invariants of `photo_storage` |
| `SearchResultsProofs` | `TypeCorrect`, `Invariance`, `BestFacesKept`, `DriftIsBounded`, `SeedsFromMajority`, `ArchiveIsFaithful`, `EvidenceAlwaysAgrees` | the properties of `search_results` |
| `ParticipantMatchesProofs` | `TypeCorrect`, `Invariance`, `AdminsExclude`, `RebuildIsExact`, `FacesStay` | the properties of `participant_matches` |
| `AdmissionProofs` | `TypeCorrect`, `Invariance`, `BudgetsAreHeld`, `BacklogStaysBounded` | the invariants of `admission` |

### Rows of a queue
`RowTypes`, `RowStatus`, `RowAttempt`, `NewRow` and `RowSteps` say what each helper
of `worker_api.py` returns and that it keeps `RowSound`. The proof modules of the
three queues begin with them, as the three queues of the code share the helpers.

### Photo queue
That results come from the last attempt needs `RowsConsistent` (`RowSound` of every
row) and that the owner of a completion in flight cannot be replaced
(`CompletionsSound`: claims skip the locked row, so that even a lease that lapsed
meanwhile does no harm). `PhotoStatusSound` needs the second half of
`CompletionsSound`: a status other than "processing" that a completion is about
to write was computed when the sibling had settled, and since outcomes are final
it is still right at the commit. `SettledRowsFrozen` carries the finality of
outcomes through all the lemmas. `VerdictByCommit` says that only the commit of a
completion ever moves a photo out of "processing"; it is the positive side of
the first finding, since `Claim` and `Fail` never write a photo's status.

*Refinement.* `LedgerInit` maps initial states. A claim is `Dispatch` of the job it
leases and closes those it dead-letters (`ClaimDispatches`, with `AtMostOneTaken`: a
claim leases one job), a failure report closes its job or
changes nothing the ledger sees (`FailCloses`), and the commit of a completion
stores the result and announces the verdict (`CommitCloses`). All else is a stutter
(`InvisibleStep`). The hypothesis `IsFiniteSet(Photos)` makes `LIMIT 1` mean one
job: a claim is modelled by the number of rows it returns.

### Selfie search
`CompletionsOwned` says that a completion in flight still has its rows and is by
the attempt on record: its locks keep the claim and the purge away, or one side is
rolled back as a whole. `SelfieAccounted` needs to know of the rows only that a
selfie without a finished upload has none (`RowsConsistent`).

### Workers
The mail may hold any report ever sent. `RejectionsRefused` says of it that every
rejection was preceded by the worker finding the input of that attempt bad, and
`ThreadsConsistent` that a process posts only about a job it holds.
`AckedIsRecorded` is kept because `SettledRowsFrozen`: what was acknowledged cannot
be overwritten by a repeated or late report.

### Outbox
`RunsConsistent` says that what a run has in hand has a row, since the purge takes
only completed rows that no run has in hand, and that an object
about to be recorded as deleted is gone. `BudgetKept` balances attempts spent,
attempts left and requests, which bounds the storage calls although stale outcomes
reset rows. A task that was not overtaken is in hand of one run only, which holds
its attempt id unless the reaper gave the task up, and knows its attempt count
(`HeldByOne`): so its outcome is computed from the count of now, which gives
`NoStrandedTask` and `DeadLetteredAtLimit`.

### Storage
The difficulty is what requests remember of rows they read. `ReadsMakeSense` and
`BackfillHolds` relate `seen` to the rows of now, `FreshKeys` says that nobody knows
the keys of an upload before its commit, `UploadsStore` and `PhotoRows` that a row
appears with its objects stored and unqueued. `ReadIsQueued` and `GoneIsQueued` are
the halves of `OrphansExplained`: who has read a key and is done with it has queued
it, and photos disappear only through requests that have read them, as long as the
event exists. `DueIsListed` says that a selfie that was due gets no row any more and
is on the list of the run in progress, hence `OrphansCondemned`.
The lemmas `WhoChangesRows`, `WhoChangesOutbox`, `WhoChangesBucket`,
`WhoReads` and `WhoMoves` sort the actions by what they touch, so that each
conjunct needs to look at a few of them.

### Search results
Much of this module is computed: the heap that keeps the best of a stream, the
clusters, the faces in reach, the text of a bib. Each is a recursive function on
`0..n`. `LeastNumber` takes the least element of a set of numbers from the
well-foundedness of the strict subset order, `UpTo` is induction up to a number
with the claim as a set, and `Iterates` gives, once for all, the function that
iterates a step. From it each recursion is shown to have its values (`HeapExists`,
`CollectedExist`, `JoinedExist`, `RunsExist`, `ReachExists`), and then what it
computes:

* *Heap.* After every prefix of the stream, what was left out is no closer than
  anything kept, and then the heap is full (`OfferKeepsBest`, `StreamKeepsBest`).
  `ComparisonFaithful` adds the upsert, `BestExplained` and `BestNoneBetter` the
  merge of two transactions' rows at a commit.
* *Seeds.* A cluster stays connected when the face closest to it joins
  (`GrownConnected`, `JoinClusters`, `ClustersConnected`); `RequiredMajority` turns the
  percentage that is rounded up into a majority, and `SeedsMajority` combines them.
* *Texts.* A long run of common characters is a piece that stands unbroken in
  both texts (`LongestRun`, `CommonPiece`, `PartialPiece`), hence `EvidenceAgreed`.
* *Orders.* `SortedLists` and `TopOf` say what sorting and cutting a finite set
  give under a strict total order, which `DescendingOrders` and `RankingOrders` show
  of the keys; then `ItemsListed`, and `WholeArchive` for the items that fit.

`BibOnlySeeds` and evidence are functions of the state, so that these two properties
hold in every state of the right type. The other three need the invariant:

* `TopFacesKept` says nothing of rows that are not committed. `RowsExplained` says
  the same of the rows of each transaction, and of the scores it loaded once.
* `DriftBounded` speaks of committed comparisons. `RoundsNear` says that after `n`
  rounds a transaction compares only what is within `n` steps of the selfies that
  were completed and its own, although it orders by new scores and decides by old
  ones. What is in reach only grows (`ReachGrows`, `ReachedGrows`), and a face similar
  enough to reinforce is one step further (`ReachNext`).
* `ArchiveFaithful` speaks of finished downloads. `DownloadInStep` says that an
  unfinished one holds a prefix of the items, of the length of its offset;
  `ItemsSame` and `PageFollows` keep it. `RowsFollowText` says which photos have a match
  row or are about to get one, before the first rebuild and in the last step of one.

`Lawful(j, t)` collects what the invariant says of one transaction, so that each
action is shown to give its own a lawful record (`BegunLawful`, `ComparedLawful`) and
`TransactionStep` does the rest; `StaysLawful` carries the other transactions over a
commit and the photos indexed late.

### Participants
`MatchesExact` needs to follow a rebuild photo by photo. `FindingsHold` and
`ReadingsHold` say that what a rebuild or an OCR completion has found is still true
unless participants changed since, in which case it is marked stale.
`CleanOnTheWay` says of a rebuild that nothing stale has disturbed since it chose the
rows to clear: what is matched wrongly is among these rows, what is missing it has
not come to (`Pending`), and the participant it holds has the bib that was loaded.
A rebuild that has loaded the photos when another one clears is not clean any more
(`Undone`). `StepsMakeSense`
and `LockHeld` tie the steps of a request to the lock: two admins are at work at
once only after a takeover or the idle time.

### Admission
`RoomLeft` counts the files between their look at the backlog and their commit as
if they were in it; `busiest` is the most there ever were of them. Each is of a request
at work, and there are at most `Slots` per process of these that took a slot, by a
pigeonhole argument, besides those that came outside (`FewAtWork`).
`PassedAreCounted` says that what passed a check is in the
row of its window until no request can count there any more; it needs that a
request counts only in windows no purge has reached (`RequestsMakeSense`), which is
where the assumption of `Tick` enters. `BudgetSpared` adds what is on its way to a
later check to what that check has counted, and bounds the sum by what passed the
first. The sums are folds. What a fold computes is proved for finite sets from the
well-foundedness of the strict subset order (`LeastSubset`, `SumChosen`, `SumPick`,
`SumMonotone`, `SumChange`).

### Model-checked only
* Liveness: `EveryJobSettles`, `LeaseEnds`, `EveryTaskSettles`, `ExpiredSearchPurged`.
  They rest on fairness and ENABLED, which the prover does
  not reason about.
* The three refuted statements of section 3 and the finding.

Two theorems are about invariants that no run lists: `AttemptsBounded` of the
outbox and `ResultsFromLastAttempt` of the selfie search.

## 6. Not modelled

* *The claim poller and worker presence.* `FairClaimPoller` keeps its cursor when
  a claim raises, so that an endpoint that keeps failing is asked first each
  time; the presence thread may overtake the last draining heartbeat. Both are
  small state machines around what `Worker` models and need three queues at once
  to be of interest.
* *The participant-face queue.* No route creates such jobs any more.
* *Event administration.* Slugs, edits and publication are checks and writes on
  one row per request; deleting an event is in `PhotoStorage`.
* *Capabilities, CSRF, cookies.* Security functions; of them `Admission` has only that
  a request without the context of a browser is not given a category.
* Storage client, metrics, audit log, configuration, migrations, tools: see
  `PROJECT.json`.

## 7. Plan

Every safety property of a passing run is proved. Left, in this order:

1. Which photos a participant search may show, as a refinement of a small
   specification of results: the lemmas about orders and pages are there.
2. The claim poller and worker presence (section 6), if a second queue is
   added to `Worker`.

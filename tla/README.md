# Formal models of ArchiveX

ArchiveX archives X (Twitter) accounts: a FastAPI process, a scheduler process
and worker processes share an SQLite archive, a Redis instance (queue, locks,
schedules) and a directory of raw files. This directory models the parts whose
correctness depends on the order in which those processes act and on what fails
between two of their steps. The Python sources are under `src/archivex/` of the
repository; line numbers of every definition are in `PROJECT.json` ("map").

## Inventory

| Component (source) | State | Operations | Interacts with | Must hold | Module |
|---|---|---|---|---|---|
| Lifecycle tables (`task_center.py`) | `queue_tasks`, `queue_attempts` | `record_queued/started/finished/retry_scheduled/publish_failed`, abandon, delete history | called best effort by producers, scheduler, workers | tables agree; outcomes are final; attempts only grow | `TaskCenter` |
| Task queue (`tasks.py`, `queue_broker.py`) | dedupe lock, stream and pending entries, retry schedules, worker slots | enqueue and rollback, deliver, reclaim, claim, run, retry, finish, acknowledge, fire a retry | Redis, lifecycle tables | every task ends; active rows are backed; locks are not left behind; one executor | `TaskQueue` |
| Interval dispatch (`tasks.py` 608-702, 1006-1046) | lease key, last-dispatch key | begin, renew, finish | scheduler fires it, it enqueues synchronisations | one dispatcher, dispatches spaced | `ScheduleDispatch` |
| Gaps and post recovery (`source.py` 582-693, `sync.py`, `storage.py` 387-525, `tasks.py` 760-955, `api.py`) | `archive_post_fetches`, observations, archive switches | scan pages, register, request, ingest or ignore, recovery task, retry, reset, change switches | crawl worker, operator, queue | no gap forgotten; rows agree with the archive; gaps settle | `PostRecovery` |
| Session leases (`source.py` 63-561) | lease file, its marker, module globals, locks of the account pool | acquire, open, close, release, recover after a crash | two workers while one replaces the other, the pool | no live lock and no rate limit is cleared; no lost lock is forgotten | `CrawlWorker`, `CrawlLock` |
| Sync runs (`storage.py` 1225-1279, `sync.py`) | `sync_runs` | interrupt predecessors, start, finish | the crawl task | an outcome is final; no run stays running | `CrawlWorker` |
| Archive store (`storage.py` 740-1175, 1297-1431) | posts, references, reposts, observations, media rows, raw JSON | `ingest_item` in one transaction, raw files beside it | crawl tasks, recoveries | a sound graph; rows and files agree; content never degrades | `ArchiveStore` |
| Media download (`media.py`, `tasks.py`, `sync.py`, `task_dispatcher.py`) | media rows, media files | take, fetch, install, complete, fail | overlapping executions | a completed row has its file and stays completed | `ArchiveStore` |
| Offline conversion (`migrate.py`) | live database and files, backup, candidate, `report.json` | rehearse, apply, resume, clean up, roll back | services before, between and after; lifecycle tables | interrupted anywhere the archive can be served and the command continued; nothing new is lost | `Conversion` |
| Compaction (`migrate_compact.py`), row conversion of `_build` | candidate, backup | - | - | every row is mapped or listed as unresolved | not modelled |
| API retry of failed tasks (`api.py` 396-523) | reads lifecycle rows | rerun, retry latest failures | queue, tables | only unresolved failures are queued again | planned (the post part is in `PostRecovery`) |
| Queue health (`queue_health.py`) | heartbeat keys | write, delete if owned, readiness | Redis, tables | a live service is never reported missing for longer than a TTL | planned |
| Backup, container state (`data_backup.py`, `docker_state.py`) | copies of databases and files | copy, verify, swap | before the services start | the original survives | planned |
| Post model, configuration, logging, session CLI, web interface, scripts | data conversion or I/O | - | - | - | not modelled (what `parse_post` can return shapes the items of `ArchiveStore`) |

What is hard here: several processes write the same rows with best-effort,
unordered, repeated events; messages are delivered at least once and may be
redelivered while they still execute; a retry consists of four steps in three
stores; locks and leases end by time, and the pool's locks have no owner; files
are replaced outside the transactions that refer to them; the operator changes
policy and rows while a worker is between a read and a write; a conversion may be
killed between any two files and continued by three different commands.

## Modules and their correspondence to the code

**TaskCenter.** `task[t]` is the row of `queue_tasks` (status, current_attempt,
whether `next_retry_at` and `error` are set), `attempt[t][a]` the status of the
row of `queue_attempts`. One action per `_write` transaction;
`record_publish_failed` is two transactions and therefore two actions.
`TCNext` lets every event arrive at any time: it is the contract of the tables
with callers that are not ordered.

**TaskQueue** extends it with everything around one target: `producer[t]` is the
call of `enqueue_*` (reserve, publish, `post_send`, or the three steps of the
rollback; `failed` when the call raised or died in its rollback); `lock` the
dedupe key; `stream` and `pending` the Redis Stream; `slot[s]` an execution
inside a worker, whose `pc` says which middleware or part of the task body comes
next; `schedule` and `scheduler` the retry schedules and the process that fires
them. The constant `Kind` selects the task function where the three differ (which
failures are permanent, which keys `_release_failed_retry_lock` knows, the
ownership check of a synchronisation). Every failure is an action or disjunct
that needs its name in `FaultKinds` and draws on `MaxFaults`. There are fifteen: a
best-effort record that is lost, the publication that fails or whose reply is lost,
a caller that dies, a rollback that cannot write, a required write that fails, a
schedule that cannot be written or whose outcome is unknown, a key that expires, a
scheduler or worker that dies, an entry delivered again while it executes, a
reservation whose reply is lost (`reserve_reply_lost`), a claim or release that
raises out of a task body (`call_raises`), and a release whose failure is only logged
(`release_logged`: `_rollback_failed_publish`, `_release_failed_retry_lock`).

**ScheduleDispatch** models `schedule_enabled_accounts_task`, one Redis command
per step, with a discrete clock, a lease that ends by time, retries and process
exits between any two steps.

**PostRecovery** models gaps of a timeline. `row[p]` is the row of
`archive_post_fetches` (status, `retry_exhausted`, whether it was attempted);
`worker` is the single crawl slot, running a synchronisation (`page`, `register`,
`detail`, `asking`, `yield`, `dispatch`) or a recovery task (`recover` ...
`done`); `policy`, `retry` and the operator actions are the API. The queue is
reduced to what TaskQueue establishes: one task per post, a bounded number of
attempts, redelivery after a crash.

**ArchiveStore** models `ingest_item` and the downloads. `tx` holds the
uncommitted tables of the one open write transaction and the position in the
item; a step handles one content post of the chain in the order of `_content`
(validate, upsert row, media rows, raw file), then the repost event, then the
observation, then the commit. Raw files are on disk at once and stay when the
transaction aborts, which it may at every step. `download[d]` is an execution of
`download_media_task`, or of the inline loop of `_download_post_media`; fetch,
install, and the row are separate steps and an execution may end between them.
Assumed of the items, and stated in `StoreAssumption` or here: a placeholder is
the first of its chain and has no media; a media file has one name. Captures of one
tweet may name different references, as `parse_post` returns them when a quoted
post is missing from the payload. The rank of deleted posts is written by migrations only and
does not occur. A checksum that differs between two overlapping downloads and
torn temporary files are not modelled; `os.replace` is atomic.

**CrawlWorker** models crawl workers, of which one replaces the other. `proc[p]`
are the module globals of a process, `flock` and `marker` the lease file,
`lock` the lock on the account of twscrape's pool (external: it knows a time as a
stamp and no owner), `task[p]` a synchronisation from the construction of its
source to `finish_sync_run`, `run[p]` the last row of `sync_runs` the process
inserted. `RunEnds` and the others do not depend on the archive. Assumed: one
account; the queue UserTweetsAndReplies, the only one that is recovered (targets
of others are dropped from the marker by design); no two locks with the same
stamp; no request that lasts as long as its 15 minutes; a marker that is written
whole (a torn one reads as clean); one task at a time per worker, as
`.agents/TWSCRAPE_WORKER_RECOVERY.md` fixes it. Inactive accounts, an OSError at
opening the lease file and the branch for inherited forks are left out.

**CrawlLock** is what `CrawlWorker` implements, in one variable: the lock of an
account is `held` by one request, `limited` by X, or `lost`; only a lost one may
be recovered. `Promise == INSTANCE CrawlLock WITH account <- Account` maps the
pool's lock to it, `held` if some process still executes the request; `LockSpec`
is checked and proved of the worker.

**Conversion** extends TaskCenter, whose transactions are what the services
commit while no command is at work. `db` and `files` say how the live database
and the live files compare with the snapshot (`source`, `whole` of `Old`), the
candidate (`candidate`, `whole` of `New`) or neither (`written2`, `written3`,
`changed`), which is all the commands find out by SHA-256 sums and logical dumps.
`command` and `todo` are the position in `_apply_candidate`,
`cleanup_legacy_files` and `rollback_migration`, file by file; `candidate` is what
`_validate_candidate` checks; `Killed` takes the command away at any step, without
its `finally` blocks. Files of both sides are disjoint (`accounts/` against
`posts/`, `reposts/`, `preserved/`). One output directory is followed, and a new
rehearsal starts only where the last one left nothing behind. Services run beside a
rehearsal, and are stopped while a command changes the archive, as the
documentation demands; on schema v2 they are the application of the version
before. `_build` is one step that finds issues or none.

Compositions: `TaskQueue` and `Conversion` extend `TaskCenter` (same variables).
The queue implements it: `TCSpec` is checked and proved of the queue. In the
conversion the services take its steps, and the commands leave the modelled columns
alone: `_migrate_tasks` (`migrate.py` 724-789) copies them as they are and changes
only targets and contexts. The `*MC` modules hold only the values of constants.

## Runs

| Run | Shows | Bounds |
|---|---|---|
| `tables_conversion` | tables agree, retries have a time, outcomes are final, attempts grow, under arbitrary event orders; the conversion leaves a database that finds its files, can be continued, adopts no active task, destroys no new write | 1 task, 3 attempts: late events of an older, the same and a newer attempt all exist; 2 files on either side (one done, one to do); 2 kills or failed copies: one of a command, one of the command that continues it |
| `queue_lock` | the lock excludes and is never orphaned under lost records, failed publications, writes and schedules, claims and releases that raise, and expiry of an idle lock | 2 tasks on one target, 2 slots, 3 attempts, 3 failures |
| `queue_redelivery` | rows are backed, retries are recorded first, outcomes final, with crashes, redelivery of executing entries, unknown schedule outcomes, keys that are not released | 2 tasks, 2 slots, 2 attempts, 2 failures: a failure and a failure of its repair |
| `queue_tables` | the tables are driven only as `TCSpec` allows, and every task ends, with all fifteen kinds of failure | 1 task, 2 slots, 2 attempts, 2 failures |
| `schedule_dispatch` | one dispatcher, spacing, lease ownership | 2 executions, each restarted up to twice (so 6 deliveries), 8 time units with interval 4, lease 2, tolerance 1, 2 accounts |
| `post_recovery` | gaps persist, rows agree with the archive, gaps settle | 3 posts (shown, collapsed, foreign author), 2 pages of which one shows and names posts of the other again, 2 attempts, 2 events |
| `archive_store` | the content graph is sound, rows and raw files agree, media stay reachable and have their files, nothing degrades | 3 tweets, 2 media, 2 overlapping executions, 7 items: a quote whose post is embedded, not embedded, not named, or read as a reply to another one; a partial one and the full one inside of a repost; a cycle closed by another author; a repost's id taken for a post |
| `crawl_worker` | refinement of `CrawlLock`; recorded locks are kept and cleared; outcomes are final and runs end | 2 processes, 6 stamps (reused when forgotten, and `WorkerTypeOK` says one is always free), 2 exits, crashes or failing recoveries |

Disagreements of code and documentation, each a run that TLC shows violated:

* `queue_late_publish_failure`: `record_publish_failed` marks a completed task
  abandoned when only the reply to XADD was lost.
* `queue_stale_retry`: a stale attempt that was redelivered and has claimed the
  lock again ends without releasing it; the target is refused until the TTL.
* `queue_post_lock`: a post recovery whose retry cannot be scheduled fails and
  keeps its lock, since `_release_failed_retry_lock` has no branch for it.
* `post_ignored`: a post can be marked ignored by switches that were changed in
  between, and stays ignored although its type is archived again.

Each passing run lists its failures in the cfg, and what is absent matters.
`queue_lock` has no crash and no redelivery: with a crash the lock may be orphaned
(`queue_stale_retry`), with a redelivery of an executing entry the claim script
admits the same task id and two executions overlap; a producer that dies after
the reservation, or that lost the reply to it, leaves the lock to its TTL, and so does
a failed release that the code only logs. These are limits of what the code
promises, not of the model: with any of them added TLC shows `LockIsBacked` violated. `queue_redelivery` has no lost
reply (see above) and no failing rollback: when the second transaction of
`record_publish_failed` fails, the row of an unpublished task stays queued, and
a mark that is late can even stop the record of a later attempt and be reopened
by its `record_queued`. `queue_tables` has every failure, and `EveryTaskEnds`
excepts just the row of a task whose enqueueing call failed.
`schedule_dispatch` assumes `Timely`: with FALSE an execution that lost its lease
writes its older time over a newer one. In `archive_store` an execution may turn a
completed row to failed while it is at work (`fail_media` has no condition);
`CompletedIsFinal` says that this ends with the execution. `MediaStayReachable`
excepts an item that `Misleads`, and only that: `_upsert_post` replaces the reference
of a row by another one that is given (`storage.py` 786), and a capture that is worse
than the row is skipped (771-775) while the posts it leads to and their media are
stored all the same (981-1005). `parse_post` (`post_model.py` 136-149) returns such
captures, the items of the run include both, and without the exception TLC shows
media that were reached being cut off: rows that are pending stay so until a later
capture leads to them again. In `crawl_worker` a
process that dies between the pool's lock and the marker leaves a lock nobody
recorded, which only `Expire` ends.

`tables_conversion` contains a rollback that is killed while it copies an original
(`KilledRestoring`): `rollback_migration` copies straight to the final name, also
over originals that are intact, so half a file may stay; a second rollback then
takes it for a new write, a resume for a changed source, and an operator has to
copy the file from the backup by hand. `ServedFilesIntact` and
`RecoveryIsAccepted` except exactly that file and that state; without the
exceptions TLC shows both violated.

## Fairness

`TaskQueue!Fairness`: a call that has begun continues (its coroutine is
scheduled by a running event loop), each worker slot consumes, reclaims and
executes (`listen` reclaims before every read), the scheduler polls. No failure
is ever fair, no producer must call. `PostRecovery!Fairness`: the crawl worker
continues what it began (weak); a recovery task in the queue and the periodic
synchronisation each get the worker again and again (strong, because the queue
is first in first out and the other may run in between). `CrawlWorker!Fairness`:
a process that ended is started again by its container, gets a task and executes
it (weak); a scan comes to its end (a timeline is finite) and a task with
something to recover does so unless it ends before, which not every one does
(strong). Locks are never assumed to run out. The safety runs of the others state no
fairness: nothing obliges an operator to continue a conversion.

## Proofs

TLAPS checks, for every value of the constants:

* `TaskCenterProofs`: `TCTyping` ([]TCTypeOK), `TCSafety` and from it `TCNewest`
  and `TCDeadline` (CurrentIsNewest, RowMatchesAttempt, RetryHasDeadline),
  `TCSettled`, `TCMonotone`. The inductive invariant is the conjunction of the type
  invariant and the three safety invariants: that a settled row has the matching
  attempt row needs that current_attempt is the newest attempt, or a late event
  could rewrite the attempt and not the row. One lemma per transaction.
* `TaskQueueProofs`: `QueueTyping`, `QueueRefinesTables` (each action of the queue
  is a step of TaskCenter or leaves the tables alone; it needs the typing, since
  a retry is only scheduled below the last attempt), and from these
  `QueueSettled` and `QueueTablesAgree`. The other five hold for some kinds of
  failure only, and each names the kinds it excludes. None is excluded in vain:
  with any one of them added to the cfg of the run, two failures are enough for TLC
  to find the property violated.
  `QueueRetryRecorded` and `QueueSettledIsFinal` exclude a publication whose reply is
  lost (`NoReplyLost`), `QueueRowsBacked` also a caller that dies and a rollback that
  fails (`RowsAreSafe`), `QueueOneExecutor` whatever delivers or schedules an attempt
  twice (`OneDelivery`), `QueueLockBacked` that, a caller that dies, a reservation whose
  reply is lost, a release whose failure is only logged, and for the post recovery a
  retry that cannot be scheduled and a lock call that raises (`LocksAreSafe`). The cfgs of
  `queue_redelivery` and `queue_lock` satisfy these hypotheses. They rest on
  `QuietInv` (a task whose call has not published, or has taken it back, is known to
  no part of the queue), `CauseInv` (a retry has an attempt that ended before it),
  `BackInv` (what moves a row on exists until its successor does), `SingleInv` (an
  attempt is at one place), `OwnInv` (an execution in its body owns the key),
  `FreshInv` (what is live or waits is not superseded) and `KeptInv` (while the key is
  held, its owner is at a step that still has to release it).
* `ScheduleDispatchProofs`: `DispatchTyping`; under `Timely` `DispatchIsSerialised`
  and `DispatchSpacing` (OneDispatcher, DispatchesAreSpaced), by the invariant that
  who believes to own the lease does and that what it read of the last dispatch is
  still true; `DispatchLease` (LeaseIsOwned) without any assumption.
* `ArchiveStoreProofs`: `StoreTyping`, `StoreFiles` (FileBacksRow), `StoreCompleted`
  (CompletedIsFinal), `StoreGraph` (GraphIsSound), `StoreRawFiles` (RawBacksRow),
  `StoreNeverDegrades` and `StoreMediaReachable` (MediaStayReachable). `GraphInv` states
  the promises of the committed tables and of the open transaction alike, and that
  the transaction extends what it began with: a step changes only the transaction,
  so nothing of the committed part can be proved at the commit alone. For the raw
  files it also says that a file is no worse than any row it may serve, committed
  or not. `StoreMediaReachable` assumes nothing of the items; `ReachInv` follows
  one that does not mislead: it keeps every stored reference, its chain is linked as
  far as it is stored, every new media row belongs to the chain, and the rows it has
  yet to reach are as they were when it began, so that what `Misleads` says of the
  committed rows is true of those the step finds.
* `CrawlWorkerProofs`: `WorkerTypes`, `WorkerTyping` (WorkerTypeOK; that a stamp is
  always free is proved for finitely many processes and infinitely many stamps,
  since all that is remembered is finite, and only checked on the six stamps of the
  run), `WorkerLock` (LockSpec, the refinement of CrawlLock), `WorkerRecord`
  (RecordedIsKept) and `WorkerOutcome` (OutcomeIsFinal). `StampInv` follows the stamp
  of an open request: it is in nobody's targets and in no other process's mind, and
  in the marker only while its process holds the lease, so that no recovery finds
  it; a rate limit has a stamp nobody has written down. All steps of a process but
  three are `Calm`: they hand stamps on and add none. `MarkInv` adds that the marker is what
  the holder of the lease has in mind, that a process without the lease has
  nothing in mind, and that a task looks for all that is recorded before it crosses
  it out.
* `ConversionProofs`: every property of the conversion. `ConversionTyping`,
  `ConversionServesFiles`, `ConversionKeepsWrites`, `ConversionRecovers` and
  `ConversionAdoptsEnded` rest on the invariant `CInv`, whose part `Phases` says what each phase of a command may
  rely on: that the files a switch needs are there, that a rollback found nothing
  changed, that services are stopped. The checks a command made at its beginning
  are not repeated, so the invariant has to carry them to its last file. `QueueKept`
  adds that the queue of an unchanged database is as idle as when the snapshot was
  taken. Nothing is proved of the rows the conversion builds: that the columns of
  TaskCenter are copied as they are (`migrate.py` 724-789) is put into the model.
* `PostRecoveryProofs`: `RecoveryTyping`, `RecoverySafety` and from it
  `RecoveryCompleted` (ExhaustedIsPending, CompletedIsArchived), by the invariant
  `IInv`: every write of a row keeps it sound (`RowWrites`), and only a page that
  exists is worked on.
* `PostRecoveryGaps`: `RecoveryGaps` (GapsPersist) for every timeline. Posts may
  recur on later pages (`source.py` 652) and be named before they are shown, so
  the property and the invariant `GInv` speak of the pages up to a post
  (`PagesUpTo`): those before the first page with the post, and that page if it shows
  it. A named post may be archived by its own recovery while the gaps of its page
  are still being recorded, so its page is not among them. `GInv` says that the
  gaps of the pages up to a post are known as soon as anything but the timeline
  knows of the post (a row, a task, a pending retry, the worker), that the scan leaves
  no page with unknown gaps behind, and that what the worker looks at is on its page.

The only assumptions are the named ones on the constants, which TLC evaluates in
the runs, and the hypotheses named above (`NoReplyLost`, `RowsAreSafe`,
`OneDelivery`, `LocksAreSafe`, `Timely`), each of which the
instance of the run satisfies. Every invariant and every action property of a passing
run is stated by a theorem. The inductive invariants were checked with TLC on the
instances of the runs before they were proved. Only model-checked: the liveness
properties (EveryTaskEnds, GapsSettle, RecordedIsCleared, RunEnds), since liveness
under fairness and ENABLED are beyond the prover; and IgnoredIsExcluded, which the
code does not satisfy. Facts about recursive definitions would be beyond it too;
the modules have none.

## Not modelled

Message contents, queries, serialisation and logging; the account pool of
twscrape beyond its answers and locks; X itself beyond the answers the code tells
apart. One timeline is fixed per behaviour: posts that appear while a scan runs are
not modelled. The x_users rows and the history of usernames, the counters of a
sync run and the status of an account, and the additive upgrades of
`initialize_storage` are data that no property here depends on. How `_build` maps
v2 rows is a conversion of data, and `migrate_compact.py` repeats the pattern of
`Conversion` with files it moves instead of copies. An
application interrupted in the middle leaves an archive in neither layout until it
is resumed to the end or rolled back. The parts the inventory marks planned or not
modelled have no module.

## Plan

1. `TaskCenter`, `TaskQueue`, `PostRecovery`, `ScheduleDispatch`, `ArchiveStore`,
   `CrawlWorker` with `CrawlLock`, `Conversion`, with their runs and proofs (present).
2. Proofs: what the queue still promises under the failures that the theorems exclude
   (who may hold an orphaned key, how far two executions of an attempt can be apart).
3. `RetryFailures`: the API's retry of the latest failures over TaskCenter's
   tables; the heartbeats and the readiness probe that reads those tables.
4. Backup, container state and compaction with an exit between any two file
   operations.

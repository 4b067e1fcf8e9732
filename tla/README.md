# Drift Guard: specification, model checking and proofs

Drift Guard is a FastAPI service with arq workers.  It ingests runbooks, checks
them against evidence about the running systems, keeps alerts and a score for
each document, and notifies people of what an audit found.  Its state is in
PostgreSQL; work travels from the API to the workers, and from worker to worker,
through one arq queue in Redis.  The core of the program is therefore not in any
single function but in short transactions of several processes with stale
objects between them, in locks that transactions hold, and in a queue that runs
a job again when its worker dies.  That is what the modules here are about.

* [The system](#the-system): components, state, operations, hard behaviours
* [The modules](#the-modules): what each models, and how it corresponds to the code
* [The runs](#the-runs): what TLC checks, the bounds, the fairness
* [The proofs](#the-proofs): what holds for every value of the constants
* [Findings](#findings): where the code and what it says of itself differ
* [What is not modelled](#what-is-not-modelled), and [the plan](#the-plan)

Paths are relative to `src/app/` unless they start with `src/`.

## The system

| component | state | operations | talks to |
|---|---|---|---|
| Audit job lifecycle (`services/audit/audit_job_service.py`) | row of `audit_jobs`: status, counters, times, error | create, mark running, increment, mark completed, mark failed; each locks the row, checks a guard, commits | called by handlers and tasks through their own sessions |
| Worker tasks (`workers/audit_run_task.py`, `ingest_task.py`, `runtime.py`) | the session and its objects while a task runs | run an audit, ingest a source; on an exception mark the job failed and raise | audit jobs, scans, source sync, notifications |
| Request handlers (`api/v1/audit.py`, `sources.py`) | the session of a request | create a job, enqueue it, fail it if the enqueue failed | audit jobs, queue |
| Alerts and scans (`services/drift/alert_service.py`, `services/audit/audit_scan_service.py`, `api/v1/alerts.py`) | rows of `alerts`, advisory locks by dedup key | scan all documents: insert new alerts, resolve stale ones; resolve one by request | rules, evidence, scores |
| Scores (`services/scoring/scoring_service.py`) | rows of `runbook_scores`, appended | read alerts and entities, compute, insert a snapshot | alerts |
| Notifications (`services/alerting/notification_service.py`, `workers/notification_task.py`) | row of `notification_deliveries` per dedup key: status, attempts, stamps | plan deliveries, get or create rows, enqueue; a sender claims, posts, records | audit tasks, queue, Slack, mail, webhooks |
| Worker queue (`workers/queue.py`, arq) | jobs in Redis, keyed by job id; results; leases | read the depth, then enqueue (refused at capacity or if the id is known), take, finish, retry | everybody |
| Document ingestion and source sync (`services/ingestion/`) | `documents`, `document_versions`, `entities`; two kinds of advisory locks | upsert a document; sync the files of a source in one transaction | Git ingestor, extraction |
| Document API (`api/v1/documents.py`) | none of its own | upload, list, get, delete | ingestion |
| Nightly scan (`workers/nightly_scan.py`) | its loop; job ids made of the day | list the sources, open one pool, enqueue the ingestion of each; raise at once if one of the first two fails, at the end if some sources failed | queue |
| Rate limit (`dependencies/rate_limit.py`) | a deque of hits per subject, in memory | admit or refuse a request | heavy endpoints |
| Collectors and evidence store (`services/evidence/`) | records by collector and target, local to a scan | ask another system, interpret its answer, file it | scans, rules |
| Rules and rules engine (`services/drift/rules/`, `rules_engine.py`) | none | functions of a document and the evidence to alert drafts | scans |
| Audit reports (`services/audit/audit_report_service.py`) | none; five statements, each on its own snapshot | global and service report | reads every table |
| Entity extraction, Git budget, middleware, schemas, configuration, migrations | none | pure functions, wiring | |

### What is hard here, and what makes each component correct

*Crash and redelivery.*  arq runs a job at least once: when a worker dies, or a
task is cancelled by the worker's shutdown, the job is taken again, up to
`max_tries`.  Every task is a sequence of transactions; a retry meets what the
first execution committed.  An audit job must not be run after it was refused,
must not be counted twice for one execution, must not change after it completed,
and must end.

*Stale objects.*  A session keeps the attributes it read.  Handlers and tasks
hold an `AuditJob` across other transactions, and the `refresh` after a commit
reads it once more; a guard may pass on a row that has moved on.

*Answers that are lost.*  The enqueue of a job may take effect and still raise.
The handler then fails a job that a worker already runs.

*Two of the same.*  Two scans see the same drift; two senders hold the same
delivery after a lease expired.  One open alert per dedup key, one reception per
delivery, no circle of lock waits.

*Locks that last as long as a transaction.*  A synchronisation upserts many files in
one transaction and keeps the lock of each until it commits, and so does a scan
with its alerts.  No two may wait for each other, and what a session read under a
lock must still be so when it writes.

*Best effort inside a transaction.*  A failed score refresh is rolled back and
the scan goes on, but a rollback expires every object of the session.

*Order of creation and enqueue.*  Notification rows are committed before they
are enqueued; a crash in between must not lose or duplicate them for ever.

*Two calls where one is meant.*  The depth of the queue is read in one call and the
job is added in another; a report is five statements.  Producers race for the room
that is left, and a report may look at five different moments.

*Loops that must stop and edges that must be exact.*  A catalog is followed from
cursor to cursor, whatever the cursors say.  A window forgets a hit at the moment it
is as old as the window.  The order of versions is written by hand, with releases,
pre-releases, numbers and words.

PROJECT.json lists each hazard at the line where it bites, with the property
that would catch it or the reason why none does yet.

## The modules

```
AuditLedger             DeliveryLedger                            DocumentCatalog
   ^ implements              ^ implements                             ^ implements
AuditJobs               NotificationDelivery       AlertScan       DocumentIngest
   uses AuditJobRows         has the plan of NotificationPlan

RateLimit    WorkQueue                      Collectors    DriftRules
      \          |  extended by                     \        /
       \     NightlyScan                            DriftCheck      AuditReport
        \      /
        Admission
```

Each component has a module with its constants, variables, one action per
operation or step, `Next`, `Spec`, and its properties; an `MC` module with the
small instances; and a `_proofs` module.  `FiniteSums` has what two of the proof modules
need of sums over sets.  `Admission` and `DriftCheck` are
compositions: they extend the modules below them, and their actions are those of
the parts with what the others leave unchanged.  An operator commented *Mutant* is
not part of a specification: it is the same definition with a plausible bug,
kept to show that a property notices it.

The components meet at committed rows and at jobs in the queue.  `AuditJobs`
abstracts a scan to the increments it makes (`Work`, `Count`), `AlertScan` has that
scan and abstracts rules and evidence to `world`, and `DriftCheck` has what one
element of `world` is.  `NotificationDelivery` starts from what a completed run
created, `Admission` ends where a job is taken, and `AuditReport` reads what all of
them commit, each by one action named after it.

### AuditJobRows, AuditLedger, AuditJobs

`AuditJobRows` is the row of `audit_jobs` as a record with the guards and the
writes of `audit_job_service.py`: `CanRun` and `Running` for
`mark_audit_job_running`, `CanIncrement` and `Incremented`, `CanComplete` and
`Completed`, `CanFail` and `Failed`.  The two counters of an increment are one
(`Deltas` gives the increments), times are present or absent.

`AuditLedger` is the abstract specification: a row per job, changed atomically
by whole operations whose guards are read from the row itself.

`AuditJobs` is the program.  `row` is the committed table, `copy` what the
session of a handler or a worker slot remembers of its object, `api` where a
request is, `queue` arq's jobs with `tries` executions so far, `task` and `pc`
what a worker slot runs and where.  Each action is one transaction or one step
between two: `CreateJob`, `EnqueueJob`, `EnqueueFails`, `RejectJob` for the
handlers of `POST /audit/run` and `POST /sources/{id}/sync`; `Take`, `Load`,
`Start`, `Refresh`, `Work`, `Count`, `Complete`, `Notify`, `Return` for the
tasks; `Raise`, `Fail` for their `except` blocks; `AlreadyComplete` for the
early return; `ScanRollsBack` for a scan that survives a rolled-back score
refresh because it re-read the document; `Timeout`, `Crash`, `GiveUp`,
`LeaseExpires`, `HandlerDies` for what the environment does.  The write of an
operation is computed from `copy`, not from the row (`Merge`: an UPDATE sets the
attributes whose value changed), which is where stale objects matter.

`Faults` says which of `api_crash`, `worker_crash`, `timeout`, `db_error`,
`lost_reply` and `lease_loss` may happen; so a run and a theorem say exactly
under which faults a promise is kept.

### NotificationPlan, DeliveryLedger, NotificationDelivery

`NotificationPlan` computes, from the settings and what an audit found, which
deliveries `_create_deliveries` plans, with their dedup keys.

`DeliveryLedger` is what is promised of each delivery: recorded attempts that follow one
another, at most `MAX_ATTEMPTS`; an attempt (`Begin`) reaches the target at most once
(`Reach`, `Miss`) and ends in `Deliver`, `Fail` or without a word (`Abandon`).

`NotificationDelivery` has several audit executions (`Runs`) that look up,
insert, reread and enqueue the rows of the plan (`Lookup`, `Insert`,
`AllCreated`, `ReadExpired`, `Enqueue`, `Finish`, `Stop`), and `Senders` that
execute notification tasks (`Take`, `Load`, `Exhaust`, `Claim`, `Refresh`,
`Post`, `Record`, `DbError`, `Return`).  A lease may expire under a sender that
lives (`LeaseExpires`), so two of them may hold one delivery; `Crash` and
`GiveUp` complete arq's behaviour.  The target's side is the history variable
of what it received.  `Attempt` maps where the senders of a delivery are to the attempt
of the ledger.

### AlertScan

`AlertScan` has scans (executions of `scan_all_documents`), requests that resolve
an alert, and the world, which drifts.  `alert[k]` is the sequence of rows with
dedup key `k`; `lock` the advisory locks; `score[d]` the set of alerts that the
latest snapshot of `d` deducts for, which is what relates a score to alerts.
`List` to `Report` follow `scan_all_documents`; `Probe` is
`pg_advisory_xact_lock` with the lookup behind it, `Insert` the commit of all new
alerts, `NothingNew` the return without a commit (the locks stay), `Reconcile` the
SELECT and `Resolve` the UPDATE of the stale ones.  `ReadAlerts`, `Snapshot` and
`RefreshFails` are `score_document` in whichever session runs it; `then` says what
that session does next.  `Get`, `Update`, `RequestFails` are
`PATCH /alerts/{id}/resolve`.

A rollback expires the objects of a session: `expired` says which documents a scan
can no longer read without a reload, `Unreadable` where reading one raises.

Evidence, rules and messages are one set, `world`: what the rules would find now.
A dedup key is a model value with its document (`DocOf`) and its place in the
order in which the rules raise it (`Rank`).

### DocumentCatalog, DocumentIngest

`DocumentCatalog` is what ingestion promises: `Apply` takes a whole batch of files
to the catalog at one instant.  A path that has no live document gets one, a
document whose latest version has other content gets the next version, and one
with the same content is left alone.  `Submit` changes what a session is about to
apply and no document, `Withdraw` ends a session that applies nothing.  `Delete` marks
a document, and says of the sessions with that path in their batch which have looked it
up already (`outdated`): only those revise the deleted document when they apply, for
all others the path has none.

`DocumentIngest` is the program.  `docs[p]` is the committed rows of one identity
in the order of their creation, each with its versions; `lock` the advisory locks
of `_acquire_document_lock`, `vlocks` those of `_acquire_version_lock`.  Of a
session it keeps the files it read (`batch`), those still to do (`todo`), the one
at hand (`at`), and its uncommitted rows: `found`, `made`, `written`.  `FetchFile`
is the Git ingestor, which reads each file when its turn comes, so that one batch
can mix two commits of the branch; `StartUpserts` and `NextFile` are the loop of
`sync_source`; `LockDocument`, `Find`, `Create`, `KeepVersion` and
`WriteVersion` are `upsert_document` up to each point where it waits or reads;
`Commit`, `Return`, `Raise` and `Crash` its ends.  `Create` has the partial unique
index on live documents: an insert waits for one that is not committed, and
fails (`conflict`) if there is a live row.  `Delete` is the endpoint, which takes
no advisory lock.  The catalog's `outdated` are the files whose document a session found
and which was deleted since (`Outdated`); a lookup that found
deleted documents would not implement the catalog (mutant `FindsDeleted`).

An upload is an ingestion of one file that nothing runs again.  It takes the same
steps, and because its documents have no source it never meets a synchronisation:
the instance has none, the theorems hold with any number of them.

Left out: two identities whose lock ids collide (they would only wait for each other
more often); the wait of a deletion for a row that an ingestion has updated, which
ends with that ingestion; entities and normalised text, which are written with
their version.  External and assumed: GitHub lists a directory in a fixed order.

### RateLimit, WorkQueue, NightlyScan, Admission

`RateLimit` has one deque of hits per subject, kept as a log with the number of
elements that left it, so that properties can speak of hits the code has forgotten.
`Admit` and `Refuse` are the whole dependency: the loop of `popleft` ends at the first
hit that is younger than the window (`PoppedTo`), and what it popped stays popped when
the request is refused.  `Forget` is a restart of the API.

`WorkQueue` is `queue.py` with the part of arq it relies on: `FindRoom` and
`FindNoRoom` read the depth, `Enqueue` adds the job in another call, and between the
two a producer is in `checked`.  arq refuses an id that is queued or whose result it
keeps (`Known`); `EnqueueFails` raises before or after Redis took the job.  A read of
the depth fails only where there is a maximum to compare it with (`DepthUnread`);
`PoolFails` is for requests, which hand over no pool of their own.

`NightlyScan` is the cron job with its loop over the sources it listed; an id is the
UTC day at the start of the scan with the source, so midnight may pass in between and a
retry gets other ids.  `BeginScan`, `ListSources` and `OpenPool` lead to the loop, or
`ReturnEmpty` out of the scan; a scan whose listing or pool fails (`ListFails`,
`OpenPoolFails`) has state `aborted`: it raises with nothing enqueued and no source
named, as `src/tests/unit/test_worker_nightly_scan.py:159` expects.  In the loop
`PassFailed` is `failed_sources`; all sources share the one pool.  `EndScan` is the
return (`done`) or the `QueueEnqueueError` at the end (`raised`), `CancelScan` arq's
timeout.

`Admission` lets requests pass the limit and then race the nightly scan for the queue
and the worker's slots.

### Collectors, DriftRules, DriftCheck

`Collectors` is what each collector makes of each kind of answer (a status code, a
timeout, another failure, a body of the wrong shape, a URL that is not public), and
how `EvidenceStore` files it.  A message matters only as far as the code looks at it:
`None`, blank, or text.  `DriftRules` are the five rules and the score, as functions;
a draft is what its fingerprint is made of, so that the engine's deduplication is the
set.  `DriftCheck` is the check of one document: `Probe` for each distinct URL, the
other collectors for callers of their own, the pages of incident.io one action each
(`StartLookup`, `ReadPage`, `PageFails`), then `Evaluate`, or `EvaluateRaises` when
a URL cannot be parsed.

### AuditReport

The two reports query by query (`Request` to `ReadLowest`), on whatever is committed
when the query runs.  The other components appear by what they commit: `Ingest`,
`Delete`, `Raise`, `Resolve`, `TakeScore`, `RequestJob`, `StartJob`.  The latest
snapshot of a document is the last of its rows, the lowest scores are any first rows in
the order of the query, and the latest job is one that never started if there is one,
because PostgreSQL sorts nulls first.  An alert is a document with what is wrong with it
(`Alerts`, a dedup key), of which the severity is a part (`SeverityOf`), so a document
may have several open alerts of one severity.

## The runs

Every constraint on size is a constant: `MaxTries` is arq's `max_tries`,
`MaxAttempts` is `MAX_ATTEMPTS`, `Limit`, `Window`, `MaxDepth` and `MaxJobs` are
settings; `MaxCrashes`, `MaxDrifts`, `MaxPushes`, `MaxWrites`, `MaxTime` and `MaxDay`
bound what the environment does and have no counterpart in the code.

| run | instance | states | what it shows |
|---|---|---|---|
| `audit_jobs_hostile` | 1 job, 2 slots, 3 tries, 1 crash, every fault | 379,290 | `RowConsistent`, `RefusedNeverRuns`, `ProgressExact`, `ProgressNotInvented`, `UndisturbedIsFinal`: what survives every fault, per job and mishap |
| `audit_jobs_reliable` | an audit run and a sync, 2 slots, 2 tries, 2 crashes; no lost reply, no lost lease | 46,932 | the program implements `AuditLedger`; `JobEnds` |
| `audit_jobs_lost_reply` | 1 job, 1 slot, lost replies only | violation | see [Findings](#findings) |
| `notifications_hostile` | 1 key, 2 runs, 2 senders, 2 attempts, 3 tries, every fault | 505,618 | `AttemptsCoverSends`, `DuplicatesNeedACrash`, `DeliveredWasReceived`, `DeliveredIsFinal` |
| `notifications_two_runs` | 2 keys, 2 runs, 1 sender, 2 attempts, 2 tries, 1 crash | 309,934 | `SentAfterAllCreated`; the program implements `DeliveryLedger`; `DeliveryEnds`, with the complete list of what may lose a delivery |
| `alerts_hostile` | 1 document, 1 key, 2 scans, 1 request, 2 drifts, 1 crash, every fault | 912,957 | `AtMostOneOpen`, `ScanIsExact`, `ScoreUpToDate`, `CreatedIsNotified` |
| `alerts_locks` | 2 documents, 3 keys, 2 scans, failing statements | 154,560 | `NoDeadlock`; `ScanEnds` |
| `alerts_resolve_deleted` | 1 document, 1 scan, 1 request, a deletion | violation | see [Findings](#findings) |
| `ingest` | 2 syncs of one source with 2 files, 2 contents, 1 commit to the branch, 1 crash, every fault | 273,812 | `NeverConflicts`, `NoDeadlock`, `DeletionIsFinal`; the program implements `DocumentCatalog`; `IngestEnds` |
| `admission` | a request and an upload of one subject with limit 1 in a window of 2, the scan of one night over 2 sources, depth 2, 1 slot, 2 tries, 1 death, every fault | 444,340 | `WithinLimit` and `RefusedAtLimit`: the limit is exact in both directions; `DepthBounded`: by how much the race overshoots; `ScanCovers`: a scan that gets through its loop accounts for every source; `NightEnds`: every scan ends, be it aborted or lost |
| `drift_check` | documents, evidence and catalogs of `MCDriftCheck`, every answer | 33,070 | `DashboardsExact`, `EvidenceIsTrue`, `VersionsOrdered` |
| `report` | 3 documents, 3 kinds of alert in 2 severities, 1 service, 2 scores, 2 jobs, 6 writes | 1,407,535 | `ReportAgrees` when nothing is written meanwhile; `NothingInvented` whatever is |

**Why the bounds are enough.**  The hard cases need two actors on one row: two
slots with one job (a lost lease, a retry beside the first execution), two senders
with one delivery, two scans with one key.  One crash with three tries is enough to
retry, and to have the retry meet a finished first execution; the run
with liveness allows as many crashes as tries, so that a job may succeed in its last
try or have none left.  Deadlock of advisory locks needs two scans, and two keys in a document; a
second document shows that locks kept past the first one are gone before the
second.  Two drifts let a finding appear and go, or go and return, between two
scans.  Two files that two synchronisations share are what a circle of locks needs;
one commit to the branch gives them different contents, and with errors, a crash and
deletions every path sees a new document, a new version, an unchanged one and one
after a deletion.  A limit of 1 already has a boundary on each side of the window (two
requests, a clock of three instants); a queue of depth 2 with a request, two sources
and the uncounted cron job is full in all ways it can be, and a slot for one job is what
a scan that waited would block.  The catalogs have four pages with every set of cursors,
so that every loop, and every page that is never reached, occurs; the versions are
releases and pre-releases of which each differs from another in one respect, and the
comparison is made for all triples.  Three documents exceed the report's limit of 2, and
six writes are enough to ingest, score and delete one while another is read.  The proofs
have no bounds.

**Deadlock checking** is off in all runs: when every job has ended, every scan is
done and every request is answered, the system rests.  That no circle of waits causes
the rest is what `NoDeadlock`, `ScanEnds`, `IngestEnds`, `JobEnds` and `DeliveryEnds`
say.

**Symmetry** is used where no liveness property is checked, over audit executions,
senders, scans and documents of the report, which those specifications treat alike.

**Fairness.**  Handlers and tasks are coroutines on an event loop that keeps
running, so each of their steps is weakly fair.  arq serves jobs in the order of
their enqueue time, so a queued job is not passed over for ever: `Take` is
strongly fair.  Crashes, timeouts, lost replies, drift and deletions are never
fair.  In `AlertScan` the fair steps leave out spontaneous failures, so that a
scan that waits for ever for a lock cannot be excused by an error that would have
ended it.  In `DocumentIngest` each ingestion is weakly fair: its coroutine goes on
when it can, and PostgreSQL grants a lock that is free.  In `Admission` the worker
starts what waits while it has a slot, executions end (arq has a timeout for each), and
a scan's loop goes on; that clients send, time passes or results expire is nobody's
duty.

## The proofs

TLAPS proves, for every set of jobs, workers, keys, documents, scans and requests
and every value of the other constants:

*`AuditJobs_proofs`*
: `TypeCorrect`, `Invariance`, `RowsAreConsistent`, `RefusedRequestsNeverRun`,
  `NotificationsFollowCompletion`, `CompletedJobsAreFinal`, `CountersAreExact`,
  `CountersAreNotInvented`, `CompletedIsFinalWithoutMishaps`, `ImplementsLedger`.
  `CompletedJobsAreFinal` is about each job that met no mishap (a
  lost reply, a lost lease: what makes two actors work for one job); the last two
  assume that there are none, and a run shows that with them `CompletedIsFinal` is
  false.  The others hold under every fault.  The invariant
  is `TypeOK`, `Assigned` (a job is served by at most one slot), `Handled(j)`
  (what a request at each step implies of its row and of the queue) and
  `Serving(w)` (what a slot at each step implies of its row and of its stale
  copy).  None of the properties is inductive alone: whether a write is allowed
  depends on what the copy still says of the row.  The counters need a tally of
  its own, of what the increments added up to.  `ProgressNotInvented` holds with two
  tasks on one job as well, because of two things: no object of a session is ahead of
  what was counted (`Behind`), so that a stale write can only lose increments, and an
  execution that has not counted yet has still to spend its part (`Budget`: what was
  counted is within the tries of the job less those executions, times the largest
  increment).

*`NotificationDelivery_proofs`*
: `TypeCorrect`, `Invariance`, `AttemptsAreCounted`, `DuplicatesAreBounded`,
  `DeliveredRowsAreTrue`, `SentOnceRecorded`, `DeliveredRowsAreFinal`,
  `ImplementsDeliveryLedger`.  The invariant says of each sender with an unbroken lease
  that it is alone and holds the current row, of each queued delivery that a whole plan
  is recorded, and keeps a budget: receptions are paid for by attempts and by crashes.
  Where no lease expires (`ImplementsDeliveryLedger` assumes it) every sender is such a
  one, so that each of its commits is a
  step of `DeliveryLedger` on the row as it is (`SenderLedger`).

*`AlertScan_proofs`*
: `TypeCorrect`, `Invariance`, `AlertsAreUnique`, `LocksAreOrdered`,
  `ScansNeverDeadlock`, `ScoresFollowAlerts`, `UndisturbedScansAreExact`,
  `RaisedAlertsAreNotified`. Uniqueness rests on `Missing`: what a scan is about to
  insert is locked by it and not open; an insert by another scan would need the same
  lock.  Order rests on `Locking`: all locks of a scan are of the document it is at, and
  before what it has still to look up; that nothing carries a lock from one document to
  the next is because a scan scores a document, and so commits, before it goes on.  That
  no scans wait in a circle follows for every finite set of them: whoever waits does so
  for a lock before the one that its holder waits for, so that the one with the last
  lock to wait for waits for none of them.  `ScoreUpToDate` is inductive relative to
  these: `Quiet` and `Scored` say once what a step may do to the sessions and to the
  scores, and each action is shown to be such a step.  `ScanIsExact` needs to know of a
  scan at each of its steps what it has done with its drafts and with the rest
  (`Exact`), and that another session either spares the alerts of its document
  (`Spares`) or is counted as a disturbance.  `CreatedIsNotified` follows from
  `Counted`: as long as no worker died and no scan failed, each row is on record with
  the scan that will report it.

*`DocumentIngest_proofs`*
: `TypeCorrect`, `Invariance`, `IndexNeverRefuses`, `VersionLockNeverWaits`,
  `DeadlockFree`, `DeletedForGood`, `ImplementsCatalog`, `VersionsCountUp`, for every
  number of files, synchronisations, uploads, crashes and commits.  The invariant says of each
  session (`HoldsWhatItFound`) that it holds the lock of every file it looked up,
  and (`StillTrue`) that what it then read is still so, but for deletions:
  the document it found is still the newest, the latest version it compared with
  is still the latest.  That is what makes the commit equal to `Apply` at that
  instant (`CommitApplies`), although the files were looked up one by one.
  `OthersKept` shows it once for every other session: a step changes rows only
  under its own locks, or only deletes.  No circle of waits: whoever waits does so for the lock
  of a file before every file its holder has still to do (`WaitsForLater`), so
  that of any set of waiters the one with the last file waits for none of them.
  `VersionsCountUp` uses the refinement: that versions are numbered without gaps and never
  repeat the one before is shown of `DocumentCatalog`, where an ingestion is one step,
  and holds of the program because it implements that.

*`Admission_proofs`*
: `TypeCorrect`, `Invariance`, `LimitHolds`, `RefusalsAreDue`, `DepthIsBounded`,
  `ScansCover`, for every limit, window, depth, number of slots, requests and sources.
  The limit rests on the log being sorted and on what left the deque being old: of two
  hits that are `Limit` apart, the first had left when the second was admitted.  The
  depth rests on a count: a producer is among `checked` at most once, and whoever
  entered it saw fewer than `MaxDepth` jobs, so that the queue and those between the
  two calls never exceed `MaxDepth - 1` and the producers together.  `ScansCover` rests
  on an account of each scan (`Accounted`): before its loop it has no failed
  source and all it listed still to do; from then on every listed source is to do, failed
  or was taken by Redis.  Of a scan that was aborted it claims nothing.

*`DriftCheck_proofs`*
: `OlderIsAnOrder`, `Invariance`, `VersionsAlwaysOrdered`, `DashboardsAlwaysExact`,
  `EvidenceIsAlwaysTrue`, `TheBestEntryIsOne`, `MoreAlertsScoreNoHigher`, for
  every document, catalog and set of answers.  That the comparison of versions is an
  order is lexicographic: the first place where two versions differ exists (a least
  element, by well-founded induction's `WFMin`) and decides.  `TheBestEntryIsOne`: the
  rule that takes the longest matching entry has one only, so the order of the
  configured entries does not matter.  `MoreAlertsScoreNoHigher`: the score is between 0
  and 100 and never rises with an alert more.  `DashboardsExact` goes
  through what each URL of the document is: still to be probed, or on file exactly as
  its answer was, and nothing else is on file for the HTTP collector.  `EvidenceIsTrue`
  compares the pages that were read with the least set of pages that has the first and
  what its cursors lead to (`Reached`): the pages asked for are within it, and when a
  page has no cursor or an old one, they are closed and so all of it.

*`AuditReport_proofs`*
: `Invariance`, `NothingIsInvented`, `UndisturbedReportsAgree`, `AverageIsAScore`, for
  every number of documents, alerts, severities and jobs.  What a query counts was in the scope
  then, and `present` and `alerted` only grow; that as many snapshots are ranked as
  there are documents is an injection from snapshots to documents.
  `UndisturbedReportsAgree`: while nothing is written, each figure that was read is what
  the database says (`Agreed`), and the sum over snapshots is the sum over documents
  because the latest snapshots and the scored documents correspond (`Newest`).
  `AverageIsAScore`: the total is between 0 and 100 times the number of scores also when
  others write.

*`FiniteSums`*
: `MapThenSumSet` adds the elements of a set in the order in which `CHOOSE` picks them.
  That such a sum exists, that any element may be taken first (`AnyFirst`), that
  corresponding sets have equal sums (`SameSum`) and that sums are bounded (`SumBound`)
  are shown for a smallest set that would refute them (`Smallest`, from `WFMin`),
  because the library's induction theorems take operators, which no prover here
  instantiates.

The parts of each invariant were checked with TLC on the instances of the runs before they
were proved, unbounded quantifiers over the finite sets that matter.  The only assumptions are the named ones of the modules
(`ConstantsAssumption`, `DeliveryAssumption`, `AlertScanAssumption`,
`DocumentIngestAssumption`, `LimitAssumption`, `QueueAssumption`, `ScanAssumption`,
`AdmissionAssumption`, `CheckAssumption`, `ReportAssumption`): sets that are disjoint,
null values outside their sets, numeric bounds, finiteness where the code counts and of
the catalogs it reads, and in `AlertScan` that two keys of one document have different
ranks, which a scan guarantees because the rules raise a key once and in one order.

Only model-checked:

* Liveness (`JobEnds`, `DeliveryEnds`, `ScanEnds`, `IngestEnds`, `NightEnds`), which
  needs fairness and ENABLED.
* That `NotificationPlan` plans what it should: it is `SelectSeq` over the alerts, of which
  the provers know nothing, and is evaluated on the plans of the instances.
* That every action occurs: what a theorem says of every state does not say that one is
  reached; the runs do.

## Findings

Each is a run whose property states what the repository says of the program; the
counterexample is a behaviour of the code.

* `audit_jobs_lost_reply`: a completed job is to be immutable, but a handler whose
  enqueue took effect and raised marks it failed from its stale object.
* `alerts_resolve_deleted`: resolving an alert of a deleted document resolves it,
  but the refresh of the score fails, its rollback expires the alert, and the
  answer cannot be built from it.

PROJECT.json quotes the lines on both sides.

### Known gaps

What the models show of the code without contradicting anything it says of itself.
The properties name each as an exception, so that they say there is no other.

* **Notifications that are never created.**  A retry of a completed job returns early, so
  deliveries that were not created before the worker died never are.  A retry after a
  crash, or the scan after one that failed, finds its alerts open and does not count
  them as created (`CreatedIsNotified` holds only without either).  A delivery that
  cannot be enqueued, whose task is cancelled or which has no try left stays as it is
  (`lost` in `DeliveryEnds`): nothing looks for pending deliveries later.
* **Jobs that never end.**  A handler that dies between creating and enqueuing, a task
  that arq cancels and a failure that cannot be recorded leave a job pending or running
  (`dropped` and `dead` in `JobEnds`).  One that never started stays the latest audit job
  of every report.
* **A night without a scan.**  A nightly scan whose sources cannot be listed, or whose
  pool cannot be opened, raises before its loop: it enqueues nothing, its error names no
  source, and arq does not repeat a cron job that raised.  One that is cancelled or runs
  out of tries is lost as well (`aborted` and `lost` in `NightlyScan`).
* **Scores that lag.**  A snapshot computed from older alerts may be inserted after a
  newer one, and is the latest until the next scan of its document (`lagging` in
  `ScoreUpToDate`).
* **Counters of a retry.**  An execution that died after its increments is counted, and
  so is the one that repeats it; `ProgressExact` says that nothing else is.
* **The depth of the queue is not a bound.**  Producers that read it together all
  enqueue; `DepthBounded` is exact about it.
* **Slow dashboards count as alive.**  The message of a timeout of httpx is blank, so the
  record of a timed-out probe is "found" without an error; timed-out requests to
  Kubernetes and incident.io are filed as "not_found".
* **One URL ends a scan.**  A dashboard URL whose port is out of range makes the rule
  raise, for this document and for all that follow.
* **Rules that have nothing to go by.**  Extraction yields dashboards as `grafana:slug`
  only, so a deployed scan probes no URL, and it passes no Helm, command or dependency
  evidence: of the five rules only `owner_missing` can fire.  The models check the
  rules on all inputs that their signatures admit.
* **Old files as new versions.**  A synchronisation reads its files before it takes any
  lock, so one that read older files and commits last puts older content back.

## What is not modelled

* *Entity extraction* is regular expressions over text, and *the text* of documents,
  messages, evidence and URLs is data: the models need whether two are the same, and
  of a URL its page, its path's words and whether it parses.
* *The application shell* (middleware, logging, settings, schemas), *migrations,
  deployment and scripts* have no state that changes while the system runs.
* *Read-only endpoints and listings*, which read a page in one statement; the API key
  of *authentication*, which is one comparison; *the sinks* of notifications (Slack,
  mail, webhooks, with redaction and URL validation), which post or fail in one step.
* *The Git ingestor* beyond what it lets others see: each file is read when its turn
  comes, and a file, a count or a total over its budget ends the ingestion.  The three
  comparisons themselves are tested by the repository at their bounds.
* A *Kubernetes answer* whose body is JSON but no object, at which the collector raises
  instead of reporting a failure.
* PostgreSQL's and Redis's own failures beyond what a client sees (a failed
  statement, a closed session, a lost reply, an expired lease).
* Durations: except in `RateLimit`, a timeout or a lease may expire at any moment, which
  is more than can happen.
* Which commit of the branch an ingestion reflects: `DocumentCatalog` orders
  ingestions by their commits to the database (see the gap above).
* Writers of `documents.service_name` and of alerts without a document, which the
  schema admits: there are none.

## The plan

Modelled in this order, the most important behaviour first: `AuditJobs`,
`NotificationDelivery`, `AlertScan`, `DocumentIngest`, `Admission`, `DriftCheck`,
`AuditReport`.  What would add most next:

1. A composition of audit run, alerts and notifications over one job, from a drift to
   its delivery, with one refinement to "each alert is notified at most once, and
   exactly once when nothing fails"; it would connect `created` in `AlertScan` with
   `Runs` in `NotificationDelivery`.
2. The same specifications with a sweeper that enqueues pending deliveries and fails
   abandoned jobs: `JobEnds` and `DeliveryEnds` without their exceptions.
3. Theorems that connect modules: that the increments `AuditJobs` counts are the alerts
   that a scan of `AlertScan` created, and that the plan of `NotificationDelivery` has a
   delivery for each of them.

# TubeSync, specified

TLA+ models of the parts of TubeSync in which several processes, threads or
requests share state, the TLC runs that check them on small instances, and
TLAPS proofs of the facts everything else leans on. The code is under
`src/tubesync/`; `PROJECT.json` says for every definition which lines it models.

## 1. The system

TubeSync is a Django application that indexes YouTube sources and downloads
their media. Its parts, the state they keep and how they interact:

| Part | State | Operations | Talks to |
|---|---|---|---|
| Task queues (`common/huey.py`, `sync/tasks.py` decorators) | per queue: pending tasks, schedule, `revoke_once` keys, locks, results, in a SQLite file | schedule, enqueue, dequeue, postpone, revoke, expire, execute, retry, interrupt, kill | signal handlers on every event; task bodies |
| Task history (`common/models/tasks.py`) | a `TaskHistory` row per task | `th_schedule`, `historical_task`, `running()` | written by handlers, task views and the bridge; read by dedup, the dashboard and `get_running_tasks` |
| Native schedulers (`sync/signals.py`, `sync/tasks.py`, `sync/views/sources.py`) | none | first index of a new source, hourly `schedule_indexing`, dashboard sync-now, changed schedule | `th_schedule` |
| Bridge sync-now (`medianest_bridge/sync_dedup.py`, `views_write.py`) | none | `POST /sources/{uuid}/sync` | reads and marks rows, revokes, `th_schedule` |
| Bridge create (`views_write.py`, `source_forms.py`) | none | `POST /sources` | the `Source` table, `source_post_save` |
| Source deletion (`sync/views/sources.py`, `sync/signals.py`, `sync/tasks.py`) | the `Source` table: `/deleted` rows, placeholders | `DeleteSourceView.post`, `source_pre_delete`, `delete_deleted_sources`, `delete_all_media_for_source` | media rows, files, `th_schedule` |
| Task views (`sync/views/tasks.py`, `Huey.reschedule`, `h_q_reset_tasks`) | none | revoke, reschedule, reset a queue | huey storage and rows |
| Media tasks (`sync/tasks.py`, `sync/models/media*.py`, `sync/signals.py`, `sync/filtering.py`, `sync/views/media.py`) | a `Media` row and its `Metadata`; the `index_media:*` and `media:*` locks | index, migrate, fetch metadata, refresh, download, save, delete, clean up, thumbnails, premieres, `media_post_save`, the media's forms | each other, through rows, locks and scheduled calls; yt-dlp; files |
| Episode numbers (`sync/models/media.py`) | numbers frozen in file names | `{episode_mmddnn}` | the other media of the day |
| Format matching (`sync/matching.py`, `sync/utils.py`, `Media.get_format_str`) | none | parse and choose formats | pure |
| Backfill command (`medianest_backfill_plex_sidecars.py`, `Media.rename_files`) | none of its own | plan, preflight, save the overlay, rename, adopt, write sidecars | files, media rows, locks, downloads, the rename cascade |
| Show nfo (`sync/tvshow_nfo.py`) | `tvshow.nfo`, a title cache per process | write, resolve the title | every task that writes episodes |
| Health (`healthcheck.py`, `stop-queue`, `readiness.py`) | markers and a release state in `/dev/shm`; a component cache | look up a release, stop the download queue, report | s6, the consumers |
| Bridge reads (`auth.py`, `mapping.py`, `channel_resolve.py`, `config.py`) | none | authenticate, serialize | read-only |
| yt-dlp, media servers, HTML views, syslog server, container services | outside, or none | I/O and rendering | |

What is hard here, and what should hold:

* **Queues.** Signal handlers run in the worker, the scheduler and the web
  processes; each reads a row, computes and saves all its columns. Retries,
  interruptions and the schedule put the *same* task id back. A task must not
  be doubled, its row must say what happens to it, duplicates must be revoked
  but never all of them, and everything scheduled must end.
* **Sync-now.** It decides from rows only, with no look at the queue. Repeated
  requests, and a request after a create, must converge to one task that runs.
* **Create.** Four SELECTs, a form that SELECTs again and an INSERT are separate
  statements. Every answer must be true when it is decided, losers of a race
  must be told who won.
* **Deletion.** Three transactions and two background tasks; any of them can be
  the last before a crash. Names must stay exclusive, nothing half-deleted stays.
* **Media.** Tasks read a media, wait for minutes, and save every column of it.
  Two locks are looked at, taken, migrated from one task to another and cleared
  by a third. A skip must stay, a download must not lose its row, a wanted
  media must come in the end, no lock may stay for ever.
* **Files.** A rename is a move, a save and more moves; it can be killed in
  between, overtaken by a download, or started twice. Nothing may be lost, no
  row may name another media's file, no two files may share a number.
* **Health.** A script that is killed after ten seconds, a supervisor, an
  operator and a cache all look at one service at different moments.

`PROJECT.json` lists the hazards one by one with their lines.

## 2. Modules

```
TaskQueue <- TaskQueueProofs                       SourceNames  (abstract)
  ^  ^  ^         ^- TaskViewsProofs, SyncNowProofs      ^ INSTANCE
  |  |  MCTaskQueue                                 SourceLifecycle <- SourceLifecycleProofs
  |  TaskViews <- TaskViewsProofs                        ^- MCSourceLifecycle
  |      ^- MCTaskViews
SyncNow <- MCSyncNow, SyncNowProofs                 MediaTasks <- MediaTasksProofs
                                                         ^- MCMediaTasks
BackfillPlan <- Backfill <- MCBackfill              EpisodeNumbers <- EpisodeNumbersProofs
                                                         ^- MCEpisodeNumbers
TvshowNfo, FormatMatching <- Decisions              Health <- HealthProofs
Decisions <- DecisionsProofs                             ^- MCHealth
Decisions, ProfileTemplate <- MCDecisions
```

### TaskQueue

One queue: its storage, the scheduler thread, the worker process (limited
queue) or worker threads (the other three), and the `TaskHistory` rows.

| State | In the code |
|---|---|
| `task[t]` | the task as last serialized: retries left, eta, resolved expiry; `kind` holds function and arguments (`call`) and the options of the decorator or of the scheduling call |
| `queue`, `schedule`, `revoked` | huey's pending queue, schedule, `revoke_once` keys |
| `submitting` | between `update_or_create` and `enqueue` in `th_schedule` |
| `moving` | between `read_schedule` and `enqueue` in huey's scheduler |
| `pc[w]`, `held[w]` | what a worker does, with which task |
| `found[w]` | ids `waiting_id_generator` has read and not yet yielded to `revoke_by_id` |
| `handler[w]` | a `historical_task` between its read and its save |
| `row[t]` | the `TaskHistory` row. `start_at` is compared only with NULL and with `end_at`, so `status` says "new" (NULL), "running" (equal), "moved" (different); `marked` is the `[revoked]` prefix |
| `fate[t]` | auxiliary: how the task ended |

huey is a library. What a worker does between two signals is modelled from how
`common/huey.py` and `sync/tasks.py` use it, and marked external in the map.
Atomic steps are one storage or database operation each, with these exceptions:
`Enqueue` runs the ENQUEUED handler in the same step, since the task is not in
the storage before the handler returns and nobody else can reach it; expiry is
resolved by the same call. `on_executing_remove_duplicates` is registered for
its signal alone and runs before `historical_task`: reading the queue,
reading the schedule and revoking are three steps.

A body is its ways to end: `Complete`, `Fail` (exception, or a taken lock),
`Cancel` (`CancelExecution` with `retry=False` or the default), `CancelRetry`
(`retry=True`), `Interrupt`, `Kill`.

### SyncNow

`SyncSourceView.post` and `sync_dedup.py` for one source, on top of TaskQueue.
The request is one step. It runs in `transaction.atomic()` and the default
SQLite database is opened with IMMEDIATE transactions, so no handler *writes*
between its reads and its writes; a handler that had already read still saves
afterwards. `SourceCreated` and `NativeSchedule` are the other schedulers.

### SourceNames and SourceLifecycle

SourceNames is the promise: a source owns key, name and directory alone; each
request gets, in one step, an answer that is true at that step. It says that
sources come and go, and nothing of how.

SourceLifecycle is the code: `pc[c]` walks `CreateSourceView.post` statement by
statement (the three look-ups are the same code three times; `origin` says who
sent the request back to them, hence what follows when they find nothing).
`dpc[d]` walks `DeleteSourceView.post`; `victim` and `read` are the Python
objects it keeps meanwhile. `Sweep` and `RunCleanup` are the background tasks,
`cleanup` the scheduled deletions. Nothing runs under ATOMIC_REQUESTS, so each
statement is a transaction. A renamed row has the status "deleted": its names
cannot clash with a requested one (`/deleted`, `[Deleting] `).
`owns` maps the table to SourceNames: what the live rows own.

### TaskViews

The task pages over TaskQueue. `form` is the page that is being answered: its
next step, its task, the row it read when it was opened, the copy it made.
`RevokeOnce` and `MarkRevoked` are `RevokeTaskView`; `FindPending`,
`FindScheduled`, `RevokeFound`, `Clone` and `MarkMoved` are `TaskScheduleView`
with `Huey.reschedule`; `BarrierUp` and the three flushes are `h_q_reset_tasks`,
where `barrier` is `revoke_all(revoke_until)`. `ViewDies` stops a page anywhere.
`cancelled` and `forgone` remember which tasks a page answers for.

### MediaTasks

One media. `row`, `table` and `disk` are the `Media` row, its `Metadata` and the
video; `source` and `listed` what the source wants and the site shows. `queue` is
the set of calls that wait (TaskQueue says how copies of a call are handled),
`worker` the limited queue's one worker with the media as it read it, `view` and
`image` the same for a form and for `download_media_image`. `PostSave` is
`media_post_save` with the filters: every action that saves goes through `Save`,
which stores what the signal computes and schedules what it schedules.
`locks` says who has `index_media:<uuid>` and `media:<uuid>`; taking, migrating,
clearing and leaving them is part of the action of the task that does it.
The tasks of the database and filesystem queues run in IMMEDIATE transactions
and are one step, except `delete_media`, whose look at the index lock
(`DeleteStarts`) precedes its transaction. `ghost` is the `TaskHistory` row of a
killed download that still reads as running.

### EpisodeNumbers

All media of a source: `rows[m]` has the date, whether it is the ingested one,
the order of creation, and the file (none, without a number, numbered).
`IndexNew`, `Redate`, `Ingest`, `StartDownload`, `EndDownload`, `Rename`, `Delete`
are what moves them; `Index` is `_episode_day_index`. At first some media have a
file without a number, downloaded under an older format or recorded by
`import-existing-media`; without ingested metadata such a row can still be dated
anew by each listing, even after a rename gave its file a number. `overlap`
remembers that a file was renamed next to a download, `moved` the media whose date
left the day of their file's number.

### BackfillPlan, Backfill and ProfileTemplate

BackfillPlan holds the decisions: a path is a directory and a sequence of
tokens, so that "starts with the stem" and "contains the key" mean what they do
in the code; `disk` maps paths to whose content is there. `RenameProblem` and the
operators under it are the refusals of `_rename_media`, `Decide` the outcome of a
media, `Remember` what the run keeps for later media, `DryRun` the preflight of
a whole run. Backfill is the command in apply mode: `Begin`, `Gate`,
`SaveOverlay`, media by media, `TakeLate` for downloads that finished meanwhile
until there are none (`LateOver`), `CountInFlight`, `Finish`. `mover` is a
`rename_files()` in the command or in the cascade: video, row, files, nfo, each a
step; the command remembers a rename for later media only when it has succeeded
(`EndRename`). Beside it run `Download`, the cascade and
`ClearLocks` (`schedule_indexing`). ProfileTemplate says which templates
`_profile_problems` accepts, and in `Sound` what acceptance should mean.

### FormatMatching

`Parse` is `parse_media_format`; `BestVideo`, `BestAudio`, `BestCombined` and
`Downloads` are the choices. A set popped in the code gives a set of choices. The
reference is what a source's fallback means: `Permitted`, `ResolutionFirst`,
`NextBestFound`, `NoneBetter`. Decisions turns it into states: each question is
a source and a list of formats, asked once, beside the show title of TvshowNfo.
`StoryboardsSmall` is assumed of the data: a format without any stream is lower
than `VIDEO_HEIGHT_CUTOFF`.

### TvshowNfo

`thread[t]` is a call of `write_tvshow_nfo` (build, look at the file, invalidate,
write) or of `resolve_show_title` (ask, look at a foreign file, read data,
store); `cache`, `refreshed` and `told` are kept per process. A channel's titles
are numbered, so that older and newer can be told apart.

### Health

`script` is a run of `healthcheck.py` with its background lookup. `instance` is the
container with its memories, the `/dev/shm` files named by `get_unique_id`: one for
the consumer's process tree, one for runs that `s6-svstat` gives no pid
(`no-service-pid`), one for runs whose pid is gone when they read `/proc` (start
time `0`, `LookLate`); a run while the consumer is down has one of its own. Each has
its own release seen, its own marker, and counts its acts. `svstat` is whether
`s6-svstat` answers. `state` is the release state file, `stopper` a started
`stop-queue`, `service` s6's view. `pass` is a `collect_components` that is under
way, check by check; `cache` and `reply` are its results. `hung` and `stuck` are
the calls `_call_with_timeout` left behind. The consumers' workers, and
yt-dlp's release, are read in one step each.

Definitions whose comment starts with *Mutant* are not part of any
specification. They are plausible bugs, kept beside the definition they would
replace, to show that each property can fail.

## 3. Runs

| Run | States | Shows |
|---|---|---|
| `limited` | 1.01 M | `TypeOK`, `OneCopy`, `RowTruth`, `RunningShown`, `NoStaleKey`, `DedupLeavesOne` on the limited queue |
| `live` | 147 k | `Settles`: every scheduled task ends |
| `converge` | 106 k | `AtMostOneRunnable`, `SyncKept`: create, then two requests |
| `served` | 387 k | `SyncServed` with a dashboard click and an interruption |
| `sources` | 120 k | `AnswersAreTrue` (the refinement), `NoSpuriousError`, `Converge`, `OneOwner`, `Answered`, `DeletedGoes`: four requests and a deletion |
| `views` | 835 k | `CancelledNeverRuns`, `RescheduleKeeps`: a page next to two worker threads, with a call that is retried once |
| `media` | 914 k | `NotUnderneath`, `SkipStays`, `NotAgain`: one media, two disturbances |
| `settles` | 31 k | `Settles`, `LocksFreed`: one disturbance, then everything comes right |
| `episodes` | 1.09 M | `FilesDistinct`, `NumberKept`: three media, two days |
| `backfill` | 1.37 M | `NothingLost`, `RowsOwn`, `ForecastHolds`, `CleanExit`, `SecondChangesNothing`: two runs, two media |
| `decisions` | 195 k | `ProfileSound`, `FallbackKept`, `BestFits` over bounded inputs; `CacheCurrent`, `UserFileKept`, `ShowHealsHere` for tvshow.nfo |
| `health` | 3.96 M | `AskedOnce`, `PausedIsAsked`, `StoppedShown`, `ChecksApart`: two releases, an operator, a trouble, the cache's life |

**Bounds.** Two tasks are enough for everything that relates a task to its
duplicate, with both kinds allowed for each; sync-now has three, so that a slow
task, its replacement and the next request's can coexist. The clock stops at
`MaxTime` (1 to 3) and etas saturate there, which keeps "not yet due", "due"
and "expired" apart; retries are 0 or 1 (2, 3, 5 and 15 in the code), enough to
be spent and to be left. `MaxInterrupts`, `MaxForced` and `MaxFaults` are 0 or
1. Four requests cover the same identity, the same key under other names, the
same directory, and both reasons for a refused form; one deletion may hit any
source, a placeholder included. `MaxRunTime` is beyond the clock, where the
staleness window of sync-now does not matter.
`views` has two worker threads, since a page's race is with a worker that takes
the task while another ends its copy; its time stands still, so that every task
is always due. `media` has two events (a form, a changed setting, a vanished
file, a failure, a kill, a restart), since each of its properties takes two to
break; `settles` has one, since liveness costs more. `backfill` has two media,
one of which may collide with, shadow or follow the other, one stray file of
seven kinds (of two while the second media can still be downloaded during a
run, which multiplies the states), and one failure in two runs. `episodes` has
three media on two days, one of which has a file at first, and five changes of the
index: enough for an imported file to get a number, to lose its day, and for another
media to take the number. `decisions` has lists of two formats
of twenty and templates of two directories; a third format, or directory,
relates to the others in pairs. `health` has one consumer, since each service
is looked at alone, two releases, one act of the operator, one trouble (a kill, a
crash, a hang, a check that finds something bad, an `s6-svstat` that fails and may
answer again), and two moments of the clock with a cache that lives for one. Its
`VIEW` leaves out the status and the reason of an answer and what goes into them:
no guard and no property of that run reads these.
Tasks, requests and workers are interchangeable, so the safety runs use
symmetry; liveness runs do not. Deadlock is not checked: the clock, the ids and
the requests are used up in the end, and the system may then stop.

**Fairness.** Weak fairness of the clock; of the scheduler thread, which polls
every 10 s (`scheduler_interval`); of a scheduling call's own continuation;
of each worker as a whole, since huey's consumer restarts dead workers
(`check_worker_health`) and every body ends or is killed by the watchdog
(no fairness says *how* it ends). Create requests run to their end.
`delete_deleted_sources` comes back every hour. Nothing makes a user act, and a
deletion may stop between any two statements. Forced retries and interruptions
are bounded in the guards; with unbounded `CancelExecution(retry=True)` a task
really can be retried for ever.

In MediaTasks the worker goes on, the other queues' calls are served, and the
tasks that can find a lock taken have strong fairness: retries are ten minutes
apart and locks are held for about one, so not every try meets one. The index
comes back every hour. Users, failures and kills are free; what they start (a
form, a running image download) ends. TvshowNfo's calls go on, are made
again and again, and a cache entry expires.

## 4. Proofs

The theorems hold for every value of the constants that the named assumptions
allow: any number of tasks, workers, requests, media, threads and services, any
kinds and identities, and bounds as large as one likes. In every module the
argument is an inductive invariant, each of whose added parts is a definition of
the component's own module, next to the property that rests on it.

| Module | States about | From |
|---|---|---|
| `TaskQueueProofs` | `TypeOK`, `OneCopy` | `NoTaskAssumption`, `BoundsAssumption`, `KindsAssumption` |
| `TaskQueueProofs` | `RowTruth`, `RunningShown`, `NoStaleKey`, `DedupLeavesOne` | the same, and `OneWorker` |
| `TaskViewsProofs` | `CancelledNeverRuns` | the same as TaskQueueProofs |
| `TaskViewsProofs` | `RescheduleKeeps` | the same, and `OneWorker` |
| `SyncNowProofs` | `AtMostOneRunnable`, `SyncKept` | the same, `SyncAssumption`, and `RequestsAlone` |
| `SourceLifecycleProofs` | `AnswersAreTrue`, `OneOwner`, `NoSpuriousError`, `Converge` | `SourceAssumption` |
| `MediaTasksProofs` | `NotUnderneath`, `SkipStays`, `NotAgain` | `MediaTasksAssumption` |
| `EpisodeNumbersProofs` | `FilesDistinct`, `NumberKept` | `MediaAssumption` |
| `DecisionsProofs` | `FallbackKept`, `BestFits` | `QuestionAssumption` |
| `DecisionsProofs` | `CacheCurrent`, `UserFileKept` | `ShowAssumption` |
| `HealthProofs` | `AskedOnce`, `PausedIsAsked`, `ChecksApart`, `StoppedShown` | `HealthAssumption` |

**TaskQueueProofs.** `OneCopy` is not inductive by itself, and neither is
`TypeOK`: that `retries - 1` stays a natural number needs that a task about to
be retried has a retry left, hence that nobody else has the task and changed it.
`IInv` adds `Bookkeeping`: unused ids are nowhere, a busy worker has a task, a
handler is open only between read and save, and a task in "retry" has one left.
The lemmas group the 26 actions by what they do to the places a task can be
in. `Quiet` steps only take away, `Stored` steps put one task in one place;
both keep `OneCopy`, and each action is shown to be one of the two
(`Dequeue`, which moves a task from the queue to a worker, has its own proof).

**TaskQueueProofs, one worker.** The hypothesis `OneWorker` (no two workers differ) is how
the limited queue is run; with threads the four properties are false, see
section 5. `OneWorkerInv` says what each place a task can be in implies. `Living`:
whatever waits or is being worked on has not ended. `RowsFollow`: the row of a task
that waits has left the run before it, and between a handler's read and its save
what the row says of a run stays. `KeysFollow`: every revoked copy has another
copy of the same call that is `Spared`, has ended in another way or goes on without
a key; and what a worker has found while it lists duplicates still waits. `Spared`
is why forced retries do no harm here: whoever writes a key is itself the spared
copy, has passed its own check and, being the only worker, is not overtaken. No
bound on retries, interruptions or the number of copies is used.

**TaskViewsProofs.** `ViewInv` puts the pages over `IInv`: first every page step
keeps `OneCopy` (a flush only takes away, the copy of a rescheduled task is a new
id, a page that only writes keys or rows is `Quiet`); then `KeyMeets`: a task that
a page revoked while it waited keeps its key for as long as it waits, and the worker
that takes it still finds the key when it examines the task. `OneCopy` is needed
for that: with a second copy, one would use up the key of the other.

**TaskViewsProofs, one worker.** `RescheduleKeeps` says of a revoked task that its
call lives on elsewhere, and several actors revoke: a page, and any run that lists
duplicates. `KeepsInv` follows the *call* instead of the task (`Remembered`): for
each key and each revoked end, some task of that call is `Spared` or is one that a
page answers for (`Answered`, which includes the moment between `RevokeFound` and
`Clone`). It is kept because whoever writes a key is itself known: a page answers
for the task it revokes, and a run that lists duplicates either has no key or has
one that a page wrote (`KeyInPlace`: a key that a task carries past its check was
not there at the check). A clone takes over from the task it replaces; what a flush
drops ends as lost, not as revoked. Each action belongs to one of three sorts, steps beside the
worker (`Aside`), steps of the worker with its task (`WorkKeeps`, `QuietWorkKeeps`)
and steps that use a key up, and `HandedOn` is what all of them keep. No bound on
retries, forced ones, interruptions, kills or pages is used.

**SyncNowProofs.** The hypothesis `RequestsAlone` is what the two properties need:
the calls have no retries and ask for no removal of duplicates (`index_source`,
`tasks.py:550`, gives none of its own; the create's and sync-now's calls add none), no
worker is interrupted, nobody but the creation and the requests schedules, and
sync-now believes a row for longer than the clock runs. Section 5 says what happens
without some of these. `SyncInv` adds to `IInv`: a task runs once (`OneRun`) and its row is
new until then (`NotStarted`); the row of a task that may still run, and the row
which an open handler will save for it, are rows that the query matches, with the
task's eta (`Found`); such a task is due no later than a new call's would be, unless
it is the only one ever scheduled, the create's (`NotSlower`). So what a request finds is
the one runnable task, and what it revokes is the create's. With worker threads the
order of signals and saves matters, and no order breaks it: the theorems are for any
number of workers.

**SourceLifecycleProofs.** `Refinement` says that the code implements SourceNames.
The invariant `Inserting` says that a uuid is not in the
table before its own INSERT and that every identity in the table was asked for;
without it an INSERT could overwrite a row. Look-ups map to stutters or to
answers, the INSERTs to `Created` or `Acquire`, the rename to `Release`; sweeps
and deletions of renamed rows are stutters. `NamesExclusive` is about SourceNames
alone, whose steps take only free names; `Apart` carries it over to the code's
table. `RaceInv` carries the other two: as long as nothing is removed and no process
fails, a request that lost a race still has a rival ahead of it in one of the
look-ups to come (`SentBack`), so that it ends in a 409 or a namespace conflict;
and the row it is told keeps the key (`Told`). `Convergence` needs `Apart` besides:
two uuids told for one key both hold it, and only one row can.

**MediaTasksProofs.** `MediaInv`: the holder of `media:<uuid>` is a download of the
row that is there now (`LockHeld`), nobody else makes a file appear while an
automatic download has still to look (`FileAwaited`), and what a task, a form or an
image download keeps of a media was read from a row (`ReadsHeld`). The three
theorems are about steps: each action is shown to keep `MediaInv` and to be allowed
by all three properties, which is why the locks matter although no property names
the index lock.

**EpisodeNumbersProofs.** `TokensReadBack` is arithmetic: a token, two digits of the
place or more, reads back as the index it was made from and as no index of
another day. It needs the place to be below 10000, as the code's bound says. `EpisodeInv`: a
number is one of its media's day for as long as the media is not in `moved`
(`DatesSettled`), so that the file is frozen and `Index` avoids its number; and the
media under download keeps its row and date (`JobSettled`). That a free number exists at all is a
count: the media of a day are finitely many, their numbers taken are fewer than
the numbers there are. Ranks are only assumed to differ.

**DecisionsProofs, formats.** `FirstFound` says what "the first in sorted order that
passes the test" is: there is one if any candidate passes, and nothing that passes
comes before it. It rests on the order of the sort keys being total and transitive
(`BeforeIs`, `BeforeOrders`), and takes the least counterexample instead of an
induction over the list. On it rest the chain of tests (`TestsStart`, `TestsEnd`),
that a test for the codec comes before the one without it (`CodecFirst`), and that
the first test that finds something leaves nothing better of its sort behind
(`BestOfFirstTest`, `NoneIsBetter`). `DownloadsPermitted` joins the combined, the
video and the audio choice, and the last resort, under each fallback. The one
assumption is about yt-dlp's data: the second pass of `get_best_video_format`
does not look at the codec, so that a storyboard of 240 lines or more would be
taken for a video.

**DecisionsProofs, show title.** `TitlesCurrent`: nobody has a title that the channel has not
had yet, and a lookup that may still store one began after the last rebuild, or has
been marked as old (`Found`); `WriterLooked`: a writer on its way saw no file
of the user's. Any number of threads in any number of processes.

**HealthProofs.** `GuardInv`, for each memory: its marker is there before a run in it
acts and stays, so whoever is about to act is the first of that memory; a run of
its own memory has seen no release when it looks, and never acts. That a container
has three memories is why `AskedOnce` is about each of them. `ApartInv`: what timed out, or is
stuck, hung itself. `ShownInv`: a pass that began after a queue was stopped has
noticed it, could not tell, or has that check ahead of it (`Noticed`), and what it
caches is not asked about again after the life of the cache. Consumers may come in
any order and number; the proof needs that no service is named like another check
(`HealthAssumption`), which the names in `readiness.py` satisfy.

A lesson of these proofs is in the models: a CASE whose guards overlap denotes an
arbitrary choice among its branches, though TLC takes the first. Where the code is
a chain of conditions, the modules (`Health`, `BackfillPlan`, `FormatMatching`) say
so with IF.

**Only model-checked.** Liveness (`Settles`, `SyncServed`, `Answered`, `DeletedGoes`,
`LocksFreed`, `ShowHealsHere`), which is beyond the prover. `RescheduleKeeps` with
two worker threads: it depends on the number of retries, see section 5. Of the
backfill, `ForecastHolds`, `CleanExit` and `SecondChangesNothing`, which compare a
run with its own forecast, path by path, and the forecast folds over the media; and
`NothingLost` and `RowsOwn`, which do not hold for every layout: a download
replaces whatever has its sidecars' names and takes any file at its path for its
own, so that both depend on what lies around and on where `Target` puts the media,
for which no condition simpler than the command's own checks was found.
`ProfileSound`, whose rendering of a template is a fold over its pieces.

## 5. What the runs do not say

Where a property has an exception, or a run a restriction, the code does what
the exception says. The hazards in `PROJECT.json` record each one at its line:

* With worker threads a late SIGNAL_SCHEDULED save overwrites the row of the
  next run, a key can be written for a task that has passed its check, and with
  two or more retries, forced or not, two copies can revoke each other. The queue
  runs have one worker, and the theorems about rows, keys and duplicates have that
  hypothesis; `views` has two, and a call with the one retry that
  `schedule_manual_media_download` asks for. `save_all_media_for_source`, with 15
  retries on a queue of two threads (`signals.py:134`), is exposed.
* A copy of a manual download that has failed once escapes the comparison of
  retries, whatever started first (docstring, `tasks.py:198-200`).
* The row of an expired task reads as pending to sync-now, which then accepts a
  request and schedules nothing (comment, `views_write.py:473`).
* A handler that read a row before sync-now marked it takes the mark away
  (docstring, `sync_dedup.py:155`).
* A key collision that arises between the look-ups is answered as a namespace
  conflict (docstring, `views_write.py:221-222`).
* A create can take a deleted source's names before its placeholder does
  (comment, `views/sources.py:349`).
* A skip, or a media recorded anew, is undone by a task or an image download
  that had read the media before (`SkipStays`).
* A premiere whose hourly release is missed stays skipped.
* A file renamed next to a download of the same day can take its number
  (`FilesDistinct`). An imported file without ingested metadata that a listing dates
  to another day leaves its number to others, until a rename gives it one of the new
  day (`FilesDistinct`, `NumberKept`; `_episode_day_index` says so).
* `fallback` "hd" refuses the first format that fits the preferences when it is
  too small, though an HD one of another codec exists, against the label "next best
  resolution, any codec, but at least HD" (`choices.py:38`); with 60fps and HDR both
  preferred, "resolution and hdr" is tried before "resolution, codec and hdr".
  `BestFits` leaves both cases out.
* A container's three memories can each warn or stop the queue once (`AskedOnce`),
  though the ADR promises "one warning per container instance"
  (`medianest_bridge/docs/adr-0001-stale-ytdlp-guard.md:28-29`), and a later run in
  another memory stops a queue that was started again by hand.
* `CleanExit` speaks of the media a run has seen; a download that
  started before the save, and ends between the last look for late downloads and the
  count of those in flight, is in neither, against `_count_in_flight`'s docstring.
* A format with neither stream and 240 lines or more would pass for a video in the
  second pass of `get_best_video_format` (`matching.py:187-198`); storyboards are
  lower (`StoryboardsSmall`).
* A health script killed between its marker and `stop-queue` never asks again in
  that memory (`PausedIsAsked`); a pause by hand keeps the label `stale_ytdlp` while the
  state file says paused.

## 6. Not modelled

* Huey's result store, the exact backoff numbers of `AttemptsTask`.
* Media rows and files in a source's deletion; a placeholder that nobody cleans
  up is visible in SourceLifecycle but no property is stated.
* PostgreSQL and MariaDB, on which handlers can write while a sync-now
  transaction is open.
* The backfill's selection of sources, its form for the overlay and the
  queueing of channel images; a source's own images; rescans of media servers.
* The checks of ffmpeg, YouTube, the cookies, Plex and the source defaults
  beyond whether they worsen the status.
* Reading, parsing and rendering: auth, configuration, mapping, channel
  resolution, HTML views, the syslog server. They keep no state, or none that
  anything else here reads.
* yt-dlp, media servers, the file system's own failures except as outcomes.

## 7. What is left

* Backfill: `NothingLost` and `RowsOwn` for every layout that the command accepts.
  It needs an invariant about the mover, whose moves take a path's content along,
  and one that says which paths a running download may still take.
* Dedup with several threads: which retries, and which order of the signals,
  leave a copy of the call.

# Verification of comicvine-cache-proxy

TLA+ modules, TLC configurations and TLAPS proofs for the proxy in `src/`, a FastAPI
service that answers ComicVine API requests from an SQLite cache and fills that cache with
background jobs, inside the call budget ComicVine allows.

Line numbers are those of `src/src/cvproxy/` (`README.md:n` is `src/README.md`).

## 1. Inventory

One process, one event loop.  Route handlers and jobs are coroutines; a few synchronous
handlers (`def` endpoints of `app.py`) and some jobs run on worker threads.  Persistent
state: the entity database, `jobs.db` (run history, setting overrides), `stats.db`, the image
directory with its index, the limiter's state file.

| component | state | operations | interacts with | hard behaviour | correct when |
|---|---|---|---|---|---|
| **Upstream client and rate limiter** (`cv_client.py`) | hourly windows, pacer's last start, cooldown, state file | `get`, `get_image`, `retry_after`, restart | every caller of ComicVine | callers interleave at each await; refusals land while calls queue; restart; failed writes; a changed limit | never more than the limit in any hour over restarts; silence during a pause; requests spaced; client requests never sleep for the quota |
| **Job runner and history** (`jobs.py`) | runs in progress, newest run per job, `job_runs` | start, scheduled start, skip, cancel, finish, shutdown, start-up, prune | scheduler, HTTP, every job | three ways to start; cancel from a thread; worker threads that do not notice; crash between two saves | one run per job; the history tells how each run ended; answers never go backwards; a cancelled run ends |
| **Incremental sync** (`scheduler.py` 1000-1217) | watermark per endpoint | scheduled run, rewind, re-sync | limiter, entity store | paging over a list that changes; failures mid-slice; clock skew; rewind or re-sync during a run | no gap behind the watermark; every change arrives |
| **Pending-fetch queue** (`pending.py`, `db.py` 1505-1559) | `cv_pending_fetch` | add, process, done, failed | limiter, routes, backfills | re-request in flight, head-of-line waiting, reserve for clients | nothing queued is lost, queue goes before backfill |
| **Backfill and repair** (`scheduler.py` 740-967, 1490-1698) | missing marks, uncommitted upserts | per-id loop | limiter, queue, entity store | budget check before an await, shared transaction | stays in its budget; nothing stored is lost |
| **Entity store** (`db.py` 1722-1921) | volumes, issues, publishers | upserts, stubs, marks | everything | one connection for all coroutines | a list row never wipes detail fields |
| **Publisher lists, purge** (`publishers.py`, `db.py` 1979-2179) | allowlist, blocklist, rows | edit, import, purge in batches | jobs, responses | purge on a thread while the lists change | only blocked rows go |
| **Search cache** (`routes/api.py` 679-881) | cached result lists, fills in progress, negative entries | search, background fill | limiter, queue | partial entries, stale fills | an entry only grows; totals agree |
| **Volume issue lists** (`routes/api.py` 1127-1299) | synced marks | refresh under a lock per volume | queue | concurrent refreshes | marked complete only when complete |
| **Generic cache** (`routes/api.py` 1509-1636) | cached objects and lists | get, list | limiter | key leaves out the page | a page is what upstream's page is |
| **Image cache** (`image_cache.py`) | files, index, fetches in flight | get or fetch, clean-up | pacer | waiters of a failed fetch, clean-up during use | one fetch per image; index and files agree |
| **Setting overrides** (`overrides.py`, `app.py` 515-541) | stored overrides, settings, schedule | update | job runner | unlocked read-merge-save on threads | file, memory and schedule agree |
| Eviction, export, backup, checkpoint | files, bulk SQL | jobs | entity store | worker threads | - |
| Covers, MCL | hashes, references | jobs | pacer | mostly parsing | - |
| HTTP application, dashboard, health, authentication, statistics, watchdog | caches of counts, request log | read-only views | - | little | - |

The hazards of this code, each with its line and the properties that watch it, are listed
in `PROJECT.json`.

## 2. How the project is built

Order of work: what can hurt an outside party or lose data silently came first.  A component has a
module of its own name, `MC` + its name instantiates it for TLC, and its theorems are in its name
+ `_proofs`, but for two pairs of components whose theorems share a module:  `EntityStore_proofs`
extends `IssueDetails` and `VolumeLists`, `Caches_proofs` extends `ImageCache` and `SearchCache`.
So that this is possible, `VolumeLists` and `SearchCache` name their specifications `ListSpec` and
`SearchSpec`, and other names of theirs likewise.

| module | models | composed with | theorems |
|---|---|---|---|
| `HourlyQuota` | what the limiter promises (abstract) | - | - |
| `CallWindows` | what the limiter's callers rely on (abstract) | - | - |
| `RateLimiter` | `cv_client.py` | implements `HourlyQuota` and `CallWindows` | `RateLimiter_proofs` |
| `JobRunner` | `jobs.py` | - | `JobRunner_proofs` |
| `IncrementalSync` | `scheduler.py` 1000-1217 | - | `IncrementalSync_proofs` |
| `PendingQueue` | `pending.py`, its rows, the routes and backfills that share its windows | the limiter, as counts; uses them as `CallWindows` allows | `PendingQueue_proofs` |
| `IssueDetails` | `cv_issue`, backfill by id, list answers, what the lists and the cutoff keep out, eviction, purge | client requests, list edits and jobs on the shared connection | `EntityStore_proofs` |
| `VolumeLists` | `list_issues`, `_refresh_volume_issues` | clients, the queue's worker, eviction | `EntityStore_proofs` |
| `SearchCache` | `search`, `_fill_search_cache`, superset lookup | clients, background fills, the queue's worker | `Caches_proofs` |
| `BlockedPublishers` | `publishers.py`, `blocked_volume`, purge, repair | list edits, answers, the purge's thread | `BlockedPublishers_proofs` |
| `ImageCache` | `image_cache.py` | requests for images, the clean-up | `Caches_proofs` |
| `SettingOverrides` | `overrides.py`, the PUT handler, `sync_schedule` | update threads, restart | `SettingOverrides_proofs` |

No module uses a RECURSIVE operator.

## 3. Modules

**`HourlyQuota`** is what the limiter promises: time passes, slots of an endpoint are granted
while fewer than `MaxLimit` are less than an hour old, and slots may be forgotten.

**`CallWindows`** is the limiter as its callers see it: a count of calls per endpoint and whether a
pause runs.  A call takes a slot that is there, a refusal begins a pause, and both pass with
time.  `RateLimiter` implements it with the calls it has recorded (`Held`), `PendingQueue` with its
own counts: the two modules agree on it without knowing of each other.

**`RateLimiter`**.  A caller is a coroutine; `task[c]` says where it is
suspended: asleep for the quota, asleep for the pacer, or waiting for ComicVine's answer.  An
action is the code between two awaits.  `_wait_for_hourly_limit` is `Admit` (`TakeSlot` or
`SleepForQuota`), `_wait_for_rate_limit` is `Pace`, the second look at the cooldown and the
request are `Launch`, the answer is `Answered` or `Refused` (`_start_cooldown`), `_save_state`
is `Save` with the outcome of an `OSError`, `_load_state` is `Load`, and `Restart` is the death
of the process at any point and a new one with any configured limit.  `_guarded_get` is
`LiveCall`, a job's call is `BackgroundCall`, and `Cancelled` its cancellation at an await.
Wall clock and monotonic clock are one integer.  The call's payload is left out.  `granted`,
`refusedUntil` and `stale` are history variables.

**`JobRunner`**.  A run has a number; `status` is what memory says of it, `row`
what `job_runs` says.  `start`, `_fire`, `_on_scheduler_event`, `cancel`, `_execute` with
`_finish`, `shutdown` and `startup` are the actions of those names; every `_save` may fail,
which `lost` remembers.  A threaded job's worker (`threads`) goes on when its run is cancelled.
`Age` moves the boundary of the 30 days after which rows are pruned.  A run is cancelled only
after its first step: the loop runs a new task before it can read a client's next request.

**`IncrementalSync`** is the walk of `_sync_window` and `_sync_incremental`,
`_rewind_volume_sync`, and `_sync_recent_issues` (`Resync`, a page of it at a time).  ComicVine is
`edited`, the stamp of each item, with a clock that is `Skew` ahead of UTC and edits stamped up to
`Lag` late.  `NextPage` is one page that is not the last of its slice; `SliceDone` is the last
page and what the loop does then.  `current`, `shifted`, `raced` and `floor` are history
variables: which newest versions are stored, and which items an edit or a rewind moved behind the
walk in progress.  A run ends after `MaxChunks` slices at the latest, and the next one starts from
the watermark; `OutOfReach` says of an item that no run comes to it, because the slices before it
hold nothing newer.

**`PendingQueue`** is `pending.py`, the `cv_pending_fetch` rows of `db.py`, and those who use the
same hourly windows.  `queue` is the rows in order with their `attempts`; `Add`, `Remove` and `Fail`
are `pending_add`, `pending_done` and `pending_failed`.  A client request and the worker make the
same fetches, so `call[f]` says for each where it is: waiting for the lock of a volume's list, or
asking for a page.  `Request`, `LockGained`, `NextPage`, `LastAnswer` are the pieces of code
between two awaits; `ClientEnds` is what a route does with the outcome, `WorkerEnds` what
`process_pending` does.  `StartRun`, `Skip`, `FetchNext` and `EndRun` are its loop over the batch it
read at the start.  `BackfillCall` is `_budget_stop` and the call behind it, which sleeps if the
window is full (`BackfillWakes`).  Of the limiter only `used`, the calls of the last hour, and
`cooling` are kept: `Expire` lets a call grow older than an hour.  An item stands for one (kind,
key); what a fetch stores is the one bit `stored`.  `owed` and `tries` are history variables.

**`IssueDetails`**.  A row is the date of its list columns, the date of its credits, whether
`detail_fetched_at` is set, its missing mark and whether it was used lately.  The process has one
SQLite connection, so every row is there twice:  `shown` is what the connection sees, `saved` what
is committed; `Write` changes the first, `Commit` both, and a commit by anybody commits
everything.  `blocked` and `scope` are what the publisher lists make of the issues: of blocked
volumes, and open to backfills.  `Barred` issues, those of `blocked` and those before the cutoff
year, are what `upsert_issue` leaves alone.  `WithList`, `WithDetail` and `Marked` are the upserts
and the mark.  `Request` and `Arrives` are `get_issue` before and after its call; `Listed` and
`UpsertPage`/`InsertPage` are the jobs and routes that bring lists, which either upsert every
issue or insert the new ones; `StartRun` to `CancelRun` are the backfills that select ids by scope
and year window (`Due`) and `_backfill_ids`, which counts as updated (`run.updated`) also what was
not stored or was rolled back (`run.lost`, a history).  `EditLists` is any edit of the lists and
its commit, `EditListsFails` one that rolls back whatever is open on the connection; how they come
about is in `BlockedPublishers`.  `Evict` is the eviction of old, unused issues, `Purge` a batch
of the purge.  Dates are counts of edits.  The clients' `field_list` is one bit (details wanted or
not).

**`VolumeLists`** is one volume.  `task[r]` says whether a client or the worker waits for the
volume's lock, pages the list, or asks for the lookup itself; `lock` is the lock's holder and
waiters, in `asyncio.Lock`'s order.  `RefreshEnds` is the end of `_refresh_volume_issues`, whatever
the outcome, with what its caller does next.  `promised` is a history variable: what ComicVine had
when the list was read, as long as the mark lasts, less what was evicted.

**`SearchCache`** is a few queries over ComicVine's ranking of volumes.  A reader fetches pages as
a search, a fill or the worker (`Task`), page by page (`Page`), and ends (`SearchEnds`,
`FillEnds`, `WorkerEnds`) complete, stopped or failed with what it has.  `Answers` and `Outgrown`
say when an entry is used; `Supersets` and `Derive` are `cache_find_superset_search` and the entry
stored for the narrower search.  What ComicVine finds with a query (`Hits`), whose name contains
it (`Named`) or has all its words (`Worded`), and which queries are part of it (`Broader`) are
parameters.  The fields `had`, `torn` and `missed` of an entry are histories: all that ComicVine
had when the first page was made, whatever the query, whether what it finds changed before the
last one, and, of a derived entry, what its own search would find and the broader one cannot.

**`BlockedPublishers`** has the same two views of the tables as `IssueDetails`.  `EditLists` is
`set_publisher_list` or `import_publisher_list` with `_put_on_list` for each publisher,
`EditFails` the same with a statement that fails and the rollback of everything open.  `NewRows`
and `NowRemembered` are what the upserts do with an answer.  `Serves` is
`PublisherFilterMiddleware`: it judges a result by what `field_list` has left of it (`keys`), and
a search result also by whether it still says its kind.  The purge reads and deletes batches on
its own connection, needs the write lock for deleting (`~Open`), and fails if it does not get it
(`LockedOut`).  `repaired`, `steady` and `purged` are history variables, all changed by `Follow`;
only the step `Repair` adds to `repaired`.

**`ImageCache`** has files that may be cut short, index rows with the days since their last
access, and callers that fetch, wait or were woken.  `Fetched` is `store`, file then row;
`FetchFails` and `Restart` leave a part of a file, or a file without a row.

**`SettingOverrides`** splits `admin_settings_update` at every access to what updates share: read
and merge, save, remember, put in effect, and for each job look up, judge, act.  `Restart` is
`_load_overrides` and `create_scheduler`.

## 4. Runs

| run | checks | result |
|---|---|---|
| `rate_limiter` | `QuotaSpec` and `WindowsSpec` (refinements of `HourlyQuota` and `CallWindows`), `SlidingHourBound`, `NoCallWhileRefused`, `PacerSpacing`, `LiveNeverSleepsForQuota`, `RetryAfterExact` | hold |
| `job_runner` | types; `OneRunPerJob`, `HistoryAgrees`, `UncancellableWorkIsTracked`, `FinalRowStays`, `PollNeverGoesBack`, `CancelTakesEffect` (liveness) | hold |
| `incremental_sync` | types; `NoGap`, `EveryChangeArrives` (liveness) | hold |
| `pending_queue` | `OwedIsQueued`, `WindowsSpec` (refinement of `CallWindows`), `QueueDrains` (liveness) | hold |
| `issue_details` | types; `FreshIsWhole`, `UpdatesSurvive`, `EveryIssueGetsDetails` (liveness) | hold |
| `volume_lists` | `SyncedIsWhole`, `ListReadOnce`, `EveryLookupEnds` (liveness) | hold |
| `search_cache` | `CompleteMeansAll`, `OneFillPerSearch`, `FillsEnd` (liveness) | hold |
| `blocked_publishers` | `BlockedAreRemembered`, `BlockedStaysHidden`, `PurgeLeavesNothing`, `PurgeEnds` (liveness) | hold |
| `blocked_publishers_forgotten` | `RememberedAfterPurge`, db.py:283 | violated |
| `image_cache` | `FetchIsShared`, `NeverHalfAnImage`, `UsedImagesStay`, `EveryCallEnds` (liveness) | hold |
| `setting_overrides` | `AnswersHold`, `ScheduleFollowsFile`, one update at a time | hold |
| `setting_overrides_race` | `ScheduleFollowsSettings`, jobs.py:604, two updates at once | violated |

The two violations:

- Putting a publisher on the block list again, or importing the list it is on, deletes its
  `blocked_volume` rows and re-creates them from the volumes that are stored.  After a purge none
  are, so the purged volumes are forgotten, and stored and served again until ComicVine's answer
  names the publisher.
- Two updates of the settings run on two threads.  Between the look at a job and the act on it
  the other update may change the settings or the schedule, so a disabled job may stay scheduled.

Other disagreements between the code and its words that came up while modelling, each a matter of
reading the lines once they are pointed out:

- A sync that stops at the run limit keeps no slice, only the newest stamp it has stored.  If the
  slices of a whole run (45 days) hold nothing newer than the watermark, as after a long outage or
  a rewind over a quiet time, the next run walks the same slices again, and what changed after them
  does not arrive until something changes before.  `scheduler.py:1016` says that a longer backlog
  continues on the next run; `EveryChangeArrives` makes an exception of it (`OutOfReach`).
- `_backfill_ids` counts an issue as updated when `store` returns, and `upsert_issue` returns
  without storing when the issue's volume was blocked after the run chose it, or when the issue is
  older than the cutoff year.  The count is then more than was stored (`lost`), though
  `scheduler.py:752` says that the results are stored.  An issue that is in the file from before
  the cutoff was set is asked for in every run, and never stored.
- The middleware that drops blocked results sees them after `field_list` and the list defaults have
  trimmed them.  `field_list=name` leaves neither the id nor the publisher of a volume, nor the
  volume of an issue, and the result is served; `publishers.py:4-8` says never.
  `BlockedStaysHidden` speaks of results that are `Recognisable`.
- A search is answered from any complete search whose query is a substring of its own, which may
  end inside a word: a complete "bat" answers "batman" with those of its results that contain
  "batman".  ComicVine looks for words, so there may be none, and the empty list is stored as the
  complete answer, though `db.py:1634` calls the broader search a superset.  `CompleteMeansAll`
  makes an exception of what the broader search cannot find (`missed`).
- The hourly window is stamped before the pacer's wait (`cv_client.py:168`), so calls that queued
  leave later than they are counted, and more than the limit can leave within an hour.  The
  default of 180 against ComicVine's 200 absorbs it.
- The purge of blocked rows can be cancelled but works on a thread: its run is recorded as cancelled
  while rows are still being deleted, and a second purge can start beside the first.
- The sync pages by offset through a list that is sorted by the stamp edits change.  An edit of an
  item already read shifts the others by one; the one on the page boundary is skipped and
  the watermark passes it (`shifted`).  The hour of overlap hides this when the stamp is recent.
- A rewind made while the volume sync runs is overwritten by the run's own watermark (`raced`).
- A failed edit of the publisher lists rolls back what is open on the shared connection (`with
  self.conn`, db.py:2007), so a backfill loses upserts that it has counted (`EditListsFails`).
- A backfill that finds no request queued may still go to sleep in the limiter, if the hourly
  limit is configured below the backfill budget of 120; what is queued meanwhile waits behind its
  call.  With a limit of at least the budget this cannot happen (`BackfillYields` in section 5).
- An answer that is not JSON raises out of `CVClient.get`, and so out of the worker's run.  The
  attempt is not counted, the row stays first, and the next run fails on it again until ComicVine
  answers it with something readable.
- With an hourly limit of `LIVE_RESERVE` (30) or less the worker skips every row of every run;
  `QueueDrains` needs a larger one.
- `_repair_publishers` may find that a stored volume is a blocked publisher's; it is not
  remembered as blocked then (`repaired`).
- The mark of a background fill is set before the response is sent; if sending fails, the task
  never starts and the mark stays until the next restart.

Where types are not in a run's row they are proved (section 5): `ListTypeOK` of `VolumeLists`,
`SearchTypeOK` of `SearchCache`, and `TypeOK` of the others.

### Bounds

- `rate_limiter`: one endpoint (windows of different endpoints share only pacer and cooldown, which
  images exercise), two client requests and one job, limits 1 and 2 (a restart can raise or
  lower it), an hour of three ticks, a pacer of one, pauses of zero and two ticks, five ticks, so
  that slots expire and are taken again.  `MaxBurst` bounds the slots of one instant
  and is the larger limit, so it cuts nothing off.  The client requests are symmetric.
- `job_runner`: a threaded job that cannot be cancelled and a quiet one that can; three
  runs, enough for one in progress, one skipped and one of the next process.
- `incremental_sync`: two items and pages of one item, so that a slice has a boundary to slip
  through; a slice of two ticks and two slices a run, an overlap of one tick, lookback and pad of
  one slice, a rewind to the beginning, one failure.  A run that starts at the rewound watermark
  comes to tick 3 (its start is the watermark less the overlap) while stamps go to 5, so the run
  limit does leave items unread, with and without something newer before them.  The clock moves
  once: what matters is the order of stamps, which edits choose freely in the past, present and
  skewed future.  The liveness property is what limits the size.
- `pending_queue`: two issues on one endpoint and a volume's list of two pages on another, so that
  one endpoint can be exhausted while the other is not and one fetch takes several slots; one
  client beside the worker and one backfill, so that each pair of them can meet; a limit of two with
  a reserve of one, a batch of one (the head of the line is all the worker sees), two attempts.
  `MaxRequests` bounds the calls of clients and other jobs, `MaxTroubles` refusals, unreadable
  answers, cancellations and restarts together.
- `issue_details`: two issues of one volume, one that is old enough for eviction and one imported
  without dates; one edit, of an issue on ComicVine, so that two versions of an answer can cross,
  or of the publisher lists, so that the volume is blocked or out of scope in the middle of a run;
  a client, a page of one issue and a backfill at once; one trouble.  No issue is before the
  cutoff or out of the backfill's year window there, as it would only be left alone; the theorems
  hold for any.
- `volume_lists`: a list of two issues in pages of one, an edit that adds a third, which makes it
  too long (`MaxIssues` is two), or takes one away between the pages; one client and the worker;
  two troubles, so that both can be stopped in the middle.
- `search_cache`: a query and a narrower one that contains it in the middle of a word, three
  volumes, two of them there at first, one of the narrower name that the broader query does not
  find; pages of one and three at most, so that a search of one page leaves two to a fill, which
  can stop between them; two clients and the worker; one edit, after which a query finds nothing
  or one volume more; one trouble, so that a queued search is not refused a second time
  (`pending_queue` does that).
- `blocked_publishers`: two publishers with a volume each, one with an issue and seeded as blocked;
  batches of one, so that a purge has several; two edits and one trouble.  Any rows to begin with.
  Answers carry any of the four keys by which a result is recognised.
- `image_cache`: two images, three requests, a TTL of two days, two troubles.
- `setting_overrides`: two settings that each turn a job off, one of them off by default, and one
  that cannot be edited; a job that nothing turns off between those two; values below, at and
  above the minimum, a stored table with any values; two updates, one crash.  With two updaters
  (`setting_overrides_race`) no crash is needed.

### Fairness

`P ~> ~P` is written `[]<>~P` where a run is long: it says the same, and TLC checks it without a
tableau.  `RateLimiter` and `SettingOverrides` have no liveness property.  `JobRunner` assumes
weak fairness of `FirstStep` and `Cancelled` for each run, because the event loop runs every ready
task; nothing is assumed of the jobs, which may never return.  `IncrementalSync` assumes that the
scheduler starts a run when none is in progress, that ComicVine answers a page request sooner or
later (failures are bounded by `MaxTroubles`, so the outage ends), that the clock goes on, and
that rewinds end (`RewindsEnd`): an operator starts each of them, and one per run would keep the
sync at its beginning.  `PendingQueue` assumes that calls grow old and pauses end, that a call to
ComicVine ends (the HTTP client has a timeout), that the scheduler starts the worker (every two
minutes) and that the loop resumes it; what clients and others can take from the windows is
bounded, because a stream of calls without end may keep the worker's share taken.  `IssueDetails`
assumes that the backfill is started (every hour) and resumed, and, strongly, that quota and queue
again and again leave it a call for each id: they may refuse it as often as they like in between.
`VolumeLists` and `SearchCache` assume that ComicVine's answers arrive and that the loop wakes
whoever has got the lock; `ImageCache` that a fetch ends and the loop turns; `BlockedPublishers`
that the purge's thread runs, not that it gets the write lock.

## 5. Proofs

The theorems hold for every value of the constants that satisfies the module's named assumption.

| module | theorem | statement |
|---|---|---|
| `RateLimiter_proofs` | `TypeCorrect` | `Spec => []TypeOK` |
| | `RecordCorrect` | `Spec => []RecordInv` |
| | `HourlyBound` | `Spec => []SlidingHourBound` |
| | `LimiterKeepsPromise` | `Spec => QuotaSpec` |
| | `SilenceAfterRefusal` | `Spec => NoCallWhileRefused` |
| | `PacerKeepsDistance` | `Spec => []PacerSpacing` |
| | `WaitsAreExact` | `Spec => []RetryAfterExact` |
| | `NoWaitIsFree` | `Spec => []FreeToGo` |
| | `ClientsAreAnsweredAtOnce` | `Spec => []LiveNeverSleepsForQuota` |
| | `LimiterKeepsWindows` | `Spec => WindowsSpec` |
| `JobRunner_proofs` | `TypeCorrect` | `Spec => []TypeOK` |
| | `NeverTwiceAtOnce` | `Spec => []OneRunPerJob` |
| | `HistoryTellsTheTruth` | `Spec => []HistoryAgrees` |
| | `HowItEndedStays` | `Spec => FinalRowStays` |
| | `UncancellableThreadsAreTracked` | `Spec => []UncancellableWorkIsTracked` |
| | `PollsStayTrue` | `Spec => PollNeverGoesBack` |
| `IncrementalSync_proofs` | `TypeCorrect` | `Spec => []TypeOK` |
| | `WatermarkLeavesNoGap` | `Spec => []NoGap` |
| `PendingQueue_proofs` | `NobodyIsForgotten` | `Spec => []OwedIsQueued` |
| | `TypeCorrect` | `Spec => []TypeOK` |
| | `WindowsAreShared` | `Spec => WindowsSpec` |
| | `BackfillYields` | `Spec => BackfillYieldsToQueue`, if `Budget <= Limit` |
| `EntityStore_proofs` | `TypeCorrect` | `Spec => []TypeOK` |
| | `FreshDetails` | `Spec => []FreshIsWhole` |
| | `UpdatesAreSaved` | `Spec => []UpdatesSurvive` |
| | `MarkMeansWhole` | `ListSpec => []SyncedIsWhole` |
| | `NobodyReadsAgain` | `ListSpec => []ListReadOnce` |
| | `ListTypeCorrect` | `ListSpec => []ListTypeOK` |
| `BlockedPublishers_proofs` | `BlockedVolumesKnown` | `Spec => []BlockedAreRemembered` |
| | `BlockedHidden` | `Spec => []BlockedStaysHidden` |
| | `PurgeComplete` | `Spec => []PurgeLeavesNothing` |
| | `TypeCorrect` | `Spec => []TypeOK`, finitely many volumes and issues |
| `Caches_proofs` | `TypeCorrect` | `Spec => []TypeOK` |
| | `SharingCorrect` | `Spec => []FetchIsShared` |
| | `WholeImages` | `Spec => []NeverHalfAnImage` |
| | `UsedImagesAreKept` | `Spec => UsedImagesStay` |
| | `CompleteIsWhole` | `SearchSpec => []CompleteMeansAll` |
| | `OneTaskFills` | `SearchSpec => []OneFillPerSearch` |
| | `SearchTypeCorrect` | `SearchSpec => []SearchTypeOK` |
| `SettingOverrides_proofs` | `AnswersStay` | `Spec => []AnswersHold`, one updater |
| | `ScheduleCorrect` | `Spec => []ScheduleFollowsFile`, one updater |
| | `TypeCorrect` | `Spec => []TypeOK`, any number of updaters |

**`RateLimiter`.**  `SlidingHourBound` speaks of `granted`, which no code reads, so it is not
inductive.  `RecordInv` relates it to what the code has: what is younger than an hour in the
window is exactly what was granted; the state file holds nothing else, and all of it unless its
last write failed; and `granted` is finite and within `MaxLimit`.  So `HasRoom`, which looks at the
window, speaks of `granted`, and a restart starts from a window that is `granted` again or a
part of it.  The refinement follows action by action: `TakeSlot` is `Grant`, `Tick` is `Pass`,
`Restart` is `Forget` or a stutter, the rest are stutters.  `PauseInv` says the
same of the cooldown in memory and in the file against `refusedUntil`; `PacerInv` adds to the
spacing that no start time given out is later than `lastRequest`.  `RetryAfterExact` rests on a
fact about finite sets: the n-th newest stamp is the one whose expiry leaves fewer than n
(`NewestIsNth`), whatever the window holds; `ClientsAreAnsweredAtOnce` adds that between the
answer "no wait" and the slot there is no await.  For `CallWindows` the counts are those of
`granted`, again by `RecordInv`: `TakeSlot` adds one (`SlotCounts`), `Tick` and `Restart` only take
away (`LessGranted`).  That a restart never begins a pause takes one more invariant, `FileIsOlder`:
the file may hold an older pause than memory, if a write failed, but never a longer one.

**`JobRunner`.** `OneRunPerJob` counts; `RunsInv` says instead that two runs in progress of one
job are one run, and that runs in progress have been made, so that the number a new run takes is
free.  `HistoryAgrees` alone is not inductive: a new run could find an old row under its number,
and the end of a run could meet a row that is already final.  `HistoryInv` adds that runs not made
yet have left no trace, and that the runs in progress have not been closed while the process is
up, which also gives `FinalRowStays`: the only save that meets a final row comes after the
shutdown, when the history is closed and drops it.  `ThreadsInv` adds that only cancellable runs
were asked to cancel.  For `PollNeverGoesBack`, `PollInv` says of old runs too, which
`HistoryAgrees` leaves out, that a row holds what memory says or is gone, and that runs in
progress are never old enough to be pruned; then an answer can change only where memory gives way
to the row.

**`IncrementalSync`.** `NoGap` speaks of the watermark, which a run moves only at its end.
`Walked` says the same of the walk in progress: what it has passed is stored or was moved behind
it.  `Ordered` says that it has passed everything older than the newest stamp it will hand over,
less the overlap; that is what lets the stamp become the watermark.  The rest is arithmetic of
ranks: a page takes the next `PageSize` of a slice in the order of stamps (`PagePasses`), and an
edit, stamped at most `Lag <= Overlap` behind ComicVine's clock, moves nothing it passes towards
the front (`RankAfterEdit`).  Assumed:  `Lag <= Overlap` (scheduler.py:1133 gives the overlap this
reason) and that a rewind goes back at least as far as the clocks differ (the parameter is at
least a day); `Skew <= Pad` (the pad's reason) is what the liveness property needs.

**`PendingQueue`.**  `OwedIsQueued` is preserved because rows are removed by the worker alone, and
only the row it has in hand.  `QueueInv` says so: no row is there twice, what the worker waits for
or asks for, and what is left of its batch, is queued, the rows of a batch differ, and `attempts`
never exceeds `tries`.  `Joined` and `Without` say what adding and removing does to a sequence
without repetitions.  `BackfillYields` adds that no backfill is ever asleep: a window below the
budget is below the limit.  `WindowsAreShared` shows of each action that calls ComicVine that it
looks at the window in the step that takes the slot, not only before the wait that precedes it; that
`CanAsk` is what `retry_after` says is `NoWaitIsFree` of `RateLimiter_proofs`.

**`IssueDetails`.**  `SoundTables` says of each row, on the connection and in the file, what the
upserts keep: a fresh row has details of its own date.  `Kept` says that what the run in progress
counts and has not lost has details on the connection, so the commit at its end puts them into the
file, and what was reported has them in both; a run that is cancelled reports nothing.

**`VolumeLists`.** The mark is set by whoever read the last page, so `SyncedIsWhole` has to be
known of a list that is half read.  `SeenIsStored` says so: of what ComicVine had when the first
page came, a reader has stored all but what lies behind its offset, as long as the list did not
change.  `InLine` ties the lock to its users: those who wait or read stand in it once, only its
first reads, and nobody reads while the mark lasts, because the mark is looked at again with the
lock in hand.  `Leaving` says what a cancelled waiter does to the line.

**`SearchCache`.** `Fits` says of each task that its pages are the first of what ComicVine would
answer, or it is torn; so who has read the last page has everything ComicVine had and finds
(`GotIsWhole`).  `Whole` says of each entry what `CompleteMeansAll` does, whoever stored it.  For
an entry derived from a broader one that needs to know that filtering a list loses nothing of the
set (`OnlyKeeps`); `Only` is a recursive function, and the induction goes over the set of lengths
for which the claim holds (`Upwards`), as the library's induction theorems, which take a
predicate, cannot be used.  Assumed: a volume whose name contains the narrower query has the
broader one in it as well (`Named[q] \subseteq Named[b]`: the broader query is a substring of the
narrower one, db.py:1660, and both are looked for in the name, db.py:1684).  That ComicVine finds
with the broader query what it finds of the name with the narrower one is not assumed: what it
does not is `missed`.  `MarksAre` says that a mark has a task and at most one, without counting,
and `OneTaskFills` counts at the end (`MarksCount`).

**`BlockedPublishers`.** `Known` says that the process remembers whatever the connection or the
file calls blocked, and that an open transaction only adds to the blocked volumes, so a rollback
leaves memory with more than the table, never less.  From it follows `BlockedStaysHidden`, of
answers that are `Recognisable`.  `Settled` says that nothing uncommitted is of a volume the file
calls blocked, so no commit brings back what a purge has deleted, and what is gone of the `steady`
volumes at each stage of the purge.  Assumed: volume and issue ids are told apart (`Volumes \cap
Issues = {}`); for the types also that there are finitely many, as the size of a batch means
nothing otherwise.

**`ImageCache`.**  `Marked` says that a URL is in flight exactly while one caller fetches it;
`Rows` that an image being fetched has no row, so a file cut short has none, and that who was
woken with an image finds its row; `Aged` that a row is never older than the last use.

**`SettingOverrides`.**  `AnswersStay` and `ScheduleCorrect` assume that updates come one at a time
(`OneAtATime`); `TypeCorrect` does not, and says that even when they race nothing is remembered that
fails the check and no job scheduled that is not registered.
`Progress` says how far file, memory and settings follow the update at each step; `Told` that what
was answered follows from everything that is or will be in effect, so that a crash cannot take it
back; `Synced` that every job the update has behind it is scheduled as the settings say.

Only model-checked: the liveness properties (`CancelTakesEffect`, `EveryChangeArrives`,
`QueueDrains`, `EveryIssueGetsDetails`, `EveryLookupEnds`, `FillsEnd`, `PurgeEnds`,
`EveryCallEnds`), which are beyond the prover.  Every invariant and action property of the passing
runs is proved.

## 6. Not modelled

- The generic response cache: one read and one write around one call.  What is hard about it is
  that its key leaves out limit and offset (`routes/api.py:1626`), which one request after another
  shows.
- The backlog estimates, catalog and logs of the job runner, the dashboard, health and statistics:
  views that nothing depends on.
- The order in which backfills take their ids, cover hashing and MCL parsing: sequential work.
- Covers and cached responses that a purge batch deletes along with its rows; they are in the same
  transaction.
- That `count_of_issues` (db.py:1303) may be older than the volume's list, so that local rows pass
  for complete: a matter of how often the volume sync runs.  `VolumeLists` has the rule, but
  claims nothing of lookups it answers.
- Full-text ranking, pagination of answers, `field_list` beyond one bit, payloads, JSON, HTML,
  publisher CSVs, images.  In `BlockedPublishers` any of the keys that tell a publisher may be
  missing, whichever field list leaves them out.
- Export, backup and WAL checkpoint, which change no row; the backup's thread is a job of
  `JobRunner`.
- Authentication and the watchdog, which have no state that others depend on.

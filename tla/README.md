# Verification of the YouTube trending pipeline

TLA+ models of the pipeline in this repository, the TLC runs that check them
and the theorems about them that TLAPS proves. Paths below are those of the
repository: `backend/...`, `frontend/...`.

## 1. The system

One process (`backend/cmd/server/main.go`) runs two gRPC services, a REST
gateway and a pool of five workers over PostgreSQL and Redis; a Next.js
frontend and an hourly cron job are its clients.

| Part | State it keeps | Operations | Talks to |
|---|---|---|---|
| ETL service `backend/etl/server.go` | `jobQueue`, a channel of capacity 100 | `SubmitJob`, `SubmitBatch`, `GetJobStatus`, `WatchJob` | database; workers through the channel |
| Worker pool `backend/worker/worker.go` | per worker: job, attempt, counters | `Start`, `processJob` | channel, YouTube client, database |
| Database `backend/db/db.go`, `backend/db/migrations` | tables `jobs`, `videos` | one SQL statement per method, no transactions | - |
| YouTube client `backend/youtube/client.go` | none | `FetchTrending` | YouTube Data API |
| Analytics service `backend/analytics/server.go` | Redis entries with a TTL of one hour | cache-aside `GetVideos`, `GetTopChannels`; uncached counts, regions, trend | database, Redis |
| REST gateway `backend/api/server.go` | none | HTTP/JSON to gRPC; `WatchJob` to server-sent events | both services |
| Process `backend/cmd/server/main.go` | - | start, `GracefulStop` on a signal | all of the above |
| Cron `.github/workflows/cron.yml` | none | POSTs a batch per hour, key = region and run id | gateway |
| Frontend: job form, job page, jobs list | React state, `localStorage` | submissions, polls, an `EventSource` per job page | gateway |
| Frontend: dashboard, videos table, trend page | React state | fetches per selection, in halves joined by `Promise.all` | gateway |

What is hard in it:

* **Concurrency.** Handlers race between the lookup of an idempotency key and
  its insert; workers share a channel with blocked senders; a watcher polls a
  row that a worker writes; a page replaces its stream while updates travel.
* **Failure.** No method of `DB` runs in a transaction: a statement may take
  effect and report an error, and several errors are dropped. The process keeps
  its jobs in memory and does not look at the `jobs` table when it starts.
* **Ordering and staleness.** Polls, caches and overlapping requests of the
  frontend.

`PROJECT.json` lists every component with its status, and every hazard with
the line where it bites and the properties that cover it.

What makes each part correct:

* ETL service and workers: a key has at most one job; a job is run by one
  worker; a job is never lost but by a restart, a lost answer or a failed last
  update; done and dead are final; the counters of a done job are true; every
  call returns; every job ends; a stop ends.
* `WatchJob` and the job page: updates go forward, the end is sent last, the
  page never goes back, comes to show the end and then the whole job.
* Analytics: an answer was asked for, and is one the database would have given
  within the last hour and the delay of one slow reader; pages lose no video
  that did not rise between two of them; a card and the chart under it differ
  only by snapshots saved in between.
* Frontend: what is shown belongs to what is selected, whatever order answers
  come in, as far as the code can promise that; what is on one screen agrees;
  a form gets one job per hour and remembers it.

## 2. Modules

| Module | What it is |
|---|---|
| `Database` | the tables `jobs` and `videos`; each writing method of `DB` as an operator on a table; the UNIQUE and PRIMARY KEY constraints |
| `YouTubeClient` | what `FetchTrending` makes of each kind of answer |
| `ETLPipeline` | handlers, channel, workers and restarts over `Database` and `YouTubeClient` |
| `ETLProperties` | what should be true of `ETLPipeline`; its refinement mapping to `JobLifecycle` |
| `ETLInvariant` | the inductive invariant of `ETLPipeline` |
| `ETLProofs` | theorems about `ETLPipeline` and `Shutdown` |
| `JobLifecycle` | the abstract specification: what the tables show of a job |
| `Shutdown` | `main` over `ETLPipeline`: calls and watchers that arrive, the signal, `GracefulStop`, the end, a crash, the next start |
| `JobWatch`, `JobWatchProperties` | `WatchJob`, the gateway's event stream and the job page, over a row that moves as `JobLifecycle` says |
| `VideoQueries` | the analytics queries of `db.go`; where SQL leaves an order open, the set of answers |
| `AnalyticsCache` | the cached reads: Redis, time to live, readers, ingestion and time |
| `VideoPages` | a client that turns the pages of a table that grows |
| `RestApi` | what the browser gets of an answer: JSON without zeros and empty lists |
| `Arrays` | `Array.prototype.filter`: what is kept, in the order of the list |
| `VideosTable` | `videos-table.tsx`: selectors, fetches, search, sorting, pages |
| `AnalyticsDashboard` | `analytics-dashboard.tsx`: the region, its fetches in halves, the cards and charts |
| `VideoTrend` | `video-trend-chart.tsx`: the card and the chart of one video |
| `JobStorage` | the ids of jobs in `localStorage` |
| `JobForm` | `job-form.tsx` and `lib/jobs.ts`: keys, submissions, navigation |
| `JobsList` | `jobs-list.tsx`: polls that overlap |
| `JobWatchProofs`, `AnalyticsCacheProofs`, `VideoPagesProofs`, `VideosTableProofs`, `AnalyticsDashboardProofs`, `VideoTrendProofs`, `JobFormProofs` | for each of these modules its inductive invariant, its theorems and their proofs; the last of them for `JobsList` too |
| `MC...` | instances for TLC |

How they compose. `Shutdown` extends `ETLPipeline`, every step of which it
takes or forbids. `JobLifecycle` joins the pipeline and its watchers:
`ETLPipeline` implements it (checked and proved), `JobWatch` uses nothing else
of the pipeline. `VideosTable`, `AnalyticsDashboard` and `VideoTrend` run over
`RestApi`, and that over `VideoQueries`, so a fetch of theirs is answered with
what the queries give and the JSON keeps of it: lists of videos and of channels,
which may come from Redis, for any content the table had in the last hour, the
rest for the table of the moment. `VideoPages` reads its pages the same way.
`JobForm` and `JobsList` share `JobStorage`, `VideosTable` and `JobsList` the
`filter` of `Arrays`. Of the pipeline `JobForm` uses one
fact, that a key has at most one job: `KeysAreUnique` in `ETLProofs`.

### Granularity of `ETLPipeline` and `Shutdown`

One action is the code between two calls that can block or fail.

| Code | Model |
|---|---|
| `SubmitJob`, `SubmitBatch` called | `CallSubmitJob`, `CallSubmitBatch` |
| `stream.Recv()` | `Recv`: a request, the end of the stream, or an error |
| `GetJobByIdempotencyKey` in `processJob` | `Lookup` |
| `InsertJob` in `processJob` | `Insert`: success, a constraint error, an error with or without effect |
| `s.jobQueue <- job` | `Enqueue`, blocked while the channel is full |
| `<-w.jobQueue` | `Dequeue` |
| `UpdateJobStarted` / `FetchTrending` / `UpdateJobRetrying` / `time.Sleep` | `Begin` / `Fetch` / `Retry` / `Wake` |
| one round of the loop over the videos | `InsertNext` |
| `UpdateJobCompleted` / `UpdateJobDead`, errors dropped | `Complete` / `MarkDead` |
| the process stops, at any point, and starts | `Restart` |
| `<-quit`; `GracefulStop` returns and `main` ends | `Signal`; `Exit` |
| a run of `WatchJob` begins, sends the end, loses its client | `Watch`, `WatchEnds`, `WatcherLeaves` |

`MayFail` and `MayCrash` switch faults on. `abandoned` is a history variable:
the live rows the process lost hold of. A worker's `answer` is another: what
the videos it inserts came with; no step depends on it. Left out are the
payload of a request, the columns no property depends on, the wording of
messages and the times themselves; `retryAt` says whether `next_retry_at` is
set. A job has one region, so the primary key of `videos` is a video id per
job. The `videos` table of `README.md` has no primary key; the model follows
the migrations. In `Shutdown` a watcher is in progress or not; how it polls is
`JobWatch`.

### Granularity of `JobWatch`

A *stream* is a run of `WatchJob` with the gateway's and the browser's hop
behind it: `sent` are the updates sent, `taken` how many the page has had.
`Poll` is one round of the loop, `Wake` the end of the two seconds. `Answer`
and `Arrive` are the two ends of `getJobStatus`; `Effect` is React running the
effect that depends on `job.state`; `Connect`, `StreamEnds`,
`ConnectionBreaks` and `Refuse` are the life of an `EventSource`, modelled
from its use in `frontend/lib/api.ts`: it reconnects when a stream ends or
breaks, and gives up on a status other than 200. The server notices at its
next round that a client is gone. The model assumes that effects run before a
lost `EventSource` reconnects (milliseconds against seconds). The list of the
last fifty updates is left out.

### Granularity of `AnalyticsCache` and `VideoPages`

A request has the parameters of its call and `Key` those that the call's
`Sprintf` lists, times cut to whole seconds (`Second`); which rows a request is
about (`Selects`) comes from the query in `db.go`, not from the key. The time of
a request counts parts of a second, and 0 is the zero `time.Time`.
`Get`, `Query` and `Set` are the three calls of a read, for `GetVideos` and
`GetTopChannels` alike; Redis may fail in the first and the last, and the code
takes both failures for a miss. Time is ticks: an entry loses one of its `TTL`
ticks with each. Of a list the model keeps the request it answers, whether the
database would still answer the same (`fresh`), and for how many ticks it has
not (`age`); `Ingest` is a worker adding rows, which makes every list read
before out of date. The bound `MaxDelay` on the time between a query and its
`redis.Set` is part of what `BoundedStaleness` says, not of the code: the code
has no such bound, and neither has its staleness without one.

In `VideoPages`, `VideoTrend`, `VideosTable` and `AnalyticsDashboard` the cache is
seen from outside: an answer that goes through Redis is of any content the table
had in the last hour, chosen anew for each key, so two pages, or two halves of a
screen, may be of very different times. `recent` are these contents in the first
two; `Save` adds one and `Expire` takes one away. This allows every mixture of
entries that `AnalyticsCache` can reach and some more, so what holds here holds
of the program; the delay of a slow reader only makes the hour longer. `made` and
`madeOf` are history: what contents the answers were of. The dashboard's table
runs through `Tables` in one direction, so its `recent` are the ones before the
present one. `VideosTable` has no table of its own: `Contents` are those of the
last hour.

### Granularity of the frontend modules

React runs the effects of a click before it returns to the event loop, so a
choice and the fetches it starts are one action; each answer or error is an
action of its own, taken in any order. Nothing in the code cancels a fetch.
`late` marks a fetch that a later one has overtaken and `stale` says that the
last answer was such a fetch: both are history, used only by properties. What a
component renders are operators (`Body`, `Rows`, `Caption`, `Card`, ...), and
properties are stated over these. `Array.prototype.sort` with a comparator
that answers NaN may give any order, and `Sortings` does. Missing counts are
`Undefined`. In `JobForm` the fetch of a page that was left goes on and its
answer still navigates, as `router.push` does; a reload ends it. Its time counts
parts of an hour, and its key is what the code writes: the region, and behind it
category and hour as one number, since nothing separates their digits.

Two shortcuts of these modules. `StatsArrived` sets a region that is no longer
offered and starts the fetches of the new one in one step; in the code the
correction comes from a promise and its effect runs in a task after the render,
so the screen can for one frame show a corrected region over charts of the one
before, before their spinners turn. And a statement of a process that has died
either took effect before the death or never does; one that PostgreSQL executes
after its client is gone is not modelled.

## 3. Runs

| Run | Question | States | Result |
|---|---|---|---|
| `etl_safety` | all safety properties of the pipeline, the inductive invariant and `ImplementsLifecycle`, under every fault | 900,000 | hold |
| `etl_liveness` | `JobsSettle`, `CallsReturn`, `StopEnds`, `StopLosesTheAccepted`, with signals, crashes and a handler that waits for room | 267,000 | hold |
| `watch_safety` | `SentInOrder`, `EndIsSent`, `EndIsReal`, `LiveIsConnected`, `PageNeverGoesBack` | 3,600,000 | hold |
| `watch_liveness` | `PageLearnsTheEnd`, `HandlersReturn`, `EndBringsDetails` | 210,000 | hold |
| `analytics_cache` | `BoundedStaleness`, `AnswersTheRequest`, `StaleDataGoes` | 424,000 | hold |
| `video_pages` | `PagesCover`: what a reader of pages misses or reads twice | 535,000 | holds |
| `video_trend` | `CardFitsChart`: do card and chart agree? | 7,800 | holds |
| `videos_table` | `ShownIsSelected`, `PagesShowMatches` | 38,000 | hold |
| `dashboard` | `ChartsAgree`, `SettledIsSelected`, `RegionIsOffered`, `ChoiceIsKept` | 624,000 | hold |
| `job_form` | `KeepsTheRecent`, `OneJobAnHour`, `AnswerIsAsked` | 568,000 | hold |
| `jobs_list` | `SinglePollsAdvance`, `CatchesUp` | 152,000 | hold |
| `etl_rerun` | `RerunIsSafe`: is a re-run with the same key safe after a restart? | | no |

**Bounds, and why they are enough.**

* `etl_safety`: two handlers, two workers, two job ids, two keys, a channel of
  one slot, one video, requests of one key and of both. Two handlers are enough
  to race for a key and to compete for the slot; two jobs keep both workers
  busy, or one busy and the channel full; the list that names the one video
  twice makes an insert fail in the middle. All three attempts are run
  (`MaxAttempts` is the code's constant). The ids are as many as the keys
  because a key gets one job: a third id would never be drawn. Handlers,
  workers and ids are symmetric.
* `etl_liveness`: one handler, one worker, one watcher, three ids and three keys,
  a channel of one slot. A batch of three gets one job to the worker, one into
  the channel, and leaves its handler waiting with the third while the worker
  runs, retries or sleeps, also while `main` is stopping. Calls are unbounded in
  number: a handler calls again and again. Liveness allows no symmetry, so
  `DrawnInOrder` keeps one order in which ids are drawn, which is enough because
  neither program nor properties tell them apart. Attempts fail and calls of
  YouTube too; statements and request streams do not (`MayFail` is off), lists
  are empty and there is one handler, so that the three jobs fit: a statement that
  fails takes a goroutine only a shorter way to its end, and failing statements,
  videos and handlers that compete for the slot are in `etl_safety`.
* `watch_*`: one job, one page. Three streams let two drain while the page
  listens to another; two faults allow a break during the recovery from a
  break. `watch_liveness` has two streams, two attempts and one fault. Deadlock
  is not checked: a page that shows the end of its job has nothing left to do.
* `analytics_cache`: entries of two ticks and a delay of one, so that an entry
  can be set late, age, and be set again before a slow reader's `Set`. Of the
  three requests, a page and the same page from half a second later share a key,
  the page that follows does not.
* `video_pages`: four videos, pages of two, at least two full pages. One video
  comes to be the first, one is corrected down by a row that may be saved late,
  two start with as many views: rows cross the border of the pages in both
  directions and share it. Every subset of the rows may be the table at first,
  and up to three contents (`MaxRecent`, in the guard of `Save`) may be in Redis
  at once: one for each of the two full pages and the present one.
* `video_trend`: the video has snapshots of two regions, with a count of zero
  in two of them, and a rival that may keep it out of a list of one; up to three
  contents again.
* `videos_table`: three videos in one region and one in the other, two
  categories, pages of two: two pages, a filter without videos, a count that is
  missing; a video that is or is not there yet when a list is made. Three
  fetches in flight make two overtakings possible.
* `dashboard`: a table that is empty, has one region, or both, and grows; two
  fetches in flight (plus those a correction of the region starts), of the same
  kind or of both: each kind can be overtaken. Deadlock is not checked: a page
  whose render threw (`Crashed`) stops.
* `job_form`: three half hours, of which two make one hour, in the year 2025 (the
  digits matter to the key), one region and two categories: four keys and as
  many jobs; a list of two, so that the third job pushes one out; five answers.
* `jobs_list`: three jobs, one of them unknown to the server, one change each, a
  list of two, two polls in flight, one failing request.

**Fairness, and why the code justifies it.** A goroutine that can run is run,
and statements return: weak fairness of a handler's steps, a worker's steps and
`main`'s. Nothing more is asked of the channel, although a blocked sender may
find it full again when it gets its turn: no job is sent twice, and the jobs of
an instance are finitely many. (In a service that runs on without end it is the
order of Go's channels, first come first served, that keeps new jobs from
passing a blocked sender by for ever. A worker that put a job back could take
the slot each time; that is the mutant of `CallsReturn`.) Calls of YouTube are
assumed to return; `http.Get` has no timeout, so this is an assumption about the
network, and a connection that never answers does hold a worker for ever.
`WatchJob` returns once its job has ended, because its loop reads the row again
and again; nobody has to leave, no signal has to come and nothing is assumed
about crashes. For `JobWatch`: handlers run, the network delivers, React runs
effects and an `EventSource` reconnects; faults are finitely many; nothing is
assumed of the job, which may stop in any state. For `AnalyticsCache`: time goes
on and calls return; nobody has to read. For `JobsList`: the interval fires and
requests end.

Every property of a passing run has a mutant in `PROJECT.json`: a slip of the
code, kept in the modules beside the definition it replaces and marked
`slip:`, under which TLC finds the property violated.

**What the less obvious properties say.**

* `BoundedStaleness`: "Stale data is acceptable" (README.md:120), but how
  stale? An hour and the delay of one reader, and not twice that, although a
  reader may overwrite a newer list with an older one: what counts is when the
  list was read. `StaleDataGoes`: a list that is read all the time still goes.
* `AnswersTheRequest`: readers get answers made for each other. Which rows and
  which part of their list is compared by what the query does with the
  parameters, so a parameter forgotten in a key would show. What is excused are
  rows fetched within the very second of a filter: the key has no fractions.
* `PagesCover`: pages by `OFFSET`, each from Redis or the table, may leave videos
  out and repeat others. A video is missed only if it rose from one page to the
  next (in the tables these pages were made of) or has as many views as another
  at some time, and read twice only if it sank or ties. Nothing less would do: a
  cached first page followed by a fresh second one misses a video that rose
  before the client started, and the query gives ties no order.
* `CardFitsChart`: the list with the card may be an hour older than the points of
  the chart, or newer. The card is a point of the chart with only rows after it
  that were saved since the list was made, or shows a row saved since the points
  were read; without such rows it is the last point.
* `OneJobAnHour`, `AnswerIsAsked`: rows keep the fields and the time of the click
  that made them, and both properties compare these, not keys. A key with the
  minute in it would break the first, one without the category the second.
* `ShownIsSelected`, `SettledIsSelected` are as strong as the code allows: they
  hold unless the last answer was overtaken, which nothing in the code prevents
  (section 4).
* `ChartsAgree`: the two charts of channels are never of two regions, although
  they are asked for separately, may fail, and one is shown or hidden for the
  other's list.
* `StopEnds` makes one exception and needs it: a watcher of an abandoned job
  waits for an end that never comes, and `GracefulStop` waits for the watcher.
* `SinglePollsAdvance`: a poll that overlaps with another may put an old state
  back; one that does not never does, and `CatchesUp` says the list recovers.

## 4. Where the program and what is said of it part

Checked, as the run `etl_rerun`:

* **`RerunIsSafe`** (README.md:111). The row of a job outlives the process, the
  job does not: `main.go` makes an empty channel and resumes nothing. A restart
  leaves the row live for ever, and every re-run with its key is answered with
  it (`etl/server.go:142`) and ingests nothing.

Met while modelling, in the models but not the subject of a run; the properties
above are stated so that they hold with these:

| Where | What happens |
|---|---|
| `youtube/client.go:83` | the status of an answer is not read: a refusal with a JSON body is an empty list, and the job is done at its first attempt (worker/worker.go:49 says dead) |
| `worker/worker.go:85` | the error of `UpdateJobCompleted` is dropped, against line 50: the row stays running |
| `worker/worker.go:68` | after the last attempt the row is retrying, with a `next_retry_at`, until it is dead (README.md:108 says it is removed from the schedule) |
| `etl/server.go:126` | states that come and go between two polls are not sent (README.md:269: "on every state transition"), and each new stream repeats the present one |
| `job-detail.tsx:88` | nothing sets `liveConnected` again when a stream has reconnected: the page says "Connecting…" until the state changes |
| `job-detail.tsx:185` | a job whose third attempt failed is shown as attempt 4 of 3 |
| `job-detail.tsx:85` | the fetch at the end may fail, its error is swallowed, and the details stay those of the first load |
| `analytics/server.go:44` | time filters within one second share an entry (line 29: "keyed on all filter parameters") |
| `analytics/server.go:81` | a list may be out of date when the cache is filled with it (README.md:120: "from the freshest data") |
| `pb/analytics.pb.go`, `omitempty` | a count of zero is missing and the table prints `undefined`; without videos `regions` is missing and the dashboard's render throws; times are objects, which `new Date` does not understand |
| `videos-table.tsx:93`, `analytics-dashboard.tsx:97` | an overtaken answer is shown under the present selection |
| `analytics-dashboard.tsx:310` | the second chart goes on showing the region before when the channels of the new one cannot be loaded |
| `lib/jobs.ts:78` | the key leaves out `max_results`: a second submission of the hour gets the first one's job |
| `jobs-list.tsx:95` | a slow poll puts older states back under a newer time |
| `jobs-list.tsx:137` | "No jobs yet." although there are, when every request failed |

## 5. Proofs

Every invariant and every action property that the passing runs check, and the
refinement, is proved for every value of the constants; what is left to TLC is
liveness. Each component has a module of theorems
that states an inductive invariant `Inv`, proves it (`Invariance`) and draws
the properties from it. TLC has checked each `Inv` on the constants of the
component's run before it was proved.

| Module | Theorems, and the properties they state |
|---|---|
| `ETLProofs` | `TypeCorrectness`, `KeysAreUnique`, `NoJobTwice`, `HeldJobsAreLive`, `NothingElseIsLost`, `RetryScheduleHolds`, `DoneJobsAreComplete` (the invariants of `etl_safety`), `TerminalJobsAreFinal`, `AbandonedJobsAreFinal` (its action properties), `PipelineImplementsLifecycle` (the refinement) |
| `ETLProofs`, about `Shutdown` | `MainInvariance`, `ProcessImplementsLifecycle` (the refinement again, for the whole process), `StopsLoseTheAccepted` (`StopLosesTheAccepted`), `ExitLeavesNothingRunning` |
| `JobWatchProofs` | `TypeCorrect` (`TypeOK`), `StreamsMoveForward` (`SentInOrder`), `StreamsSendTheEnd` (`EndIsSent`), `TheEndShownIsReal` (`EndIsReal`), `LiveMeansConnected` (`LiveIsConnected`), `ThePageMovesForward` (`PageNeverGoesBack`) |
| `AnalyticsCacheProofs` | `StalenessIsBounded` (`BoundedStaleness`), `EachIsAnsweredItsOwn` (`AnswersTheRequest`) |
| `VideoPagesProofs` | `ThePagesCover` (`PagesCover`) |
| `VideosTableProofs` | `TheSelectedAreShown` (`ShownIsSelected`), `ThePagesShowTheMatches` (`PagesShowMatches`), `EachMatchIsShown` |
| `AnalyticsDashboardProofs` | `ChartsAreOfOneRegion` (`ChartsAgree`), `TheRegionIsOffered` (`RegionIsOffered`), `TheChoiceIsKept` (`ChoiceIsKept`), `TheSettledAreSelected` (`SettledIsSelected`) |
| `VideoTrendProofs` | `TheCardFitsTheChart` (`CardFitsChart`) |
| `JobFormProofs` | `AnHourGetsOneJob` (`OneJobAnHour`), `TheAnswerIsAsked` (`AnswerIsAsked`), `TheRecentAreKept` (`KeepsTheRecent`), `NoJobIsShared` |
| `JobFormProofs`, about `JobsList` | `NoPollGoesBack` (`SinglePollsAdvance` of the instance `List` of `JobsList`) |

### The arguments

**`ETLPipeline`.** None of the properties is inductive alone: that two workers
never run one job depends on the channel holding no job twice, that on a handler
sending only a job it has just inserted, that on the row being new. `Inv`
states, besides the properties, where each goroutine stands relative to its
row: a handler about to send and every slot of the channel have a queued row
(`HandlerOK`, `QueueOK`); a worker past its start has a row that is running or
retrying, whose attempt is one behind the worker's until the retry is recorded
and equal while it sleeps (`WorkerFits`); before the inserts nothing is stored,
and during them the worker's count is the number of videos stored and what is
left of the list makes up the rest; an abandoned row is held by nobody
(`AbandonedOK`). Steps that write a row are shown to disturb only their own
row, since its job is in no other place (`HeldOnce`). The action properties and
the refinement then follow from `Inv` in the state before a step: only the
worker of a job writes its row (`OnlyTheWorkerWrites`), and where it stands
says which step of the lifecycle the write is (`WorkerMaps`).

**`Shutdown`.** A step of `main` is a step of the pipeline, or leaves it alone,
or is `Exit` (`MainStep`), so `Inv` only has to survive `Exit`. With it
`EndedIsQuiet`: between an exit and the next start nothing runs. What a stop
abandons is live and was not abandoned, so `NothingElseLost` says somebody held
it, and no handler did, because `GracefulStop` waited for them.

**`JobWatch`.** Everything that carries a status (an update sent, what the page
shows, an answer on its way) was read from the row at some time: it ranks no
higher than the row does now, and if it is an end it is the row (`Read`).
The page shows nothing newer than what its stream still holds for it
(`NoneOlder`), it has one `EventSource` at a time, and it asks for the whole job
only before it has one or once it shows the end (`ShownOK`). Without the last
of these a late answer could take the page back.

**`AnalyticsCache`.** What bounds staleness is a sum. A list in a reader's hand
is no older than the reader has waited; when it enters the cache it has the
whole `TTL` ahead; each tick that may add one to `age` takes one from `left`.
So `age + left <= TTL + MaxDelay` for every entry, although a slow reader may
overwrite a newer list with an older one. That answers fit is the arithmetic of
the keys (`KeyTells`): requests of one key are of one call and one part, and a
time that is in no filter's second is on one side of both or of neither
(`SameSide`); a filter is given in both requests or in none (`BothGiven`).

**`VideoPages`.** A page is a stretch of a list that is nowhere in the state:
each query makes it anew, of a content of its own. What does not depend on the
query is a video's `Rank`, how many videos have more views, and every list the
query may make has a video that shares its views with no other at the place of
its rank (`PlaceIsRank`). So a page has that video exactly if the rank lies
between the offset and the end of the page (`PageByRank`). A video whose rank
never falls from page to page has been read or is still ahead of the client
(`AheadOrSeen`), and one whose rank never grows is behind it once it has been
read (`SeenIsBehind`).

**`VideosTable`, `AnalyticsDashboard`.** The fetch sent last is the one for what
is selected. Until it ends it is the last of the queue; once it has ended all
that are left are overtaken, and only fetches before an overtaken one are
overtaken (`QueueOK`, `LateComeFirst`). The dashboard has two such queues, and
a region that may be corrected when the tracked regions arrive; that it is then
offered needs that `array_agg(DISTINCT region)` lists each region there is.

What they show of a list. The page of the table is the first or has a match on
it (`PageTurned`), because whatever changes the matches goes to page one. The
pages put together are the sorted matches for any list (`PagesJoin`), and the
matches are what the filter keeps, which `Arrays` says without recursion: the
places kept, in their order. The card of the dashboard names the first video of
its list (`FirstIsMostViewed`): the query orders by views, JSON leaves out only
the counts of zero, which come last or are all there is, and the `reduce` takes
another video only for more views (`MostViewsFirst` holds of every list shown).
Without the order of the query it would be wrong, since a video without a count
is never replaced.

**`VideoTrend`.** A fact about two queries on two contents of one table: the row
that `DISTINCT ON ... ORDER BY fetched_at DESC` keeps of a video is the newest of
its snapshots in the list's content (`FoundIsNewest`), whatever the ties in the
order of the list, and the points are the snapshots in the chart's content by
time. If that row is in the chart's content, it is a point, and a later point is
of a row that the list's content cannot have had; if it is not, it was saved
since.

**`JobForm`.** Clicks have one key exactly if they are for one region and category
in one hour (`KeyTells`): an hour has six digits, so the digits before it are the
category's (`Written`), and `Hour` forgets the rest of the time. A key has one row
and a row the key of the click that made it, so clicks of one hour make one job
and, in the other direction, no two hours, regions or categories share one
(`NoJobIsShared`).
`TheRecentAreKept` is an invariant of its own, about `storeJobId`: to put a job
first, take its older mention out and cut the list keeps it the list of the
most recent (`StoreKeepsRecent`). The model takes out one mention where the code
filters; that is the same because the list has no job twice (`Distinct`).

**`JobsList`.** A row is never ahead of its job, two rows of one job agree, and a
poll that has been alone from its start is the only one in flight, with replies
that are not behind the rows: those it got since it started, and no other poll
has replaced the rows since (`ListInv`).

### Assumptions

Theorems hold under the named `ASSUME` of the modules, which TLC evaluates in
every run. Bounds are numbers, positive where nothing could happen otherwise,
and markers (`NoKey`, `NoJob`, `NoData`, `Undefined`) are not values. Beyond
that:

* `PipelineAssumption`: the videos of an answer are finitely many, requests and
  lists are sequences, the channel has a slot. `FormAssumption`: the form has
  something to choose from. `TableAssumption`, `DashboardAssumption`: "US", the
  region both components start with, is one of the regions offered; the table of
  videos is finite, and (the dashboard) counts of views are integers.
* `PagesAssumption`, `TrendAssumption`: rows that may be saved are finitely
  many, with numbers as times and views; two rows of one video have different
  times. That is the primary key of `videos` as far as one job goes; two jobs
  would have to fetch a video at the same microsecond. Views may be equal and may
  fall.
* `FormAssumption` also: hours are numbers of six digits, as they are from 1981 to
  2084, and categories are numbers. That the first half of a SHA-256 tells the
  keys in use apart is built into `Key`.
* `CacheAssumption`: there is something to ask for, and an entry lives for a tick
  at least. Requests are any of the two calls, with any parameters, whose time
  filters are later than the first second of the year 1 (the zero `time.Time`
  counts as no filter). TLC takes three requests, the theorem all.

### Only model-checked

* Liveness: `JobsSettle`, `CallsReturn`, `StopEnds`, `PageLearnsTheEnd`,
  `HandlersReturn`, `EndBringsDetails`, `StaleDataGoes`, `CatchesUp`. They need
  `ENABLED` of fair actions, which the prover does not handle.
* `RerunIsSafe`, which is false.

`FoldLeft` (the `reduce`) and `FlattenSeq` (the pages) unfold to recursive
functions; what is proved of them follows from the equation of the function and a
smallest counterexample, so no induction is assumed.

## 6. Not modelled, and what is left

Left out, and why:

* Conversions of query parameters in `api/server.go` (`Atoi`, `int32`): one
  expression each; no document says what a number too large should do, and the
  frontend sends constants. A negative `max_results` that panics in
  `youtube/client.go:61` is a `Restart` in the middle of an attempt.
* `max_results`, titles, descriptions, dates and the other columns nothing above
  depends on; wording, colours, axes and number formats; the cards on
  `videos-summary-card.tsx` and the number of videos (`GetVideoCount`), each a
  single fetch; status badges.
* The cron workflow: one call per hour, whose batches and re-runs are the
  requests of `ETLPipeline`.
* Generated code in `backend/pb` but for its JSON tags, the message definitions
  as such, CORS and routing, vendored UI components, deployment files.
* That spinners stop is part of `ShownIsSelected` and `SettledIsSelected` once all
  fetches have ended; that fetches do end is an assumption about browsers. When
  the refresh button of the jobs list comes back (`refreshing`) no property says.

Left to prove: that `JobWatch`'s row is the row of `ETLPipeline`, as one theorem
over both rather than by way of `JobLifecycle`.

# Formal models of the Holder daemon

TLA+ modules that model the concurrent core of `holderd`, the configurations
that check them with TLC, and proofs that TLAPS checks. Paths are relative to
the repository; `src/src/` is left out before file names (`api/Listener.cpp` is
`src/src/api/Listener.cpp`). `PROJECT.json` maps every definition to its lines.

## 1. The system

`holderd` serves one user's projects over HTTP on the local machine. A project
is a Git repository of cards and AI messages; SQLite holds a projection of all
projects that can be rebuilt from the repositories and a few files of the device.

| Component | State | Operations | Works with |
|---|---|---|---|
| Serial executor (`core/SerialExecutor`) | bounded task queue, stop flag, one thread | `submit`, `call`, `stop` | card saves, Git and runner calls run on executors |
| Listener and session (`api/Listener`, `Session`, `HttpServer`) | accept queue, three lanes, response queue, registered sockets, worker threads | accept, ingress read, lane execution, response write, `stop` | I/O threads, event streams, main thread, health monitor |
| SSE streams (`api/support/SseStream`) | strand, queue of frames, pending bytes, timers, registry | `reserve`, `activate`, `release`, `send`, `finish`, `cancel`, poll chain, `SseRegistry::stop` | AI runs send, subscriptions are polled |
| Event journal (`api/support/EventJournal`) | epoch, sequence, bounded deque | `append`, `read`, cursors | change feed, run events |
| Change feed and event service (`ChangeFeed`, `EventService`) | last snapshot, data version, Git heads, journal | observe, publish, subscribe, replay, ready | SQLite, Git, SSE streams |
| Project registry (`platform/ProjectRegistry`) | active root per project, removed roots | `remember`, `forget`, `restore`, `discover_roots` | project requests, start-up, rebuild |
| Project requests (`api/routes/ProjectRoutes`) | rows, manifests, remotes | POST, PATCH, DELETE, import, push, pull | Git locks, registry, sync worker |
| Sync worker (`sync/ProjectSyncWorker`) | snapshot of the project list | start-up pull, push cycle | Git locks |
| Daemon life cycle (`app/DaemonApp`, `Bootstrap`, `platform/DatabaseRecovery`, `LockFile`, `Signal`) | lock file, database health | start-up, recovery, rebuild, health monitor, shutdown | all of the above |
| AI runs (`api/routes/ai/runs`, `RunEventStore`, `ThreadCompaction`, `CloudQuota`, `LocalModelRouting`) | run records, journals of at most 128 runs, quota ledger | start, stream, complete, replay, evict | SSE streams, runners, clouds |
| Local model runner (`llm/*`, `AiRunnerRoutes`, `ai/runner/*`) | server process, pull jobs and threads, one registry of manual runners per worker | start, stop, probe, pull, refresh | child process, its HTTP interface, SSE streams |
| Nudges and AI threads (`ai/*`) | rows, durable tombstones of dismissals | evaluate, list, dismiss, back-fill, restore | Git locks, SQLite, rebuild |
| Cards, history, milestones, trash (`api/routes/*`) | rows, files, links | create, update, move, link, trash, restore | the card store of holder-core |
| Resources and import jobs (`AiResourceRoutes`) | jobs and threads that outlive a request | start, poll, join at shutdown | listener's Git adapter, object storage |
| Cloud and storage clients (`storage/*`, `CloudClient`) | tokens | HTTP requests | remote services |
| API documentation (`StaticRoutes`, `PathDiscovery`, `assets/swagger-ui`) | files of an installation | `/docs`, `/openapi.yaml`, the page that loads through them | browser |
| Command-line client (`cli/*`) | none | one request each | HTTP interface |

What is hard here: hand-over of sockets between threads and their orderly end
(listener, streams); wake-ups on condition variables whose flag changes outside
the mutex; an observer that reads database and Git at different moments; cursors
into a journal that evicts and restarts; requests that write a row, a
repository and a registry in several steps under two kinds of locks, and a crash
between any two of them; removal and dismissal that have to survive a rebuild from files
that are still there; runs whose stream, row and message must tell one story when a
model or the database fails half-way; runners that are replaced while threads and streams use them. `PROJECT.json` lists these as hazards at their lines.

The stores of cards and projects, the Git operations with their lock, the SQLite
wrapper and the rebuild itself are in another repository (holder-core, a
submodule). They are modelled as far as this code relies on them, and marked
external.

## 2. Modules

```
EventJournal ──┬── JournalReplay ── MCJournalReplay
               ├── ChangeFeed ───── MCChangeFeed
               └── AiRuns ───────── MCAiRuns
ExecutorSpec ◄── SerialExecutor ─── MCSerialExecutor
Listener ── MCListener      SseStream ── MCSseStream     Projects ── MCProjects
Nudges ── MCNudges          ModelRunner ── MCModelRunner DocsPage ── MCDocsPage

proofs: EventJournalProofs ──┬── HistoryProofs (JournalReplay and AiRuns)
                             └── ChangeFeedProofs
        GitProofs (SerialExecutor and Projects)     SseStreamProofs, ModelRunnerProofs
        HttpProofs (Listener and DocsPage)          NudgesProofs
```

**EventJournal, JournalReplay.** `EventJournal` has the journal as operators
(`AppendTo` with the eviction loop, `Read`, cursors), used by the three modules beside
it. `JournalReplay` is one journal, any number of readers that poll with their
cursor, and restarts that begin a new epoch. `log` is the history, which the code
does not keep; `reader[r].got` what a reader has received.

**ChangeFeed.** The observer thread, its steps those of `ChangeFeed::poll`: read the data
version, list the projects, read each head, take the snapshot, publish per
entity, keep the baseline. Commits and head movements happen between any two of them.
A row's state is the number of its writes; `Look` says what a state looks like,
and with `Look <- Fresh` different states look different. Subscriptions follow
`EventService::dispatch` and the source closure; clients follow
`docs/event-streams.md` (cursor, fetch, subscribe, resync). `held` is what a client has.
If a cell returned to an earlier look between two observations (a row edited and edited back, or
created and deleted) and the client had fetched it in between, no event would tell it, because `poll`
compares digests. `NoStateReturns` says that this does not happen; `MCChangeFeed` has TLC evaluate it for `Fresh`,
and it is the one hypothesis of the theorem about missed changes.

**ExecutorSpec, SerialExecutor.** The abstract specification is a list of accepted
and a list of executed tasks. The detailed one has the points between unlock and
notify, waiting and woken threads, spurious wake-ups, `call()` with its future,
concurrent `stop()`s. The refinement mapping is `<<accepted, ran, ~stop>>`.

**Listener.** Connections with one request each, the threads of the pipeline, the
mutexes implied by the granularity of the steps; a wait is two steps (look at the
predicate, sleep) because `stop_requested_` is set outside the mutexes. The
future an ingress or writer thread blocks on is `op[c]`. `run()` and the health
monitor call `stop()`. A request in `Importing` may leave an import thread behind
(`imports`), and the source of an open stream is read by a poll worker now and then (`polls`); `run()` joins
the workers (`JoinWorkers`), then the import threads it finds and the poll workers (`Return`).

**SseStream.** One stream with its strand (a queue of handlers), timers, writes,
poll chain and route thread. Whether the registry is full is a free choice.

**Projects.** Rows, manifests, remotes and the registry, the requests of
`ProjectRoutes` one call per step, the sync worker, crash, loss of the database
and start-up. Locks are derived from where the handlers are: `held` is the Git
lock of a root, a handler in `"forget"` or `"commit"` holds SQLite's writer. Three
variables are history only: `gone` (removed, with no recreation under way),
`kept` (made, moved or spared, with nothing else under way) and `torn` (cut by a crash or an
error before row, manifest and registry agreed; an undisturbed recreation mends it). `Vacant` is what the model
assumes of roots: a request brings one that holds no other project's manifest or row and that no request under
way is giving to another project. For an import `unique_project_root` sees to it, but before the
lock: two creations under way at one root are left out. The specification is called `ProjectSpec`, so that
`GitProofs` can extend it beside `SerialExecutor`.

**AiRuns.** A run of either kind, `Cloud` or local, from its request to its last
event: the row, the events and the assistant message, models that fail before or
after some output, calls that throw, and the guard `RunStreamCompletion`, which
runs when they do (`Unwind`). `store` is `g_run_events` with at most `MaxRetained`
journals; the oldest by a time stamp in seconds goes, and `clock` moves so that several may share one. Subscribers
ask, look at the row, restore an ending that is no longer retained, and poll; their
connections break and the process restarts. `full` is the history of a run, and
`client[c].got` the places in it of what a client received (0: a restored ending).

**Nudges.** Evaluations, lists and dismissals on several workers, one store call per
step, beside card saves; a dismissed row and its durable tombstone are two
steps. Crash, loss of the database, the rebuild command with its refusal,
and the backfill of start-up. A nudge is its subject and basis (`build_nudge_id`): a fingerprint of the
card's text, a commit, both or neither, as the client sends them (`Nudge` is a constant set of such records).
`Conflict` is the comparison of the SQL that dismisses older variants: a basis that only one side has is not compared.
An evaluation or a list finds the current text and head of some nudges and not of others (`seen`: the row, the
file, the key or HEAD may be unreadable): those that cannot be told count as not stale. What it found is dismissed in a step of
its own (`Drop`). A tombstone is itself a commit: it moves the head.
History: `told` (dismissals a client was told of) and `unsaved` (rows whose tombstone failed).

**ModelRunner.** Pull jobs with their threads, the streams that follow them, the
registry of each worker and the runners it makes. A runner is an object
with an owner count (`Held`); its destructor waits for its pull threads (`Destroy`,
`CloseStream`). The runner's answer is lines with or without a verdict, an end or an error.

**DocsPage.** Two places an installation can be in, each with some of the three
scripts and with or without the API description; the page is loaded file by file and every file is searched anew.
Its specification is called `PageSpec`, so that `HttpProofs` can extend it beside `Listener`.

Every module ends with its properties, each under a comment. A definition that stands
directly before another, has its parameters and is used nowhere is a plausible mistake in it
(`StopLanesKeepsQueue` before `StopLanes`); for each property a run checks, one of them makes
the property fail. `PROJECT.json` lists the pairs.
A few properties are in no run because others imply them on these instances or
because they are steps of a proof: the `TypeOK`s, `Bounded` (proved),
`SseStream!PendingAccounted`, `SseStream!OneWriter` (proved), `Nudges!TombstoneRules` (proved), `Projects!ReportsActualChange`.

## 3. Runs

| Run | Instance | Shows |
|---|---|---|
| `journal` | 1 reader, 3 places, 4 bytes, events of three sizes (one too large), 5 writes, 2 epochs | retained events are the end of the history and as long as the limits allow; a poll returns exactly what followed the cursor or asks for a resync; a cursor of an earlier epoch is never replayed |
| `feed` | a card and a project row, a head, one project-filtered client, journal of 2, 1 commit, 1 head move, 1 fault | no client that is caught up lacks a change or a failure notice; skipping the snapshot is sound; once writes and faults end every client holds the current state |
| `executor` | 3 producers (one uses `call`), queue of 2, 2 stoppers | no lost wake-up, drained at exit, the first `stop()` joins, refinement of `ExecutorSpec`, submitters and `stop()` return |
| `listener_lanes` | 2 connections, one of which never takes its response, queues of 1, 2 writers, general worker stuck | card writes are answered |
| `listener_stop` | 1 connection, signals, failures, monitor, slow reader, event stream, import | one owner per socket; no lost wake-up; `run()` returns and leaves no operation, import, poll or stream running |
| `sse` | run and subscription, 2 frames, pending limit of 2, 2 polls, 1 keep-alive | order without gaps, complete unless broken, one poll chain, nothing left at the end |
| `projects` | 1 identity, a managed and an outside root, 2 workers, 4 requests, 2 failing calls, 2 crashes | what was removed stays removed; what was completed undisturbed can be rebuilt |
| `projects_live` | 2 remotes, 2 requests, sync worker, 1 failing call | Git's remote follows the row; no request waits for ever |
| `ai_runs` | 1 run with 2 models, 1 other run, 1 subscriber, 1 retained journal of 3 events, 2 failing calls, 1 restart | the ending announced is the one stored; no event is skipped in silence; the stored answer is what was streamed; subscribers are let go |
| `nudges` | 2 workers, a card with two texts, a project, 6 nudges (a text and a commit, a commit alone, a text without its card), 4 requests, 1 save, 2 faults | what a user dismissed is not shown again, every dismissal gets its tombstone, a list names no two conflicting variants, no step takes a dismissal back |
| `runner` | 2 workers, 1 model, 1 stream, 2 jobs, 3 runners, 1 edit | one pull per model, runners outlive threads and streams that use them, verdicts stand and a stream opened on the job's runner tells them, streams and refreshes end |
| `docs` | 2 places, 1 change | the page is never assembled from two installations, shows the API when the first root is complete |

*Why the bounds are enough.* Queues and journals are given one, two or three places, so that full, exactly
full and one below are all reached; frames of different sizes make the byte limit
and the count limit bind separately. Two connections are the fewest that compete
for a lane; one suffices for shutdown, whose races are between `stop()` and
the threads. Four requests allow remove, import, and two that overlap them; two
crashes allow one during start-up, two failing calls a PATCH and then a DELETE of the same project. The run
has one project identity; what two could do to each other (a removed path excludes whatever lies there, a
manifest is overwritten) is covered by the proofs, which take any number.
One AI run, another that pushes it out and one subscriber suffice because journals are per
run and subscribers do not meet; two failing calls allow the one that raises and the guard's own.
Two workers are the fewest that overlap evaluations, or that have different registries; three
runner objects allow the shared one, one per worker, or a replaced one.
Handlers are symmetric in `projects`, workers and texts in `nudges`; neither checks
liveness. Deadlock checking is off where a bounded environment may stop (all runs but those on projects and `docs`).

*Fairness.* Threads that can take a step take it (weak fairness on worker, observer, strand,
I/O and timer steps). Never assumed: that clients send, stay, or, if they are among `SlowReaders`, read; that slow
routes return (`SaveSpec` has card writes only); that faults occur or not. The code sets no time limit on an
ingress read nor on the write of a response (`api/Session.cpp:163`): an idle connection holds an ingress worker,
so `SaveAnswered` begins when the card write is in its lane; a client that does not read holds a writer, and as many of
them as there are writers hold up every other response until `stop()` (`WritersHeld`). The run has one such client
and two writers; that client may also leave, while the other stays (a client that left has no claim). `StopSpec` has clients that do not read, and assumes that the handler
under way returns, that imports end and that the sources of streams give their batch, since `run()` joins them all. In `Projects`, lock acquisition is strongly
fair: the other user of the locks that never stops, the sync worker, sleeps at
least a second between its cycles. In `ChangeFeed` the client's steps that need the event
service's mutex are strongly fair, since the observer holds it for one poll and then sleeps. `AiRuns`
assumes that request threads and polls go on and that model calls return, `ModelRunner` that a
runner answers a pull in the end, with a verdict or without one. The code enforces neither (blocking reads, for which
`expires_after` sets no limit): a model or a runner that stays silent for ever keeps its request's or pull's
thread, and with it the subscribers and whoever destroys the runner. `DocsPage` assumes that the browser
goes on with a load.

## 4. Findings

Seven configurations beside the runs check one sentence each that the repository states
and that the code does not keep; TLC reports a counterexample for each.

| Configuration (module) | Property | Stated | What happens |
|---|---|---|---|
| `ExecutorCall.cfg` (`MCSerialExecutor`) | `CallReturns` | `tests/SerialExecutor_test.cpp:59`: "SerialExecutor stop wakes blocked submit and rejects new work" | `call()` keeps the packaged task alive while it waits: a submission refused after `stop()` never completes the future (`core/SerialExecutor.h:31`) |
| `ListenerStranded.cfg` (`MCListener`) | `RunReturns` | `tests/HttpListener_test.cpp:429`: "Listener stop cancels in-flight ingress read and returns promptly" | an ingress worker that has passed its look at the stop flag posts its read after the cancellation (`api/Listener.cpp:501`); `run()` then waits for the client |
| `SseRelease.cfg` (`MCSseStream`) | `ReleaseUnshared` | `api/support/SseStream.cpp:96`: "Only valid before activate: no asynchronous operation owns the socket yet." | a stream that is reserved and given up moves its socket on the request thread while the registry's `stop` may have posted `close()` |
| `RunnerFetch.cfg` (`MCModelRunner`) | `PullCanBeFetched` | `docs/event-streams.md:85`: the pull job is available through its JSON endpoint | each worker has its own runner for a manual entry (`llm/RunnerRegistry.cpp:153`): the request is answered 404 when another worker serves it |
| `RunnerTells.cfg` (`MCModelRunner`) | `StreamTellsJob` | `docs/event-streams.md:83`: a pull's stream "finishes on `completed` or `failed`" | a stream that another worker serves finds no such job on its own runner and ends with `failed`, "Pull job not found." (`api/routes/ai/runner/AiRunnerPullEventRoutes.cpp:104`), while the job downloads or completes |
| `RunnerSettles.cfg` (`MCModelRunner`) | `PullSettles` | `docs/event-streams.md:83`: a pull's stream "finishes on `completed` or `failed`" | an answer that ends without either leaves the job `downloading` (`llm/LocalModelRunner.cpp:735`); a later pull of the model is told that it runs already |
| `AiRunsTruncated.cfg` (`MCAiRuns`) | `TruncationIsTold` | `docs/event-streams.md:78`: "truncated initial history emits `resync_required`" | a run's evicted journal is begun anew by its next event (`api/support/RunEventStore.cpp:37`); a new subscriber is given the rest as if it were all |

The models show more that no document states as a promise:

* In `Projects`, the exemptions of the properties are situations in which they do fail. A
  DELETE that commits between the store's work and `registry.restore` of a POST or an
  import leaves the removed project active in the registry, and a rebuild brings it back. A crash
  between `registry.forget` and the commit leaves a row that no refresh puts back into the registry; a
  rebuild loses it. A PATCH that stores the new root and is then refused (a bad `privacy_mode`, line 1158) leaves the manifest at
  the old root; when a DELETE fails after that, the registry is restored to the new one, and a rebuild finds neither. A PATCH with `root_path` takes the lock of the new root: overlapping requests work
  under different locks, can both report `git_remote_changed`, and the
  older list of one of them can put the old root back into the registry.
* The sync worker re-adds a remote that a PATCH removed after the worker listed it; it
  stays, because projects without a remote are skipped.
* A project inserted between the observer's look at the data version and its list of
  projects is announced with `deleted` set (`api/support/ChangeFeed.cpp:178`); the next observation corrects it.
* Requests pushed into a lane after `shutdown_queued_work` stay open until destruction, and
  `run()` can overtake the health monitor inside `stop()`; the monitor is joined before anything is destroyed.
* AI runs: a run stays `started` for ever when the process ends or the guard's own update fails; its
  subscribers, and those without a cursor of a run whose history is gone, wait until they leave.
  Output of a local model that failed stays in front of the next model's in the
  stored answer. Two subscriptions after a restart can both restore the ending. A cloud's quota is read before the
  call and recorded after it, so requests that overlap pass the same limit.
* Nudges: a tombstone is a commit, which makes nudges based on the head stale. A text that is reverted never
  shows its dismissed nudge again. Overlapping evaluations leave two variants active until a list; the list shows both
when the text, the key or the head that decides is unreadable at that moment, or when neither has a basis the
other has. A nudge with a fingerprint whose card does not exist never becomes stale. When the
  tombstone cannot be written the client gets an error but the row stays dismissed, and a retry is answered 404.
* Runners: an edit or retry refreshes the registry of the worker that serves it only, and blocks that worker until
  pulls of the dropped runners end. Left out of the model, but visible in the code: a queued probe task
  holds a plain pointer to a client that a refresh may have destroyed (`llm/ExecutorRunnerClient.cpp:26`), and the older of
  two probes can overwrite the newer (`llm/LocalModelRunner.cpp:539`).
* Documentation: an incomplete installation in front hides complete ones behind it; the page stays blank.

## 5. Proofs

All theorems hold for every value of the constants that satisfies the modules' `ASSUME`s:
the values that stand for "none" are no others, limits are natural numbers (the executor's queue has at least one place), sizes are natural numbers, sets are disjoint where
the code distinguishes them, and the workers are finitely many and no more than the runner objects the model has names for, since each
makes one at start-up. Threads, readers, clients, cells, requests, jobs and steps are not bounded by the proofs' assumptions
(`MaxLog`, `PerProducer`, `MaxFaults` and the like bound the models and may be any number).

* `EventJournalProofs`: what eviction, append and read return. `EvictCount` never
  exceeds the length, an append keeps a suffix with the new event last, a read returns the
  events behind the cursor, and the eviction stops at the first rest that fits (`EvictsLeast`): the bytes of a
  rest never grow as its front is dropped, so the rests that exceed a limit are the longest ones, and counting them is
  finding the first that fits.
* `HistoryProofs`, about one journal: `ReplayTypeOK`, `WindowIsSuffix`, `WindowIsMaximal`, `ReplayExact`, `NoForeignReplay`. The invariant adds that
  cursors never have a later epoch and, per reader of the current epoch, that what it got is
  the segment of the history between its start and its cursor; without
  `WindowIsSuffix` a poll could not be related to the history. `WindowIsMaximal` follows from `EvictsLeast` when a write
  evicts, and carries over when it does not.
* `HistoryProofs`, about the runs: `TypeOK`, `EndAgreesWithRow`, `NoSilentGap`, `StoredIsStreamed`. The invariant `RunsInv` has a part for each
  actor. `ThreadAt` says, per program counter of a request thread, what its row, its events and its answer are: the
  row ends before the ending is announced, and the text collected so far has the places of the chunks streamed so far (`Collected`).
  `History` says of a retained journal that each event is the run's next after the one before it, that
  the last one is the run's newest, or the ending a subscription made up from the row (numbered 0), and that an ending in it is the row's. `ClientAt`
  says of a subscriber that what it has goes on without a gap; `Link`, the part that made the invariant inductive, that the last it has is followed by
  what its id makes it receive next, while its id is of the history's epoch. Ids of other epochs are answered by
  resync, and epochs are never used again (`cl.id.epoch \in 1..epochs`). Whatever lengthens a history keeps `History` (`HistoryGrows`) and every
  client's `Link` (`LinkGrows`); a read behind a linked id goes on where the client stopped (`ReadsOn`), however many frames of a
  batch are delivered before the connection breaks; a new or restored history has an epoch nobody's id has (`StoreGrows`).
* `GitProofs`, about the executor: `TypeOK`, `Bounded`, `NoLostWakeup`, `DrainedAtExit`, `FirstStopJoins`, and
  that every step is a step of `ExecutorSpec`. The invariant adds `Fifo` (accepted
  = ran, the task in hand, the queue), `Fresh` (a producer's next task was not accepted before) and what the program
  counters imply; `FirstStopJoins` has its own induction on a stop that is under way.
* `GitProofs`, about the projects: `ProjectTypeOK`, `GoneStaysGone`, `KeptSurvives`. The first of these needs only `GoneOK`: nobody is
  about to restore a project that is gone, and its removal is remembered, which makes both a refresh and a discovery pass it
  by. `KeptSurvives` needs to know that files and requests agree. Rows have roots of their own, and a manifest there is of no
  other project (`RootsOK`); a root that a request wants is nobody else's (`WantsOK`); so no request writes a manifest
  over another one (`ManifestStays`). Whatever row the registry has forgotten, or whose manifest is elsewhere, has a request
  under way or is in `torn` (`TornOK`). What a request has read and written is so as long as nobody overlaps it (`AloneOK`), which is when a
  project gets into `kept`; what the requests of a kept project have read of it is so whoever overlaps them (`KeptJobsOK`), which is why it stays
  there (`KeptOK`: the registry and the row each name a root that has its manifest).
  The search for this invariant found two situations that the run did not reach with one identity and one failing
  call: two projects created at one root at the same time, and a project that a failed PATCH had moved in its row alone before a
  failed DELETE made the registry follow. The model leaves out the first; the second is in `torn`, and the run now has two failing calls.
* `ChangeFeedProofs`: `TypeOK`, `SkippedSnapshotIsCurrent`, `ObserverFailureReported`, and `NoMissedChange` under `NoStateReturns`.
  The invariant is `Core /\ Promise`. `Core` has the types; that a baseline (or an observation about to become one)
  claiming the current version holds the current rows (`Versions`: the version is read before the rows); that
  nothing is observed before it is written (`Stages`); and `ClientOK`, which relates a
  journal, a cursor and a stream: nobody is ahead of the journal, a stream with a cursor of another epoch ends with its
  first frame, and a mark between *any* position the client may be left at and the stream's own is a frame further on in the
  queue. `ObserverFailureReported` is the last for the first position only, which one delivered frame would break.
  `Promise` extends `NoMissedChange` by the observation under way: once a key
  is published, its cells count as seen (`Due`), otherwise the moment `poll` adopts the baseline
  could not be proved. Each action then has one lemma: an append leaves
  told what was told and tells of its event (`ToldAppend`), a poll of the source turns what is pending in
  the journal into frames (`PollTold`), a delivered frame either tells the client or moves it to where it will be told
  (`DeliverFacts`). The frames of a batch are the n-th events a filter keeps (`NthFacts`); that
  there is an n-th one needs induction over numbers, which is done by taking the least
  counterexample (`LeastOf`, from the library's `WFMin`).
* `SseStreamProofs`: `OnePollChain`, `OneWriter`, `DeliveredInOrder`, `CompleteUnlessBroken`. The invariant `Good` is kept by every
  handler of the strand and every step outside it, and has four parts. `PollOK` counts what stands for the chain
  of polls, wherever it is (a timer, a task, a source being read, a batch, a posted handler): at most
  one, and none before the header is written. `WriteOK` does so for writes, and says that the write under way is the header and then
  always the front of the queue; without it a completed write could not be related to what it pops. `OrderOK`
  says that the events offered are those delivered, then the queue, then the pushes posted to the strand, in one run without a gap
  (the pushes of a closed stream excepted). `EndOK` says that nothing is sent after the end, and that an unbroken stream
  that closes has delivered everything. `pending_bytes_` may be any integer in the proof.
* `ModelRunnerProofs`: `OnePullPerModel`, `RunnerOutlivesUsers`, `VerdictStands`. The invariant adds that a job
  agrees with its thread (`JobsAgree`), that a thread that has not seen its verdict is the only one of its runner and model
  (`OnePull`), that a runner some registry, stream or thread refers to is alive (`Reachable`), and that a stream's ending is
  its job's, or `failed` on a runner that does not have the job (`EndingTold`).
* `NudgesProofs`: `TombstoneRules`, `NotShownAgain`, `OneVariantListed`, `NoDismissalLeftBehind`,
  `RebuildKeepsDismissals`. The invariant says, per program counter of a request, that what it writes a tombstone for is dismissed (`Saved`), that
  nothing announced before it began is on its way to the answer (`Hidden`), that every nudge it carries is of a commit that has
  been the head (`Known`), and how what a list has let through compares with what is to come (`OnePer`). The set of nudges
  clients ask for is any set of records with either basis, both or none.
  `NoDismissalLeftBehind` has an induction of its own on top.
* `HttpProofs`, about the listener: `OneOwner`, `NothingLeftRunning`, `NoLostWakeup`, for any connections, queue limits and workers of
  each kind, assuming only that a worker has one kind and that `"none"` names no connection. The code
  hands sockets on by moving them; the invariant is what makes that an ownership.
  A connection is with at most one kind of owner (`OneKind`) and every open socket is with one (`SocketsOK`: whoever has it, other
  than a worker, has it open; a worker may find it closed by a cancelled operation). A queue has no connection twice and a
  lane only those admitted to it (`QueuesOK`). A worker's place in its loop tells whether it has a connection, and no
  two workers have the same one (`WorkersOK`). A connection then moves in three ways only, with a lemma each: from one owner to
  the next (`ShiftKeeps`), not at all while a socket is closed under its worker (`StillKeeps`), or out of all the queues that
  `stop` empties (`SweepKeeps`). For `NothingLeftRunning` an operation has the worker that waits for it
  (`OpsOK`), so that none is left once the workers are joined, and `StopOK` says what the threads of `run` and `stop` have behind them, the
  imports and polls that `run()` has joined included. `NoLostWakeup` is an induction of its own (`WakeInv`). A worker that has seen its predicate
  false has the mutex, so its queue is still empty and a `stop()` under way has that queue before it (`CheckedAhead`): this is what
  the pass through the queues is for. A queue whose producers wake one worker at a time has, while anyone sleeps, as many workers awake or
  notifications under way as it has connections (`AtLeast`, which also makes sense of infinitely many workers).
* `HttpProofs`, about the page: `PageFromOneRoot`, since the search depends on the directories alone, not on the file asked for.

Only model-checked: all liveness properties (the prover does not handle fairness),
and that `pending_bytes_` of a stream is the sum over its queue (`PendingAccounted`, an induction over data).
The disagreements of section 4 are counterexamples and have nothing to prove.

## 6. Not modelled

* Cards, history, milestones and trash: the routes check a request and make calls of the card
  store, and what could go wrong between two of them (rows, files, links) is in holder-core, which
  is not part of this repository; so is each Git operation behind `git/ExecutorGitOps`.
* Compaction of threads, quota and usage tables, model ranking: `AiRuns` has their calls and that they may
  throw, not their contents. Projects without a manifest.
* The set-up of `run()`: `Listener` begins with its threads running. The health monitor, which starts before, may call `stop()`
  meanwhile. `run()` clears the flag at its beginning (`api/Listener.cpp:249`), but the monitor has called `request_stop()` before
  (`app/DaemonApp.cpp:399`), which the loop of `run()` looks at like a signal. A `stop()` in the middle (lines 271 to 275) finds the
  event service under its mutex or not at all, in which case it is stopped as it is made; the accept loop then does not start and the workers
  find the flag before they wait. What is left is a state the model reaches by a `stop()` right after `Init`. This is an argument, not a check.
* How `/docs` rejects paths that leave its directory (`is_safe_relpath`): one test of one string.
* The runner's server process (spawned at most once) and the contents of probes.
* What an import stores, retrieval, object storage, cloud clients, OAuth: one request and
  one answer each; signing and formatting.
* Lock file, device configuration, readiness mark; formatting, parsing and validation of requests; SQL;
  encryption; the command-line client; catalog and provider files; the vendored Swagger bundle.

`PROJECT.json` lists every component with its status.

## 7. Plan

The modules of the plan exist, and every invariant and action property that a passing run checks is a
theorem. What could come next, in this order:

* whether `NoMissedChange` can do with less than `NoStateReturns`, such as that no two states of a row between two
  observations look alike;
* what liveness rests on and the prover can state without fairness: that a step of a stuck actor stays enabled, as an invariant per wait
  (a stream that waits has a timer, a job that is pulled has a thread), as `NoLostWakeup` does for the queues;
* compaction of threads as steps of `AiRuns`, if its table comes to matter to a run.

# Formal models of Stream Analysis Tools

TLA+ modules, TLC configurations and TLAPS proofs for the parts of this repository
in which several processes share state: the PostgreSQL job queue between the API and
the collection workers, the worker process, the import of a chat replay, the
directories and subprocesses of attempts, the reservations with their monitor and its
schedule, the stream catalogue with what YouTube may answer, the HTTP API from the
migrations at its start to its answers, and the pages of the web application.
Paths below are relative to
`src/`, the root of the repository; `api/` stands for `apps/api/internal/` and
`worker/` for `apps/worker/src/stream_analysis_worker/`.

Run everything from this directory:

    tlc -workers 2 -config MCJobQueue.cfg MCJobQueue     # likewise the others
    tlapm JobQueueProofs.tla                              # likewise the other proofs

`PROJECT.json` lists the runs, the correspondence of each definition with
source lines, the hazards of the code, the faulty variants that show each
property notices a mistake, the findings and the theorems.

## 1. The system

| Component | State | Operations | Speaks to |
| --- | --- | --- | --- |
| Collections API (`api/collections`) | none of its own; rows of `collection.collection_jobs`, read access to `chat_messages` | Start, Retry, Latest, ListMessages, SearchMessages, ChatActivity | job table, locks rows of `stream.streams` |
| Job repository (`worker/jobs.py`) | job rows: status, attempt, lease (worker_id, lease_token, heartbeat_at, lease_expires_at), counts, error | claim_next, heartbeat, record_progress, mark_succeeded, mark_failed | job table |
| Worker process (`worker/worker.py`, `app.py`) | main thread, one heartbeat thread per attempt, one cancellation event, signals | run_until_cancelled, run_once | job repository, collector, supervisor |
| Collector (`worker/chat_replay.py`, `chat.py`) | attempt directory, artifact, batch, counters; rows of `chat_messages` | collect, upsert_batch | yt-dlp, message table |
| yt-dlp subprocess (`worker/yt_dlp_process.py`) | process group, deadline, output classification | run, terminate | file system |
| Attempt directories (`worker/observability.py`) | directories shared by the workers of a host | orphan sweep, disk check | file system |
| Reservations (`api/reservations`) | `reservation.reservations`, its transition log; lease by worker_id and revision | Create, Cancel, ClaimDue, ApplyMetadata, SyncCollection, RecordFailure | job table, stream rows, YouTube |
| Reservation monitor (`api/reservations/monitor.go`) | the claim it works on | RunOnce, polled by every API process | reservations, YouTube |
| Streams (`api/streams`) | `stream.streams` | preview, register, list; written by the monitor too | YouTube |
| HTTP router (`api/httpapi`, `api/generated`) | none | 14 operations: bind, check, call a service, translate errors | clients, the services |
| YouTube client (`api/youtube`) | none | Fetch, lifecycle and duration parsing | YouTube Data API |
| Migrations (`api/database`) | `schema_migrations` | run at start-up of each API process | PostgreSQL |
| Web application (`apps/web`) | polling state of pages | load, poll, paginate | API |

All communication between API and worker is through PostgreSQL: there are no
messages and no callbacks. What is hard is therefore what concurrent
transactions and stale clients do to shared rows:

* **Queue.** Two requests for one stream must not both create a job. A worker
  that was paused past its lease must not renew or finish a job that another
  one has taken over, although both may have the same `worker_id` (the host name
  by default). Clocks are the clients' clocks. Correct when a stream has at most
  one unfinished job, outcomes come from the latest attempt, finished jobs do not
  change, and no request waits for ever.
* **Worker process.** Two threads share one cancellation event; the last
  heartbeat races the report of the outcome; replies are lost after commits.
  Correct when a process never stops itself without cause, reports only what its
  runner returned, and every job is finished by someone.
* **Import.** `upsert_batch` is not protected by the lease. Correct when a
  succeeded job has all messages of the artifact, counts each once, and never
  overwrites one.
* **Reservations.** The monitor works on a snapshot while users cancel, leases
  expire and manual collections compete for the stream. Correct when the state
  machine of ADR 0004 is followed, reservation and job agree about each other,
  and a success is noticed.
* **yt-dlp.** Exit, deadline and cancellation race, and SIGTERM may be ignored.
  Correct when a run ends on demand, its result is true, and no signal reaches a
  process group that is not its own.
* **Attempt directories.** Workers sweep a root that they share. Correct when a sweep
  spares running attempts, and a worker starts again whatever others left behind.
* **Schedule.** Checks are planned from a start that may be wrong, and fail. Correct
  when nothing is noticed late, and no reservation starves another.
* **Catalogue.** Metadata is fetched first and stored later, by users and monitors, and
  YouTube's answers may make no sense. Correct when what is collected is complete,
  nothing that ended goes back, and only a video that is gone counts as gone.
* **HTTP.** Connections break after the commit, and retries race. Correct when a command
  takes effect at most once, its answer is true, and polling finds what was started.
* **Reading.** Cursors over a table that grows, buckets at the end of a stream.
  Correct when nothing is passed over, repeated or counted twice.
* **Pages.** Requests fail or are answered late, while others act. Correct when a
  page does not go back and notices the end of what it polls.
* **Migrations.** Processes of several releases start and fail at once. Correct
  when each migration is applied once and every process comes to serve.

## 2. Modules

| Module | What it models |
| --- | --- |
| `CollectionErrors` | the stable error codes and which of them the API calls retryable |
| `JobTable` | one row of `collection_jobs`, each SQL statement of the worker as a constant operator on a row, and the table's CHECKs |
| `JobLifecycle` | abstract: what the queue promises, without leases, clocks and transactions |
| `JobQueue` | API transactions and worker statements over the table; implements `JobLifecycle` |
| `JobQueueProofs` | proofs about `JobQueue` |
| `WorkerProcess` | threads, cancellation, signals, crashes and restarts of worker processes |
| `WorkerProcessProofs` | proofs about `WorkerProcess` |
| `ChatImport` | what the attempts of one job do to stored messages and to the published counts |
| `ChatImportProofs` | proofs about `ChatImport` |
| `ReservationLifecycle` | abstract: the state machine a reservation promises (ADR 0004) |
| `Reservation` | reservation rows, monitors, manual requests and the jobs they meet; implements `ReservationLifecycle` |
| `YtDlpProcess` | one run of yt-dlp: wait loop, deadline, cancellation, termination of the process group |
| `ArtifactDirectories` | the attempt directories: sweeps, free space, crashes and what they leave behind |
| `AttemptHost` | composes the two: what attempts use of their host |
| `AttemptHostProofs` | proofs about `AttemptHost` and its two halves |
| `ReservationSchedule` | next_check_at, leases and backoff against the clock and the broadcasts |
| `ReservationMonitor` | composes `Reservation` and `ReservationSchedule`: what checks do and when they come |
| `ReservationProofs` | proofs about `ReservationMonitor` and both its parts |
| `VideoMetadata` | operators: which links are accepted, what is made of an answer of YouTube, what the table accepts |
| `StreamCatalog` | users and monitors that fetch metadata, and store it in `stream.streams` later |
| `StreamCatalogProofs` | proofs about `StreamCatalog` and the operators of `VideoMetadata` |
| `ApiContract` | abstract: what a client may rely on, a command takes effect once or not at all |
| `HttpApi` | requests from the router to the statements and back; implements `ApiContract` |
| `Migrations` | API processes that apply the migrations at their start |
| `ApiProcesses` | composes the two: the API from its start on |
| `ApiProcessesProofs` | proofs about `ApiProcesses`, `Migrations` and `HttpApi` |
| `ChatPages` | pages of messages and of search hits, and the list that appends them |
| `ChatActivity` | the buckets of the chat activity, and the chart that asks for them |
| `CollectionPage` | the page that starts, retries and polls a collection |
| `ReservationPage` | the page that polls and cancels a reservation |
| `StreamRegistration` | the registration form, the stream table, and the search that pages through it |
| `StreamPage` | the requests of `App` itself: the list and the stream that the path names |
| `WebPages` | composes the parts of the web application |
| `WebPagesProofs` | proofs about `WebPages` and its parts |
| `MC*` | instances for TLC |

### JobTable and JobQueue

A job row is a record of the columns that decide anything. Zero, `"none"` and
`NULL` stand for SQL's NULL. `Claimed`, `Renewed`, `Progressed`, `Succeeded` and
`Failed` are the SET clauses of `jobs.py`, `Claimable` and `OwnedLease` its
WHERE clauses. A worker statement is one action, because each is one UPDATE in a
transaction of its own and PostgreSQL re-evaluates its WHERE clause under the
row lock. A statement that matches no row (`LeaseLostError`) changes nothing:
the worker's reaction is `Abandon`. `held[w]` is the `JobLease` a process
remembers; a process that died and started again is `Abandon` followed by
`ClaimNext`, and a lease survives in `held` for as long as a paused process may.
`Times` are the values any clock may return at any statement, in any order:
skewed clocks and clocks that are set back are included.

The API transactions Start and Retry are cut where they may wait or be
interleaved: `StartBegin`/`RetryBegin` (BEGIN; `CURRENT_TIMESTAMP` is fixed
here), `LockStream` (`SELECT ... FOR UPDATE`), `CheckActive` (the active job or
the reason to refuse), `InsertJob` (insert and COMMIT). `AbortTransaction` is a
cancelled request or a lost connection at any point. The partial unique index is
a second line of defence: the model lets it refuse an insert (`"conflicted"`)
so that `OneActiveJobPerStream` can say that it never has to.

### WorkerProcess

`main` is where `run_until_cancelled` / `run_once` stands, `beat` where the
heartbeat thread stands, `cancellation` the `threading.Event` shared with signal
handlers, `beatError` the `heartbeat_error` list. The table is reduced to
status, attempt number and a lease that is live or expired; that the attempt
number may stand for the token is what `FencedByAttempt` of `JobQueue` shows.
A failed database call may have been committed or not (`ClaimCallFails`,
`FinishCallFails`). `Restart` is the supervisor.

### ChatImport

`run[a]` is the local state of attempt `a` inside `collect`, `stored[m]` the
attempt whose INSERT created the row of message `m`, `job` the row. Parsing, the
batches and the report are separate actions, so two attempts whose leases
overlapped interleave at every batch. `ProcessResult` and `Classified` model
how yt-dlp may end and the checks of `collect` in their order. A message is a
model value: its fields decide nothing here.

### Reservation

`rsv` and `trail` are the two tables, `mon[m]` what a monitor remembers of its
claim (`seen` is the row that `ClaimDue` returned), `client[c]` the stream that
a manual request has locked. A check is one fenced statement, except that
`ApplyMetadata` of a broadcast that is over is three steps, `ObserveStream`,
`EnsureJob` and `CommitMetadata`, in one transaction: the stream row stays
locked, and nothing is visible to others before the commit. Its locks are
modelled where they exclude others: the job row and, through the foreign key,
the reservation row. `LeaseLost` is `RowsAffected() != 1`, `Abort` a failed
statement or the death of the process.

Two abstractions keep claims unbounded. A reservation may be due at any time
(`next_check_at` is dropped), and a revision is any value that neither the row
nor a claim of the row holds. The code only ever tests revisions for equality,
and `RevisionsAssumption` makes sure that such a value exists.

### YtDlpProcess

`pc` is where `run` stands: the top of the loop of `_wait_for_process`
(`polling`), its `process.wait` (`waiting`), and the three stages of
`_terminate_process_tree` (`terminating`, `grace`, `reaping`). `proc` is the life
of the leader and of the helpers it started in its session; any of them may be
`stubborn`, exit, or (a helper) start at any moment. The clock is the flag `late`,
and a bounded `wait` may always time out. Helpers matter because the code waits for
the leader only: TLC finds runs that return as cancelled while a helper is alive.

### ArtifactDirectories, AttemptHost

`dir[d]` is a directory of the shared root: absent, younger or older than
`orphan_after`. `worker[p].main` is where a process stands: down, in the sweep of its
start or of an attempt, between, or at work in `own`. A sweep is cut at every point
where another one may come between: the listing (`todo`), the look at one candidate
(`Examine`, which remembers the `victim`), its removal (`Remove`) and the look at the
free space (`CheckCapacity`). When two sweeps choose one victim the second raises
`FileNotFoundError`; that ends its process, in an attempt too, because `collect`
catches `InsufficientDiskCapacity` only. `LeavesOwn` is a removal that fails (a helper
of yt-dlp still writes), `Overrun` an attempt that outlives `orphan_after`.
Names are random: `MakeDirectory` gives none that a sweep in progress still holds.

`AttemptHost` puts both halves of an attempt's host into one specification. They share
no variable, so every behaviour of the two together is, seen from either half, a
behaviour of that half; `HostNext` lets a behaviour follow one of them instead of
interleaving what cannot meet. The same holds for `WebPages`, below.

### ReservationSchedule

Time is a counter of minutes, kept relative to now: `row[r].next` and `lease` count
down in `Tick`, and so does the planned start, until the broadcast begins. A check
(`RunOnce`) is one step here, because it lasts seconds and `Reservation` has what
happens inside. `Tick` needs `Due = {}`: the monitor loop asks every second and goes
on at once after work. `lag[r]` counts the minutes for which a row is behind its
broadcast. `Refused` rows have a broadcast whose observed row `stream.streams` refuses
(its times are in disorder, and `ApplyMetadata` does not call `normalizeMetadata`):
every check of it fails, and the lease is all that is left of it.

`ReservationMonitor` puts the times beside `Reservation`. Both are abstractions of the
same rows, one without times and the other without steps inside a check, and so a
behaviour follows one of the two, like those of `AttemptHost`. `NothingToCheck` is the
end of a behaviour that follows the checks: every reservation is terminal, and the
monitor loop finds nothing.

### VideoMetadata, StreamCatalog

`VideoMetadata` has the operators: `ParseYouTubeURL` with how often each place of the
video ID is percent-decoded, `FetchError` and `Fetched` for `Client.Fetch`,
`ParseDuration` with the conversion from float64, which Go leaves open when the value
is out of range (a choice: negative, or the largest), `Accepts` for `normalizeMetadata`
and `Storable` for the CHECKs. In `StreamCatalog` an answer is the truth about the
broadcast, or the truth with one thing out of order (`Answers`); a user and the
monitors fetch, and write in a later step, while the broadcast goes on, reservations
are cancelled and made again, and claims are lost. A claim is the monitor that holds
it; how leases and revisions make it so is in `Reservation`.

### HttpApi, ApiContract

`Request` are the routes with what a request may vary in: the form of an ID, of the
parameters and of the body. `Accepted` is the way through `rejectCollectorOptions`, the
generated binding and the handler; everything else is answered 400 and has no step.
Requests that only read have no step either. A command is `Accept`, then its
statements (`Begin`, `LockStream`, `CheckForStart`/`CheckForRetry`, `InsertJob`; one step
for the others), then `Reply`. `Fails` is a failed statement, a lost connection, or the
end of the process, at any time: after `InsertJob` it is the lost answer of what was
done. `clock` orders `requested_at`, which `Latest` sorts by, and which is the time of
`Begin`, not of the insertion. The worker and the monitor appear as `JobEnds` and
`ReservationGoesOn`.

`ApiContract` has one step `Perform` between a request and its answer, in which the
command has its effect or is refused because it is not possible then. The refinement
says that each command of `HttpApi` is atomic in this sense.

### ApiProcesses

`Migrate` comes before `ListenAndServe` in `main`. Requests come in the model when
every process of the deployment serves and no fault of the start is left; requests
that overlap another process's migrations see the same rows, because the migrations
only add tables, columns and indexes.

### ChatPages, ChatActivity

`stored` is the message table, extended by `Store` (the import) at any moment.
`ChatPages` cuts a request in two, the statement at the database (`Answer`) and
the arrival at the page (`ShowPage`); `Beyond`, `Rows` and `NextCursor` are the
WHERE clause, LIMIT + 1 and the cursor. `reads` tells which operation is called;
they differ in the rows they are about. `ChatActivity` has the query as operators
(`Bound`, `BucketOf`, `Series`, `Activity`) and the chart as actions, with the
effect's clean-up in `Select`.

### CollectionPage, ReservationPage

A request is idle, sent, or handled by the API with an answer under way; it may
fail at either stage. React's effects run with the state change that causes them:
`Show` and `SetReservation` set and clear the timer as the effects and clean-ups
do. The API behind a page is reduced to the latest job, or to the state of the
reservation, and changes by itself (`WorkerActs`, `OtherUserStarts`,
`MonitorActs`, `OtherUserCancels`). `ReservationDetail` has one `load` for its
first request and for polls, because one timer at a time is set when it ends.
That `App` may put another stream into a mounted `CollectionWorkspace` (a
registration that ends while another stream's page is open) is not modelled there.

### StreamRegistration

`call` is `handleRegister` with what it captured, `table` the list of streams in
the order in which `ListItems` returns it. `created_at` is the begin of a
transaction and ties are broken by a random UUID, so a new stream may be inserted
at any place (`Inserted`). `Register` sends the URL of the input, whatever the
preview shows; therefore `ExistingIsFound` speaks only of streams that were
previewed, and a form that registers another video than the previewed one is a
behaviour of the model.

### StreamPage, WebPages

`StreamPage` has the two effects of `App`, which nothing cancels: `gets[id]` and `lists`
count the requests under way, and `RunEffects` adds what the effects ask for when the
path or the selected stream changes. Answers for pages that were left replace
`selectedStream`; that runs the effect again, which asks for the right one.

`WebPages` composes the parts of the browser that keep state between requests. The two
polling pages are never mounted together (`App` renders one page) and are interleaved
with that restriction; the other parts share no variable but the message table, which
only the import changes. So a behaviour follows one part (`followed`), and the others
stay in their initial state.

### Migrations

`schema` is the sequence of committed migrations, `ledger` the table of their
names, `lock` the advisory lock of a session. A process moves from `locking`
through the loop of `ApplyMigrations` to `serving`. `Fails` ends it anywhere, with
its session and its open transaction; `CommitReplyLost` is the commit whose reply
is lost. An executed migration whose transaction is open makes other sessions wait
(`InDoubt`), and one whose objects exist fails and ends the
process (`conflict`), so that the lock, and not the model, has to exclude collisions.

## 3. Runs

| Run | Question | Bounds |
| --- | --- | --- |
| `job_queue` | Do overlapping requests and stale workers keep the table consistent and the outcome fenced? Does the queue implement `JobLifecycle`? Does every request end? | 1 stream, 2 clients, 3 requests, 2 workers with one `worker_id`, 3 claims, times 0..2, lease 2 |
| `worker_process` | Does a process stop itself, confuse attempts, or report what no runner returned? Does every job finish once faults cease, and a shutdown complete? | 2 processes, 2 jobs, 2 faults |
| `chat_import` | Is a succeeded job complete, counted once, and nothing overwritten? | 3 attempts, 3 messages, batches of 2, 6 artifacts |
| `chat_import_no_data` | Is `no_data` only published for replays without chat? (no: finding 1) | 2 attempts, 1 artifact |
| `reservation` | Is the state machine of ADR 0004 followed, whatever claims are late? | 1 reservation, 2 monitors with one `worker_id`, 2 jobs, 1 manual client, any number of claims |
| `reservation_pair` | Is a success noticed? | 2 reservations, 2 jobs, 1 monitor, any number of claims |
| `reservation_transient` | Does a transient failure keep the state? (no: finding 2) | 1 reservation, 5 attempts as in the code |
| `attempt_host` | Is the result of a run of yt-dlp true, does it end on demand, and does a signal ever go astray? Do sweeps spare running attempts, and does every worker start again? | the leader and 2 helpers, each stubborn or not; 2 processes, 4 directory names, room for one more than is demanded, 2 faults |
| `reservation_monitor` | Can two reservations of a video share a job, or find it taken? Are start, end and archive noticed in time? Does a row that cannot be updated starve another? | as `reservation_pair`; for the schedule one of the 2 reservations is refused, starts are planned in 5 or 33 minutes or not at all; 2 faults |
| `stream_catalog` | Is what is collected complete, and can late writes or senseless answers spoil a stream or a reservation? | 1 video, 1 user, 2 monitors, any number of reservations of it |
| `api_processes` | Is each migration applied once and in order, and does every process come to serve? Are commands atomic, and their answers true? | 3 processes of 2 releases, 3 migrations, 3 faults; 2 clients, 2 jobs, 2 reservations, 3 transactions, any number of lost connections |
| `web_pages` | Does a page go back, poll twice, miss the end, repeat or pass over a message, miss a registered stream, or wait for nothing? | 3 jobs of one stream, 1 reservation; 5 messages, pages of 2, bucket sizes 2 and 3, durations 0, 6 or none; 3 videos, of which 2 are typed, list pages of 1; 2 streams and a missing one, 2 requests of each kind |

Why these bounds reach the interesting cases.

* Fencing needs a lease that expired and was taken over while the first owner
  lives: two workers and two claims; the third claim lets the first owner come
  back under a later token. The lock protocol needs one client that waits while
  another inserts, and a retry after the job ended: two clients and three requests.
  Times 0..2 with a lease of 2 contain a live lease, one at the boundary, one
  expired, and a clock set back. The counts are 0 in a new row and 1 in every
  report, which is enough to see them go back.
* Two process faults make a delay and a lost reply, or a signal and a crash, meet
  in one behaviour, and make every process restart while a job is running.
* The artifacts of `MCArtifacts` contain a partial last batch, a repeated message in
  one batch and across batches, only skipped actions, and a malformed one after a
  saved batch.
* Two monitors with one reservation have the stale claims, two reservations with one
  monitor the hand-over of a job from one to the next; claims are not bounded.
* Two helpers show that one may end and another stay. Two workers are two sweeps that
  meet, or a sweep and a running attempt. `EnoughNames` gives a name for every
  directory that processes or faults can leave; with less room than directories left
  behind, a start finds the disk full, and with the room of `OwnDirectoriesFit` the
  directories in use alone never fill it, which is the deployment's business.
* A start in 33 minutes passes through all the intervals of `nextCheck` (15, the rest,
  1), one in 5 begins in the last one, and without a plan `monitoring` is reached.
  Two faults are enough for the backoff to be followed by a check that succeeds, and
  with successful checks in between for the fifth attempt to fail. Overdue rows that
  are later than the other by more than `MaxOverdue` are not told apart.
* One video is enough for the catalogue, whose rows are independent; two monitors are a
  claim and a stale one, and a reservation may be cancelled and made again between.
  `MaxDuration = 2` lets a single component and a sum of two overflow.
* Two clients compete for the stream's lock and repeat or cancel what the other did;
  with three transactions one waits while a later one ends, so that `requested_at` and
  insertion disagree.
* Five messages, three of them at one offset, let a page end between messages of one
  offset; one lies before the start, and the durations put the others before and behind
  the end.
* Three jobs let a page show one, miss one and meet a third. With pages of one and
  three videos a stream is inserted before, between and behind the pages of a
  search; the third video is only registered by others. Two requests of each kind that
  are under way can arrive in either order. Two releases of two and three migrations,
  the newer one in two processes, contain a process that finds more in the ledger than
  it knows, and two that compete for the same migration.

Every property has a faulty variant of some definition, next to the definition
it stands for ("Faulty variant: ..."), that violates it under the same
configuration; `PROJECT.json` lists one for each property, and where a property is a
conjunction, further variants stand in the modules for its other parts. The
invariants whose names end in `Inv` are conjunctions of named parts, one of which is
the module's `TypeOK`; the parts are stated where they are defined. An invariant of a
composition (`WebPages`, `AttemptHost`, `ApiProcesses`, `ReservationMonitor`) names those
of its parts.

`CHECK_DEADLOCK FALSE` is set where the system really may stop: when all jobs
are finished and the bounded requests are used up (`JobQueue`), when the job has
been reported (`ChatImport`), when all reservations are terminal (`Reservation`; not in
`ReservationMonitor`, which names these states),
and when the last page has been read (`WebPages`). In the other runs deadlock is checked.

### Fairness

* `JobQueue!ClientFairness`: the goroutine of a request keeps executing (weak
  fairness), and PostgreSQL hands a contended row lock to its waiters in turn
  (strong fairness of `LockStream`). Nobody has to begin a request, abort one,
  or run a worker.
* `WorkerProcess!Fairness`: threads are scheduled; a runner returns, because
  yt-dlp has a deadline and an artifact is finite; a lease that nobody renews
  expires with time; and a process that ended is restarted
  (`old_docs/railway-verification-environment.md:112` demands the restart policy
  `Always`). A heartbeat need not fall due, a fault need not happen.
* `Reservation!FairSpec`: the monitor loop of `main.go` polls for ever and takes
  the row due first; a lease runs out by the clock; and of the checks of a
  collecting reservation not every one is cut off by expiry or a dying process
  (strong fairness of `SyncCollection`). YouTube need not answer in any
  particular way, and jobs need not end.
* `YtDlpProcess!Fairness`: the parent thread is scheduled, and the kernel delivers
  a lethal signal. yt-dlp need never exit, and a `wait` may always time out.
* `AttemptHost!DirectoryFairness`: the supervisor restarts a process, its thread is
  scheduled, and time passes, so that a directory nobody uses becomes old. Jobs need
  not come, and attempts need not end. `GroupFairness` is that of `YtDlpProcess`.
* `ReservationMonitor!ScheduleFairness`: time passes, and some API process runs the monitor
  loop. Broadcasts need not go on.
* `CollectionPage!Fairness`, `ReservationPage!Fairness`: the browser fires timers and
  handles answers, and of the polls not every one fails (strong fairness of
  handling and arrival). No user acts, and no other request has to succeed; a
  cancellation, though, ends in some way, because `fetch` settles.
* `StreamRegistration!Fairness`: the API answers a registration and its searches, or
  the request fails. Nothing bounds how often others register but the number of
  videos.
* `Migrations!Fairness`: a process that ended is started again, and PostgreSQL hands
  the advisory lock to the sessions that wait (strong fairness of a process's next
  step). Faults cease because `MaxFaults` bounds them. `ApiSpec` adds no fairness:
  nobody has to send a request.

## 4. Findings

Two runs are expected to violate their property, which is a sentence of the
documentation:

1. `chat_import_no_data`. `PublicStatus` publishes `no_data` for a succeeded job
   with zero counts, and the counts are those of the last attempt only. When an
   earlier attempt stored the messages and died, the next one inserts nothing
   and its success appears as `no_data`; the canary plan reserves that status
   for replays that are unavailable.
2. `reservation_transient`. `monitor_attempt` counts successful checks as well,
   so a reservation that was checked four times fails at its first transient
   error; ADR 0004 keeps the state on transient failures.

Other behaviours of the code that the models contain and that a reader of the
documentation may not expect; the properties are stated so that they allow them:

* A collection that ends with `SOURCE_NOT_READY` leaves its reservation in
  `collecting`, where monitoring is not retried (`ImplementsLifecycle` demands only
  that somebody else's success does not complete it); the canary plan (line 75)
  expects it to remain waiting.
* After cancellation a helper of yt-dlp may still run: `_terminate_process_tree`
  waits for the leader only and sends nothing if it has just exited by itself
  (`LeaderIsGone` speaks of the leader); `collector.py:89` says that the process tree
  has been stopped.
* `ReservationDetail` sets no timer after a failed poll and shows the old state,
  with the error, until the user leaves (`EndOrErrorIsShown`); and a poll that the API
  answered before a cancellation may arrive after it and show the old state for one
  more interval.
* `handleRegister` sends the URL in the input, not the previewed one
  (`ExistingIsFound` is about equal ones).
* A stream of known duration without messages is drawn as bars of height 0.
* The backoff of `waiting_for_archive` uses `monitor_attempt`, which has counted all
  checks since the reservation was made: after five of them the first wait is 30 minutes
  already, where ADR 0004:91 recommends 2 minutes for the first 30. `NoticedInTime`
  allows 30.
* A reservation whose observed row the stream table refuses (an end before the start) is
  checked again after every lease, for ever: the monitor does not normalise metadata,
  and a failed transaction is not recorded as a failure. Others are not starved
  (`ArchiveIsCollected`).
* Of two sweeps that meet, one ends its process (`FileNotFoundError` from `rmtree` or
  `stat`); the supervisor restarts it (`WorkersStart`).
* `ListReservations` does not check `limit` and `offset`, although the OpenAPI document
  bounds them (`ContractIsChecked` excepts it); a negative one fails in the database
  and is answered 500.
* Reservation responses and the stream list publish the status of a job as it is
  stored; only the collection endpoints publish `no_data`.
* A failed job can be retried again when the retry of it has ended.
* The video ID of a `youtu.be` or `youtube-nocookie.com` link is percent-decoded twice.
* A duration "P0D" of an ended broadcast counts as a duration: the archive is taken to
  be ready.
* `Latest` orders by the time a transaction began. A collection that waited for the
  lock of the stream is older, by `requested_at`, than one that began later and is over
  already, and polling then shows that one (`LatestShowsActive`).
* Navigating to the list when it is open marks it as loading without a request, until
  an earlier one is answered (`StreamPage!Navigate`), and "not found" of one path is
  shown while the stream of the next one is loaded.

## 5. Proofs

Every safety property that a passing run checks, invariants, action properties and
refinements alike, is also a theorem: it holds for every value of the constants, that
is, for any number of workers, clients, reservations, messages or faults, and not only
within the bounds of §3. A module is cleared with `tlapm <module>`, from nothing in one
to four minutes each.

| Module | Theorem | Property | Inductive invariant |
| --- | --- | --- | --- |
| `JobQueueProofs` | `TypeCorrect` | `TypeOK` | `IInv`: `TypeOK`, `LockInv`, `LeaseInv` |
| | `ConstraintsAlwaysHold` | `ConstraintsHold` | |
| | `StreamLockSuffices` | `OneActiveJobPerStream` | |
| | `TokenFences` | `FencedByAttempt` | |
| | `FinishedIsFinal` | `TerminalIsFinal` | |
| | `OutcomeIsFenced` | `OutcomeFromLatestAttempt` | |
| | `CountsNeverDecrease` | `ProgressMonotone` | |
| | `QueueImplementsLifecycle` | `ImplementsLifecycle` | |
| `WorkerProcessProofs` | `AttemptsHold` | `AttemptInv` | `Threads`, `ResultsWereReturned`, `ClaimsAreApart`, `ClaimsAreOwned`, `FaultsComeFirst`, `OutcomeWasReturned` |
| `ChatImportProofs` | `ImportsHold` | `ImportInv` | `AttemptIsTrue` of each attempt, `JobIsTrue` |
| | `StoredMessagesStay` | `FirstWriteWins` | |
| `ReservationProofs` | `RowsAreAllowed` | `ReservationInv` | `RowInv`, `JobInv`, `ClaimInv`, `LockInv`, `ChosenInv`, `TrailIsHistory` |
| | `TrailIsComplete` | `TrailIsHistory` | |
| | `LinksHold` | `LinkInv` | |
| | `ReservationsImplementLifecycle` | `ImplementsLifecycle` | |
| | `ChangesAreNoticedInTime` | `ScheduleInv` | `PunctualInv` |
| `StreamCatalogProofs` | `CatalogHolds` | `CatalogInv` | `ActorsInv`, `CatalogInv` |
| | `EndedIsFinal` | `EndedStaysEnded` | |
| `AttemptHostProofs` | `ResultsAreTrue` | `ResultInv` | `GroupInv` |
| | `SignalsStayInTheGroup` | `NoSignalToStrangers` | |
| | `SweepsSpareAttempts` | `DirectoryInv` | `DirectoriesInv` |
| `ApiProcessesProofs` | `MigrationsHold` | `MigrationInv` | `SchemaInv` |
| | `RequestsHold` | `HttpInv` | `RequestInv` |
| | `RequestsImplementContract` | `ImplementsContract` | |
| `WebPagesProofs` | `OneChainOfPolls` | `PollInv` | `CollectionInv`, `ReservationInv` |
| | `ShownNeverGoesBack` | `NeverGoesBack` | |
| | `PagesLoad` | `LoadingInv` | itself |
| | `SearchFinds` | `SearchInv` | `RegistrationInv` |
| | `ReadingIsTrue` | `ReadingInv` | `ListInv`, `ChartInv` |

Every proof has the same shape: `Init` gives the inductive invariant, one lemma per
action shows that the action keeps it, the invariant gives the property. An action
property or a refinement is then proved of one step from a state of the invariant.
Each invariant was first checked by TLC on the instance of the module's run. A theorem
about a composition (`MonitorSpec`, `HostSpec`, `ApiSpec`, `WebPages!Spec`) rests on
the invariant of the part it is about: a step of the composition is a step of one part,
and leaves what the others speak of alone.

### The arguments

**JobQueue.** `LockInv` strengthens `OneActiveJobPerStream`, which says nothing of
transactions in flight. A client past the lock wait holds the lock of its stream, so
two clients cannot both stand between the check and the insert for one stream, and a
client about to insert still sees no unfinished job, because workers only finish jobs
and nobody else can insert without the lock. `LeaseInv` strengthens `FencedByAttempt`,
which does not exclude that a remembered token is issued again: `TokenInv` numbers the
tokens in the order of claims, all tokens in rows and memories are at most `issued`,
and so a new token differs from each. `OwnerStatements` reduces the four statements of
a lease holder to one shape, `OwnerUpdate`, that the invariance proof handles once. The
refinement maps heartbeats, progress, lock steps and abandoned attempts to stuttering.

**WorkerProcess.** `ExclusiveAttempts` is not inductive. Without a delay whoever has a
claim owns its row (`ClaimsAreOwned`), so that two claims are of two jobs. After a
delay they may be of one job, but of different attempts, and of none that lies ahead
of the table (`ClaimsAreApart`). `OutcomeWasReturned` needs
the result remembered from the return of the runner to the report
(`ResultsWereReturned`); `FaultsComeFirst` says that nothing has failed as long as
there was no fault, whence no process stops itself.

**ChatImport.** `ImportInv` speaks of the attempt that succeeded, the invariant of all
of them: what an attempt has parsed is stored, by whichever attempt, or in its batch,
every action was counted once, and what counts as saved is what carries the number of
the attempt. `RowsStay` is what makes the attempts independent: a batch of one adds
rows and leaves those of the others alone.

**Reservation.** `FreshRevision` is the lemma that the model's finite revisions need:
by `RevisionsAssumption` and the cardinality theorems one is left that neither the row
nor a claim has. `ClaimStands` is the key part: as long as a claim is valid the row is
the one that the claim returned but for its lease, and so the transition written from
the snapshot is the transition made. `LockInv` has the row lock of the stream;
`ChosenInv` says that a job chosen for linking can still be linked when the
transaction commits, if the claim stands. The lifecycle's steps are then read off the steps of
the rows.

**ReservationSchedule.** `ScheduleInv` is not inductive: it bounds how long a row *has
been* behind its broadcast, and does not know when the next check comes. `PunctualInv`
bounds the sum of that time and the wait until the row may be claimed (`Wait`), by
the longest wait that a successful check leaves (`Allowance`) and eight minutes for
each fault. In a tick the one grows by what the other shrinks, and when a planned start
comes nearer the allowance shrinks by no more than a minute (`AllowanceShrinksSlowly`).
`CASE` and the table of the backoff are evaluated in lemmas of their own.

**StreamCatalog.** What is stored was fetched before: the invariant says of what users
and monitors hold between their calls what `CatalogInv` says of the table, and that
only an active reservation is claimed. `FetchIsRight` evaluates `Fetched` and
`ParseDuration`, with the overflow of the conversion left open, for every answer.

**AttemptHost.** `GroupInv` says how far the parent is from what it has sent and
collected. `DirectoriesInv` says why a sweep that looks first and removes later never
meets a running attempt: before an overrun the directory of an attempt is recent,
belongs to one process, and is no sweep's victim. `EnoughNames` and `OwnDirectoriesFit`
are not needed for that; only `WorkersStart` depends on them.

**ApiProcesses.** Whoever is in a session holds the lock, and the item a process is at
follows the schema (`ItemsFollowSchema`); so migrations do not collide, in any mixture
of releases. `CallIsTrue` says what a transaction knows under the stream lock, and that it
stays true. `Latest` takes a maximum: that one exists would be an induction over the
jobs, so it is carried along (`SomeJobIsLatest`). The refinement maps the last
statement of a command to `Perform`: the effect and the answer are there from then on,
whatever the connection does.

**WebPages.** `CollectionInv`: every answer under way lies between what the page shows
and the latest job, so no arrival sets the page back. `RegistrationInv`: the video that
is searched for lies behind the pages that were read, and an insertion only pushes it
further. `ListInv`: a page in flight is in order, starts behind the cursor, and whatever
was known behind the cursor is on it or behind its own; `RowsAreOrdered` shows that the
rows by rank are `ORDER BY`. `Division` and `MaxOffsetIsGreatest` carry the chart, whose
property speaks of every bucket size and any duration.

### Assumptions

Only the ASSUMEs of the modules are used, and TLC evaluates each of them in a run:
that lease duration, sizes and bounds are numbers (`LeaseDurationIsPositive`,
`SizesOfPages`, `MaxFaultsIsNumber`, ...), that `NULL` is none of the values it stands
beside (`NullIsNo...`, `NullIsNothing`), that releases and claims have their types
(`ReleaseIsNumber`, `WorkerIdIsFunction`), that there is one revision more than can be
in use (`RevisionsAssumption`), that messages are finitely many keys
(`MessagesAreKeys`, `MessagesAreFinite`) and artifacts finite sequences
(`ArtifactsAreSequences`), and that no path is a page and an id at once
(`IdsAreNoPages`). Nothing is assumed of clocks, nor that two workers or two monitors
have distinct `worker_id`s.

### What is only model-checked

* Liveness, and everything else that needs fairness or ENABLED: `RequestsEnd`,
  `JobsFinish`, `ShutdownCompletes`, `SuccessIsNoticed`, `StopIsHonoured`,
  `WorkersStart`, `ArchiveIsCollected`, `EveryProcessServes`, `CatchesUp`,
  `EndOrErrorIsShown`, `RegistrationEnds`. The prover does not support them.
* That `MayCall` bounds each entry of `StreamPage!gets`: the sum `Calls` is a fold, and
  what a fold computes is an induction over data, which the installed provers cannot
  do. `TypeOK` therefore says `Nat` where the sum gives a bound.
* The two runs that find a violation (§4).
* That nothing deadlocks, in the runs that check it.

## 6. Plan

Done, in this order: `JobTable`, `JobQueue` with `JobLifecycle` and its proofs,
`WorkerProcess`, `ChatImport`, `Reservation` with `ReservationLifecycle`,
`YtDlpProcess`, `ChatPages`, `ChatActivity`, `CollectionPage`, `ReservationPage`,
`StreamRegistration`, `Migrations`, `StreamPage` and with it `WebPages`,
`ReservationSchedule` and later `ReservationMonitor`, `VideoMetadata` with
`StreamCatalog`, `HttpApi` with `ApiContract` and `ApiProcesses`, `ArtifactDirectories`
with `AttemptHost`; then the proofs of the safety properties of all of them.

What could still be modelled: a `CollectionPage` whose stream changes in place, and
the list and form of reservations and the search form, whose requests race as those of
`StreamPage` do.

What could still be proved:

1. The steps that liveness rests on and that need no ENABLED: that an expired lease
   is claimable whatever else the row holds (`JobsFinish`), and that an attempt of a
   stopped process only goes forward to its end (`ShutdownCompletes`), as action
   properties with a measure that decreases.
2. What `JobLifecycle`, `ReservationLifecycle` and `ApiContract` imply by themselves
   (a finished job stays finished, a terminal reservation stays terminal, a command
   has its effect once), so that the refinements carry these to the detailed modules.

## 7. What is not modelled

* PostgreSQL itself: statements are atomic, row locks exclude each other, a
  rolled-back transaction leaves nothing, CHECKs and unique indexes hold or fail
  the statement. Losing committed data is not considered.
* Message contents, formatting, redaction, metrics and logging.
* Of HTTP: headers, texts, the fields of bodies except which job they are about, and
  whether encoding an answer fails. Of the generated types: the encoders.
* The benchmark tool; the search form, the list and the form of reservations, the
  layout, the player and the preview history of the web application.
* Repository methods that nothing calls: `Heartbeat` of reservations, `Upsert` and
  `GetByYouTubeVideoID` of streams.
* The branch of the yt-dlp runner for Windows.
* Start-up validation of settings.
* That `attempt` of a job has no upper limit is in `JobQueue` and `WorkerProcess`, but no
  property is about it: the code states no limit.
* Whose job `CollectionWorkspace` shows after its stream was replaced in place, and
  that a form registers a URL which was not previewed: hazards without a property, in
  `PROJECT.json`.

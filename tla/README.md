# opp_ci in TLA+

opp_ci is a continuous-integration service for OMNeT++ projects. A *coordinator* (FastAPI, one
uvicorn process, one SQL database) keeps a queue of test runs; *workers* poll it over HTTP, build
and test, and report. This directory holds specifications of that program, TLC configurations that
check them on small instances, and proofs checked by TLAPS.

    tlc -workers 2 -config MCDispatch_safety.cfg MCDispatch     # one of the runs below
    tlc -workers 2 -config MCProgress_progress.cfg MCProgress
    tlapm Dispatch_proofs.tla                                   # one of the proof modules

`PROJECT.json` lists the runs, the theorems, the mutants (a plausible bug for each checked
property, which TLC must find), the source lines each definition stands for, the findings and the
hazards.

## The system

| Component | State | Operations | Interacts with | Module |
|---|---|---|---|---|
| Worker endpoints (`web/api.py`, `auth.py`) | `test_runs`, `workers` | poll, heartbeat, goodbye, `/workers/me`, snapshot, output, result; each authenticated by `require_worker_token`, which itself writes | worker processes; rollup, live output, GitHub, notes (after a result) | `Dispatch` |
| Reaper (`web/app.py`, `persistence.py`) | the same tables | `_reap_stale_workers` at startup and every `WORKER_REAP_INTERVAL`, in a thread | rollup (retired runs) | `Dispatch`, `DispatchTx` |
| Run and worker administration (`web/api.py`, `web/app.py`) | the same tables | submit, cancel, register, patch/update/toggle, shutdown, delete; the `/api` routes on the event loop, the web routes in the thread pool | submitters, admins | `Dispatch`, `DispatchTx` |
| Worker process (`worker.py`, `cli.py`) | `_running`, `_stop_event`, the job | main loop, heartbeat thread, signal handler, goodbye | coordinator; executor; service manager (`Restart=always`) | `Dispatch` |
| Verdicts and rollup (`persistence.py`) | `test_verdicts`, `expected_test_results`, `test_matrix_runs` counters and `completed_at` | `finalize_verdict_for_run`, `recompute_matrix_run_rollup`, expectations, matrix cancel | every end of a run | `Rollup` |
| Enqueueing and cache (`persistence.py`, `fingerprint.py`) | `tests`, `test_runs.cache_fingerprint` | `enqueue_job`, `create_test_run`, cache hits | rollup, webhook | `Rollup` |
| Log shipping (`logbuffer.py`, `worker_logs.py`, `worker.py`) | worker-side ring, watermark; coordinator-side ring | emit, collect, ship with the heartbeat, tail | heartbeat thread | `LogShipping` |
| Live output (`run_output.py`, `stages.py`, `worker.py`) | stage recorder, streamer queue, per-run buffer in memory | begin, output, end, skip; flush, stop; append, drop, evict | executor, result handler | `LiveOutput` |
| Executor (`executor.py`, `stages.py`) | stage tree, container, worktree, scratch directories, lock | install, run test on the host or in podman, clean up | opp_env, nix, podman | `Executor` |
| Workspaces (`executor.py`) | directories by build coordinate, lock files | resolve, lock, install, run, evict | other processes of the host | `Workspaces` |
| Runner images (`executor.py`) | image tags, layer cache, base-id label | build the base, bake, commit | other processes of the host | `RunnerImages` |
| GitHub (`github/`, `notes.py`) | auto-test rules, commit status, notes | webhook, status, notes workflow, fetch | GitHub, enqueueing, results | `GitHubStatus` |
| Matrices, fleet, tags (`scheduler.py`, `fleet.py`, `platforms.py`, `cli.py`, `persistence.py`) | `workers.tags`, recipe and snapshot | detect and edit tags, resolve, pin, expand, validate, route | submission | `Coordinates` |
| Tests and matrices (`persistence.py`, `web/app.py`, `web/api.py`, `github/webhook.py`, `cli.py`) | `tests`, `test_matrices` | create, resolve, replace, run, rerun | enqueueing, webhook | `RecipeStore` |
| Users and login (`auth.py`, `web/login.py`, `web/app.py`) | users, tokens, sessions | login, OAuth callback, roles, disabling, tokens | every route | `Access` |
| Summary tables, dependency catalog, services (`web/rollup.py`, `dependency.py`, `service.py`) | none of their own | classify and lay out; read versions; render and install units | web pages, submission, systemd, launchd | not modelled |

What is hard here: requests are lost, repeated and *late* (the coordinator goes on with a handler
whose client has timed out); worker processes die and return at any point; a worker has three
threads that talk to the coordinator independently; the reaper judges workers by timestamps; facts
are kept in several copies (`current_job_count` and `status` against the rows that say `running`;
`completed_at` and the counters against the verdict cells; the recorder's stages against the live
buffer; a label against the image); the reaper and the web routes run in threads beside the event
loop, with no row locks; worker processes of one host share directories, lock files and image tags.

What makes the components correct, in one line each: a run is executed by one worker at a time, a bounded
number of times, and ends (dispatch); a worker's load is what it runs (dispatch); a matrix run completes
exactly when its last cell does, and its verdict is its cells' (rollup); output arrives once, and in order
but for what was given up, and log lines are accounted for (live output, logs); a result is what its stages
say and nothing is left behind (executor); jobs that share a host all end (workspaces); a bake that no other
process disturbs is current (images); a commit that is told "pending" will be told more (GitHub); what is
resolved once stays what it is (coordinates); what runs leaves nothing open (recipes); a role has a source
and administrators do not vanish (access).

The hazards of the code, each at its line and with the properties that watch it, are listed in
`PROJECT.json`.

## Modules

| Module | What it is |
|---|---|
| `Dispatch` | the dispatch core: the two tables, every worker endpoint, the reaper, administration, the worker processes and the network between them |
| `DispatchTx` | `Dispatch` with the transactions of the reaper's thread and of the web routes split into read and commit |
| `RunLife` | the abstract specification: the life of a run as its submitter sees it |
| `Rollup` | the books: runs as rows, verdict cells, expectations, the cache, the stored roll-up of matrix runs, and everybody who writes them |
| `MatrixLife` | the abstract specification: what is promised of a matrix run |
| `LogShipping`, `LiveOutput` | a worker's log lines, and the events of its stages, on their way to a page |
| `Executor` | one worker executing one job after another: stages, error paths, what is held on the host |
| `Workspaces`, `RunnerImages` | what the processes of one host share |
| `GitHubStatus` | what GitHub is told about one commit |
| `Coordinates` | tags, platforms, recipes, snapshots, expansion and routing |
| `Access` | accounts, roles, sessions, tokens |
| `RecipeStore` | the tests and matrices tables: recipes, their resolution, and every way to a run |
| `Dispatch_proofs` | the inductive invariant of `Dispatch` and its safety theorems; the refinement of `RunLife`; the job counts |
| `DispatchTx_proofs` | the theorems that survive when the transactions of `DispatchTx` overlap |
| `Rollup_proofs` | the inductive invariant of `Rollup`, its safety theorems, cache hits, and the refinement of `MatrixLife` |
| `Output_proofs` | what a worker sends: theorems on `LogShipping` and `LiveOutput` |
| `Executor_proofs` | what a host does: theorems on `Executor` and `RunnerImages` |
| `Coordinates_proofs`, `GitHubStatus_proofs` | theorems on the modules they are named after |
| `Rows_proofs` | rows that users write: theorems on `Access` and `RecipeStore` |
| `MCDispatch`, `MCDispatchTx`, `MCRollup` | small instances of the modules they are named after; their configurations differ in faults and sizes |
| `MCProgress` | `LogShipping`, `Workspaces` and `GitHubStatus`, with fairness |
| `MCParts` | `LiveOutput`, `Executor`, `RunnerImages` and `Coordinates`, safety only |
| `MCRows` | `Access` and `RecipeStore`, whose rows a web route reads and commits later |

`MCProgress`, `MCParts` and `MCRows` put components that share no state into one run: `part` names the one
that a behaviour is of, and the others stay as they are initially. Nothing is composed by that.

### Dispatch

State:

- `run[r]`, a row of `test_runs`: `lifecycle`, `owner` (`worker_id`), `reclaims` (`reclaim_count`),
  `result` (the outcome columns), `old` (`created_at` is past the queue timeout). `attempts` is a
  history variable. A result is abstracted to the number of the attempt that produced it, which is
  what tells a stale result from a current one; the synthetic ERROR of a retired run is `Synthetic`.
- `worker[w]`, a row of `workers`: `status`, `enabled`, `shutdown` (`shutdown_requested`), `count`
  (`current_job_count`), `concurrency`, `fresh` (`last_heartbeat` within the timeout), and `serves`,
  the set of runs its tags and run-filters admit.
- `agent[w]`, a worker process: where its main loop is, the job and attempt it holds, the tries of
  the report, and `stop` (`_running` false and `_stop_event` set).
- `late`, requests whose client gave up waiting and which the coordinator may yet handle.

Every handler first authenticates, and authentication writes: it refreshes the heartbeat and, for a
worker marked offline, brings it online and reclaims its runs. `AuthRun` and `AuthWorker` are that
transaction as functions on the tables, and each handler is applied to their result, so one action
is the whole request. Two transactions (authentication and handler) count as one step because
nothing runs between them on the event loop; what threads do meanwhile is in `DispatchTx`.

A request has one of four fates: handled and answered (`PollJob`, `Heartbeat`, `ReportResult`, ...);
lost; handled and the answer lost; handled after the client has gone on. The last three are the
`...Timeout` actions: the client gives up, and the request is either gone or in `late`, from where
`LateArrives` handles it at any later time or never. A report is retried `ReportTries` times. The
heartbeat thread acts beside the main loop. `Crash` kills a process at any point; `FetchConfig` is
the start of the next one, which `Restart=always` provides.

Time is two flags. `HeartbeatLapses` says that a heartbeat is past the timeout, which happens to a
process that is down, has stopped its heartbeat thread, or is out of contact (fault `silence`).
`RunAges` says that `created_at` is past the queue timeout.

Faults are a constant, so that each run names what it needs: `crash`, `prompt` (a process may be back
before its heartbeat is stale), `signal`, `timeout`, `silence`.

### DispatchTx

`tx[t]` is the open transaction of the reaper's thread or of a web route: what it is about, and the
rows as it loaded them. `Begin...` loads, `Commit...` decides from what was loaded and writes
(`Merged`) the columns whose decided value differs from the loaded one, into rows as they are by then;
that is what the ORM's unit of work does. An UPDATE of a worker's row that is gone fails the sweep. The
deletion's UPDATE of `worker_id` is a statement of its own and sees the rows of its moment. Requests on
the event loop (`OnTheLoop`) stay whole. `over[r]` is a history: the attempts at a run that were given out
while a sweep or a deletion was open that had loaded the run as running. Another request took the run back
in between, and the two write the same reclaim count: these attempts, and no others, are free.

### RunLife

A run waits, is attempted at most `Budget = MAX_RECLAIMS + 1` times, ends and stays ended; only a
queued run can be cancelled. `Dispatch` is checked against it under the mapping `phase = lifecycle`,
with the attempts counted (run `admin`, and theorem `ImplementsRunLife`); one transaction may move
several runs.

### Rollup

`Rollup` takes from `Dispatch` that a run is claimed, reclaimed, reported on, retired or expired, and
models what each of these does to the books. Its state is tables again: `run` (lifecycle, outcome,
fingerprint, `owned` for a set `worker_id`, reclaim count), `cell` (`test_verdicts`: which run a cell
rests on, the expectation it pins, its verdict, `cache_hit`), `expected` (the expectation in force for
each test), `rollup` (the stored columns of `test_matrix_runs`). The run that a matrix run makes for a
job carries the name of the two, and so does its cell; a cache hit is a cell on a run of another name.
`newest` is the answer to the cache's query (last `finished_at` of a fingerprint), `local` the
`opp_ci run-matrix` processes, and `head` the commit of the branch under test, which `Push` moves to any
other commit, forwards or back. Histories are `built` in each row, what the last attempt checked out, and
`moved`, the runs over whose waiting or execution the branch moved.

- A fingerprint is a job with what its git ref resolves to: a commit, or the literal ref. The other
  coordinate axes are the job.
- `Tally` is `recompute_matrix_run_rollup` as a function of the tables, `Finalize` is
  `finalize_verdict_for_run`; every action that ends a run applies it in the same transaction, as the
  code does, and the sweeps apply it for all the runs they retire at once.
- A test that a submission creates is stamped with the default or the submitted expectation, or none.
- `completed_at` is kept as set or not, descriptions and the history of expectations are left out (the
  last one is in force), and so are outcomes other than the result code.

`Uses` names what users and the environment do beyond submitting, executing, declaring expectations
and cancelling matrix runs. Each of the five activities breaks a promise, and the passing runs say which
promises hold with it.

### MatrixLife

Cells are fixed when the matrix run is submitted, each is answered once (a verdict, or withdrawn), and
verdict and completion are what the answers say, in every state. `Rollup` is checked to implement it
with the answer of a cell read off the cell and its run (run `server`), and proved to for any constants.

### LogShipping

Lines are numbered over all processes of a worker. `Emit` is the handler's ring, which forgets its
oldest line; `SendHeartbeat` is `_collect_log_batch`, the newest `Batch` lines past the watermark;
`Arrive` is the coordinator's store, which numbers on its own; `Advance` and `HeartbeatFails` are the
two ends of the request, the second of them before or after `Arrive`; either process may restart, which
empties its ring. `waived` is the history of lines that the code gives up: those a drop marker counts,
those the ring wrapped over, and those of a process that ended.

### LiveOutput

`job` is the recorder of the attempt under way, `pending` the streamer's queue, `post` the batches on
their way (of the streamer's thread, and of `stop`), `buffer` the coordinator's buffer of the run. A
batch is taken from the queue whole, posted once, and dropped if the post fails. `ReportOutput` is the
result, which drops the buffer; `Stop` comes after it, as in `_execute`, and may find the thread still
posting: the join waits 5 s, a post 10 s (fault `slow`). A post that fails at the worker (`GivesUp`) is in
`late`, from where the coordinator may handle it at any time or never (`ReceiveLate`). `Reclaimed` and
`Reattempted` give the run to another worker: the coordinator refuses the first one's events, and keeps its
buffer. `Evicted` is the limit on tracked runs. `arrived` is the history of the events that reached the store,
`gap` marks attempts of which events were lost, `astray` the lines of batches that were given up or overtaken.

### Executor

A command ends with 0, with another code, or raises; the argument of each action is which. `at` is where
the code is, `todo` the stages to come, `tree` the recorded ones, `held` what the job holds on the host.
The container path is one action per block of `_run_test_in_podman` and `_run_podman_staged`; the
`finally` of the latter is `CleanUp`. `Install` raising is the end of the process, whose restart reaps
containers; a neighbour's start reaps them too.

### Workspaces

A lock is on the open file, not on its name: `file[x]` is the file that the name of `x`'s lock stands for,
and `holder` who has it locked. A job touches its directory, sweeps (lists, then evicts one after another,
then unlinks the lock's name after the lock is gone), installs under the lock, touches again, and runs
under the lock again. A sweep that meets a directory another one removes fails its job.

### RunnerImages

An image is the install line of its Containerfile and the commit that line's cached layer got. A process
resolves the head (`Resolve`), builds the base (`BuildImage`), which is tagged when the build ends (`TagBase`),
reads the id that the tag has by then (`ReadId`), compares it with the runner's label (`Compare`), bakes in a
container of what the tag names by then (`Bake`) and commits under the id it read (`Commit`). Each is a podman
or git command of its own, so other processes and pushes come in between. `raced` is the history of the
processes between whose own tag and bake another one retagged the base.

### GitHubStatus

One commit, one status context: the last post is what GitHub shows. `Webhook` makes a run per job that no
finished run answers and posts `pending` for each job; `ReportHub` posts what the result maps to and
dispatches the notes workflow when the matrix run has no open run; `RetireHub` ends a run without telling
anyone. A failed request is not repeated. Rules are created, edited and deleted by API, web and command.

### Coordinates

`image[w]` is what detection finds on a host, `tags[w]` what the worker advertises; `ResolveTags` is the
one function behind every edit of tags. `ResolvePlatform`, `PlatformCells`, `JobPoints`, `ExpandMatrix`
are platforms and expansion; `ResolveLooseAxes`, `ResolveMatrix`, `PinRefs` are resolution; `RequiredTags`
and `CanServe` are routing. `ResolveRecipe` mints a snapshot from the tags of the usable workers. The jobs of
a matrix are the points of its axes (`JobPoints`), the versions of the project among them, which no coordinate
has; each job is resolved again when it is queued (`resolve_job_axes`), by the same `ResolveLooseAxes`.
`Described` is the number of tests that a page announces. Compilers, distributions and commits are members
of small sets; versions are numbers, 0 for none.

### Access

A web request is admitted (`Admit`, `CallbackReads`) and later handled, with other requests in between;
its answer writes the session back to the browser. API requests and commands are one step. `given` is the
history of roles that a login took from GitHub.

### RecipeStore

A coordinate or a config is a member of `Loose` (it leaves something open) or of `Pinned`; `now` is what
each loose one resolves to, from nothing (the fleet lacks an axis) to any pinned one, and changes at any
time. `test` is the tests table by coordinate, whose hash is unique; `matrix` the matrices, whose hash is
not. `route[q]` is a web request between its lookups and its commit, and between the commit of a saved
matrix and the queueing of its run; the API, the webhook and the commands are one step. A matrix has one
job. `had` and `ran` are histories.

## Runs

| Run | Module | Instance | Shows |
|---|---|---|---|
| `safety` | `MCDispatch` | 2 workers, 2 runs, crash, prompt, timeout, silence | types, attempt budget, single executor, results |
| `admin` | `MCDispatch` | 1 worker, 2 runs, concurrency 1 and 2, edited, disabled, shut down, deleted, all faults | ownership, the job count is real, every run lives as `RunLife` promises |
| `recovery` | `MCDispatch` | 1 worker, 2 runs, crash, signal, silence, tags edited, worker deleted, reaper fair | a dead worker loses its runs; unserviceable runs expire; every run ends once workers go on and admins rest |
| `restart` | `MCDispatch` | 1 worker, 1 run, all faults, fair | a shutdown request is delivered and cleared |
| `orphan` (violation) | `MCDispatch` | 1 worker, 1 run, crash, prompt, fair | a run is orphaned by a quick restart |
| `races` | `MCDispatchTx` | 2 workers, 1 run, silence, sweep, web cancel and web delete with one request in between | no attempt beyond the budget but those given out over an open transaction; only a sweep or a deletion that had loaded a run running revives it |
| `books` | `MCRollup` | 1 matrix run of 2 jobs on one test, 1 standalone run, reclaims; cancels, local execution, literal refs, stale results | types, current roll-up (also over a run it shares), every run graded exactly once, recorded verdicts frozen |
| `hits` | `MCRollup` | 2 matrix runs, 1 job of the branch, a commit or a literal ref; reclaims; pushes forwards and back | verdicts agree with the expectation they pin; a cache hit built the commit of its fingerprint, unless the branch moved over the run |
| `server` | `MCRollup` | 1 matrix run of 2 jobs, 1 standalone run, reclaims, coordinator only, fair | the refinement of `MatrixLife`; every submitted matrix run completes |
| `progress` | `MCProgress` | 4 lines, rings of 2 and 3, batches of 1; 2 processes, 2 trees, room for 1; 2 jobs, 2 events, lost posts, retired runs, repeated reports; fair | lines are received or accounted for, and not repeated without cause; every job ends; pending is owed; notes follow the batch |
| `parts` | `MCParts` | 2 stages, 2 lines, a ring of 1, drop, reclaim, evict, slow posts; every kind of job, every error path, 2 jobs in turn; 2 processes, 2 pushes; 2 hosts, 2 images, 5 matrices, tags by hand | lines come once, and late only if astray; content of the live view; results are what stages say; nothing left silently; images, tags, snapshots; which jobs are one test |
| `rows` | `MCRows` | a local and a GitHub account, 1 browser, 2 requests, 2 tokens; 1 recipe, 2 snapshots, 2 matrices, 1 request | roles have a source, administrators do not disable the last one; what runs is pinned, the lineage is true |

Bounds. Two workers are what contention for a run, a stale owner and a new owner need (`safety`); two runs
are what a queue order and two jobs on one worker need. `MaxReclaims = 1` gives each run an attempt that is
requeued and one that is retired; the code's default is 2, and the theorems are for every value.
`MaxLate = 1` bounds the requests that outlive their client at one time; every finding needs only one.
`ReportTries` is 1 or 2 where the code has 6: the second try is the retry. Counters need no bound of their
own: a run's attempts are bounded by the reclaim budget. `Window = 1` is one request handled while a
threaded transaction is open, which each of its races needs; `races` has no late requests and leaves worker
processes to their first life, since `safety` has both.

In `MCRollup` the second matrix run of `hits` is the one that hits the first, and the standalone run of
`books` and `server` is what a cell may share; the second job is what makes a roll-up differ from its cell;
one test for both jobs lets an expectation change under several cells. `LastCommit = 1` gives two commits,
and the branch moves between them as often as it likes: a commit that it has left is asked for again by
name, or when a forced push has taken the branch back. `PASS` with one of `FAIL` and `SKIPPED` gives a met
and an unmet expectation and an outcome the counters leave out; `ERROR` comes from retired runs.

In `MCProgress` a ring of 2 wraps at the third of 4 lines (`Ring`, `MaxLines`), a batch of 1 leaves a line
behind (`Batch`), the coordinator's ring of 3 wraps too (`StoreRing`); one lost heartbeat and one restart
(`MaxLost`, `MaxRestarts`) make every overlap there is between a watermark, a batch and a process. Two
processes with two trees and `WorkspaceMax = 1` let each evict the tree of the other. Two `Cells` with two
`Hooks` give a first job and a last one, and an event that finds a run or makes one; `HubCodes` needs one
code that is not the one of a retired run.

In `MCParts`, `MaxStages = 2` and `MaxOutput = 2` give two lines that may overtake each other, under one
stage or two, a ring that forgets the first of them (`OutputRing = 1`), and a stage that is begun while the
one before is still on its way. `MaxTaken = 1` takes a run from its worker while it has begun a stage and no
more, which leaves a buffer for the next attempt to find; every later moment differs only in how much is there.
`MaxHead = 2` is a
push after the one that a layer is cached for. The two hosts differ in distribution, architecture,
compilers and versions; the five matrices leave open, name or force each axis in turn (see `MCParts`).
In `MCRows`, `Requests = {1, 2}` are an admitted request and one that passes it, two `Tokens` are one that
works and one that is revoked, `Memberships` gives two different roles, and what administrators ask for is
`Work`. `MaxMatrices = 2` is a recipe and a snapshot; `Routes` has one web request, which the API, webhook
and commands pass.

Symmetry is used in `safety`, `races`, `hits`, `parts` and `rows`, none of which checks liveness.
`CHECK_DEADLOCK FALSE` stands where a component really stops: lines, pushes, events and restarts are used up
(`progress`, `parts`), or the tables of `rows` are full. `MCDispatch`, `MCDispatchTx` and `MCRollup` cannot
deadlock: a sweep, or an edit of an expectation, is always possible.

Fairness. `ReaperSpec` assumes that the sweep recurs (`_reaper_loop` catches every exception), that
a dead worker's heartbeat goes stale and a run grows old. `FairSpec` of `Dispatch` adds, for each process,
that it is restarted (`Restart=always` in the rendered units), sends its heartbeats, finishes and reports
its job and says goodbye, each weakly fair, as they stay possible until done; the poll for a job is
strongly fair, because a reaper sweep or a competing worker may disable it between two polls, and it
is tried again every few seconds. Nothing is assumed of users, admins or late requests. `EveryRunEnds`
holds without lost requests and quick restarts and fails with them, which is what `orphan` shows; so
`recovery` leaves out `prompt` and `timeout`. It is checked under `ReaperSpec` and carries its premises
itself: `AgentsGoOn`, and `FleetSettles`, that admins do not change for ever who can serve a run (an
admin who disables and enables a worker in turn can starve a run past every sweep).

In `Rollup`, `FairSpec` assumes of each run that a queued one is claimed and a running one reported on,
weakly: that is what `EveryRunEnds` of `Dispatch` gives. The reaper, users and the CLI are not assumed
to do anything, and `server` has no local execution, as nothing ends a run whose CLI was killed.

In `progress` the heartbeat is sent, arrives and is answered (weakly fair: the thread's loop survives every
exception), though it may fail `MaxLost` times; a process goes on with its job (`JobSteps`, weakly), and
gets a lock that is released again and again (`LockSteps`, strongly: `flock` blocks, and the kernel wakes
those who wait in turn); GitHub runs a workflow that was dispatched (`FetchNotes`, weakly). Nothing is
assumed of results, webhooks, retirements or edits of rules. Each is guarded by `part`, so that it
demands nothing of a behaviour of another component.

## Findings

A behaviour of the code that a doc, a comment or a page of the repository rules out; `PROJECT.json` quotes
the lines. Each has a configuration that shows it: `orphan` is one of the runs, the others are kept beside
them and are not part of the list of runs. TLC stops at the first property that is violated: of a
configuration with several, comment out those that were seen.

| Configuration | Property | What happens |
|---|---|---|
| `MCDispatch_orphan` | `OrphanedRunsRecover` | A worker that dies mid-run and is back within the heartbeat timeout keeps the run `running` for ever. A lost poll reply and a report that is given up end the same way. |
| `MCDispatch_staleresult` | `StaleResultsAreDropped` | Ownership is per worker, not per attempt: a late result is taken for the next attempt of the same worker. |
| `MCDispatch_shutdown` | `ShutdownFinishesTheJob` | The stop ends the heartbeats at once; a job longer than the heartbeat timeout is reclaimed while it is being finished. |
| `MCDispatchTx_left` | `RunningRunsAreLeftToFinish` | A web cancel that read `queued` overwrites a claim. |
| `MCDispatchTx_ownerless` | `RunningRunsHaveAWorker` | A web deletion of a worker clears the owner of a run that was claimed meanwhile. |
| `MCRollup_cancel` | `CompletedWhenDone` | Cancelling one run does not refresh its matrix run, which stays incomplete for ever. |
| `MCRollup_pinned` | `HitsBuiltTheSame` | A run of a branch is stored under the commit at submission and may have built another one; who asks for that commit, by name or through the branch, is answered by it. |
| `MCProgress_refill` | `NeverResent` | A heartbeat whose reply is lost is sent again, and the store has its lines twice. |
| `MCProgress_refill` | `RefilledAfterRestart` | After a coordinator restart only new lines are shipped. |
| `MCProgress_evicted` | `TreesOutliveTheirJobs` | A tree is evicted between the installation and the run of a job. |
| `MCProgress_sharedtree` | `OneJobInATree` | The name of a lock file is removed after the lock is released: two jobs hold "the" lock of one tree. |
| `MCProgress_pending` | `StatusIsResolved` | Cached, cancelled and retired runs leave a commit pending. |
| `MCParts_buffers` | `FinishedRunsHaveNoBuffer` | The last flush makes the buffer of a finished run anew. |
| `MCParts_buffers` | `OnePosterAtATime` | `stop` joins the thread for 5 s, a post takes up to 10 s: two post on one session. |
| `MCParts_buffers` | `OutputInOrder` | A batch that was given up arrives after later ones; the batch of `stop` overtakes that of the thread. |
| `MCParts_failures` | `FailuresAreOfTests` | An infrastructure step that exits with a code is FAIL, not ERROR. |
| `MCParts_failures` | `WorktreesAreRemoved` | A return between the worktree and the stages leaves it. |
| `MCParts_skipped` | `SkippedWhenCurrent` | A base that is retagged between its id and the bake leaves an image under the wrong label, over which later bakes are skipped. |
| `MCParts_skipped` | `NoOlderThanItsLabel` | A slow build of an older head retags the base last, and the runner is baked from it under the newer label. |
| `MCParts_schedulable` | `DescribedIsExpanded` | A page announces one test for each mode of a kind that forces its mode; one job is made. |
| `MCParts_schedulable` | `PinnedIsSchedulable` | Axes picked from the union of the fleet's tags may suit no one worker. |
| `MCRows_roles` | `AdminRolesStick` | A login overwrites, and leaves locked, the role that an administrator has just set. |
| `MCRows_twins` | `OneSnapshotPerContent` | Two rows of one content, after which a recipe of that content cannot be resolved. |
| `MCRows_reused` | `ReusedForItsContent` | `matrix create --replace` leaves the hash: a recipe is resolved to other content. |
| `MCRows_recipes` | `ResolvedMeansPinned` | Matrices of the API and of commands are `is_resolved` whatever they leave open. |

The same modules show more, which is described here only:

- *Goodbye without reclaim.* The goodbye marks a worker offline without reclaiming, and the reaper looks
  only at workers that are not offline: with faults `timeout` and `signal` a worker is offline and
  `RunningOn(run, w)` is not empty (doc/workers.md:37).
- *Repeated result.* A repeated result decrements the job count again (web/api.py:865), so a worker gets
  more runs than its concurrency until the next heartbeat; it takes three runs and fault `timeout`.
- *Late heartbeat.* The goodbye waits 5 s for a heartbeat that may take longer (worker.py:195), and that
  is handled after it puts the stopped worker online.
- *Release-ready too early.* `opp_ci run-matrix` adds the cells one by one (cli.py:2268), and the stored
  verdict is that of the cells so far: `rollup[m].verdict` is EXPECTED while `local[m].todo` is not empty
  (doc/data_model.md:339).
- *Outcome under a frozen verdict.* A later report replaces the outcome but not the verdict (web/api.py:835):
  `VerdictsAreTrue` fails with "stale results".
- *Literal refs hit.* An unresolved ref does hit the cache after the branch moved, against fingerprint.py:19:
  `HitsBuiltTheSame` fails with "literal refs".
- *Neighbours.* `_reap_leaked_containers` is "Safe to run at startup" (worker.py:216) only where no second
  worker of the user runs jobs: fault `neighbour` of `Executor` removes their containers.
- *A failed removal.* executor.py:1838 "a failed remove must not mask the run's result": a remove that raises
  does.
- *Two sweeps.* `_gc_workspaces` sorts by a time it reads again, and a directory that another sweep removes in
  between is a `FileNotFoundError` that nothing catches.
- *No administrator left.* web/app.py:3248 guards one way to it; an administrator may demote the own account,
  the API disables any, and two who disable each other at once both succeed.
- *Back after logout.* A response that is late writes the session cookie of a browser that logged out in
  between.
- *Locked for good.* "Local accounts always have role_locked=True" (db/models.py) no longer holds after an
  unlock in the web pages.
- *A lost edit of tags.* `worker update` of a remote worker reads and writes back in two requests.

## Proofs

TLAPS proves the following for all values of the constants, from the named assumptions of each module
and, where a theorem names them, from further hypotheses. Every invariant and every action property that a
passing run checks is the subject of a theorem; the instances below bound the liveness properties only.

`Dispatch_proofs` proves `Spec => []P` for `P` each of `TypeOK`, `OwnedWhileClaimed`, `AttemptBudget`,
`OneExecutor` and `ResultMatchesLifecycle`, for any sets of runs and workers and any faults, from
`ConstantsAssumption` alone (ids of runs are naturals, the set of runs is finite, `NoWorker` and
`NoRun` are neither, the limits are naturals).

None of the properties is inductive alone. `DispatchInv` adds what ties the columns of a row together
(`RowOK`: for example a queued run has spent exactly one reclaim per attempt, so the next attempt is
within the budget), that owners are registered, and that no process and no late request is ahead of
the row (`JobsHanded`: the attempt it carries was handed out), without which a result could bring an
attempt that never was. The proof that a step preserves it
splits it into what a step does to the tables (`TablesStep`) and what it does to the processes and
late requests (`JobsStep`); `StepLemma` puts the halves together, one lemma per handler proves the
first half once for the request in time and the late one, and one lemma per kind of process step the
second.

The refinement, `Spec => RunsLiveAsPromised`: a request's authentication
may take a run back before its handler gives it out again or finishes it, so the proof follows each
row through both: `TakenBack` is what a reclaim makes of a row, `Lived` a step of `RunLife`, and
every transaction is shown to be `Lived` for every row. `DispatchInv` supplies that a run in the queue
is within its budget and that a result of a run that is not running repeats one that finished it.
`Spec => []NoPhantomLoad` is inductive relative to `DispatchInv`:
authentication leaves what the *other* workers run alone, the claim adds one run and one to the count,
the result takes at most one from each, and a full worker is the only busy one.

`DispatchTx_proofs` proves `AttemptsWithinBudget` and `OnlyAReclaimRevives` of the overlapping transactions,
for any window. `DispatchInv` is no help: rows that were merged column by column may have an owner and be
queued, or be finished without a result. `TxInv` keeps of it only the account of attempts, twice: for the row
as it is (`RowBudget`), and for the row as an open transaction has it loaded (`LoadBudget`: what that
transaction will write as reclaims pays for all attempts but one). A step of the event loop keeps both for any
number of free attempts (`LoopRow`), which lets one lemma serve every handler; a commit makes the second the
first. That no process reports on `NoRun` is inductive on its own (`JobsNamed`).

`Rollup_proofs` proves `TypeOK`, `RollupIsCurrent`, `GradedExactlyWhenEnded` and `VerdictsAreFrozen`, for any
jobs, tests, matrix runs, expectations, reclaims, pushes and `Uses`; `VerdictsAreTrue` where no worker reports
on an attempt it had lost (`"stale results"`: with it the property fails, see Findings); and the refinement,
`Spec => MatrixRunsAsPromised`, for the matrix runs that the coordinator executes (`"cancel run"` and
`"local matrix"` excluded). From `ConstantsAssumption` alone, and those two hypotheses on `Uses`.

That a verdict is recorded and its roll-up counts it is the work of one transaction that visits the cells of
the run which ended; that it missed none needs `BookInv`: a cell that is not graded is on the run of its own
name, so whoever else shares that run is graded already (`UngradedIsOwn`); the cache answers with runs that
have ended only (`CacheHasEnded`), so a cell born as a hit is born graded; and a job which `opp_ci run-matrix`
has yet to reach has neither cell nor run (`TodoHasNoCell`, `NoCellNoRun`). A roll-up depends on nothing but
the cells of its matrix run and the runs under them (`TallyFrame`), hence stays current through every step that
leaves those alone; `completed` may lag only where a user cancels a single run (`Current`). One lemma covers
every end of a run (`FinalizeStep`), one the steps which end none (`QuietStep`), one submission
(`EnqueueStep`). The refinement follows from `OrderlyStep`: which steps may answer a cell, and how.

`HitsAreOfTheirCommit` is proved for any `Uses`: whatever jobs name, and wherever the branch moves. `HitInv`
says of every row that what it built is the commit of its fingerprint if it names that commit, or if it
names the branch and the branch has not moved while the run was waiting or running; and that a run of the
branch that still waits, and was not moved over, waits for the branch's present head, so that an attempt
which starts now builds it (`TrueToPrint`). A push may falsify that only for the runs that it puts into
`moved`. The cache answers with finished runs of the fingerprint that is asked for (`CacheIsExact`), so what
holds of the row holds of the hit. What the hypothesis on `moved` leaves out is the finding
`HitsBuiltTheSame`.

`Output_proofs`. `NothingSlipsThrough` and `OncePerFailure` of the log, for rings, batches and numbers of
failures of any size. The invariant says of the batch under way what it is not in the code's power to see:
whether the coordinator has stored it (`BatchOK`), and that a line below the watermark, or in a batch that
was stored, has one copy more than failures account for (`Excess`). A heartbeat that fails moves that copy
to the failures' account; the watermark moves it to the lines that are passed.

`OnlyAstrayLinesAreLate` of the live output, for batches and failures of any number and with posts of any
length. The invariant orders the lines by where they are (`OrderInv`): those that arrived and those under
way are apart, each line is in one place, and those of the queue come after all others; a line that is
behind a later one, arrived or still to arrive, is in `astray`, where `GivesUp` and `Stop` put it. That all
lines come in order is what the code's docstrings say and the finding `OutputInOrder` refutes.
`LiveViewIsTheTree` speaks of the time until the result, which drops the buffer, and only the thread posts
by then. The invariant is that what the buffer *will* be, once the batches on their way and the queue are
applied to it, has the recorder's stages (`Following`). It rests on laws of the fold that applies a batch:
`ApplyAll` of two batches joined is that of one after the other.

`Executor_proofs`. `ResultIsWhatTheStagesSay` and `NothingIsLeftSilently`, for every job, however its
commands end. `ExecInv` goes along the places of the code: before anything went wrong every recorded stage
passed and no verdict stands; while stages are executed, the one that makes a pass of the job is recorded or
still to come (`GoalAhead`); in the clean-up the verdict is there and the tree agrees with it
(`CleanupPending`); what is held belongs to the place (`HeldInPlace`), and what is held after it was told
(`CleanupTold`). `UndisturbedIsCurrent` of the images, for any number of processes and pushes. The invariant
follows a process from its tag to its commit: as long as nobody retagged the base since (`raced`), the tag
is the image that it built, and so are the id it read and what it bakes from; and a cached layer holds what
its install line names. Without that premise the code promises nothing: nothing in it compares ages, and
`NoOlderThanItsLabel` is a finding.

`GitHubStatus_proofs` proves `PendingIsOwed`; what is added is that every run but one of a rule without a
matrix belongs to a matrix run that GitHub knows (`RunsAreLinked`), so that it is told of its end.

`Coordinates_proofs`. The snapshot that is kept was resolved from the recipe that is kept against a finite set
of tags some fleet had (`ResolvedFrom`): what holds of `ResolveMatrix` for every such set holds of the
snapshot, whatever became of the fleet. From it, for any hosts, images, recipes and edits: `TagsFollowTheHost`
and `JobsAreTests` from `CoordAssumption` alone (images and tags given by hand are finite sets of well-formed
tags, detection writes the axes it owns, a matrix names what it gives a version of). The other two need
hypotheses, each of which is where the code would not do:

- `OneHostServes` from `LinuxHasNoVersion`: a required `os:linux` tag carries no version
  (persistence.py:885), so one that a worker advertises with a version is never matched.
- `SnapshotsDoNotMove` from `LinuxIsNamed` (a host that says Linux says its distribution: one whose
  `/etc/os-release` has no `VERSION_ID`, a rolling release say, does not, and a snapshot that picks it
  leaves the distribution open), from `FleetIsVersioned` (a compiler, a distribution, Windows or macOS is
  advertised with its version) and from `OsIsKnown` (a matrix that names only systems `platforms.py` does
  not know loses its platform axis, and its jobs have no platform).

`JobsAreTests` is about the jobs as they are queued, resolved again against any fleet of any time. What a job
names, that resolution keeps, and fills in only what is open (`ResolvedKeeps`); a snapshot names its compiler,
its architecture and its platform (`SnapshotIsNamed`), so two jobs with one coordinate agree in all that both
name (`CoordinatesDiffer`). They *do* become one test if they differ only in the version of the project, if one
names the version of a compiler (`gcc` and `gcc-14`) or of a platform that the other leaves open, or if two refs
were pinned to one commit; the property says that nothing else makes them one.


The picks of the newest version and of the preferred name are maxima of finite sets, and exist because the sets
are finite and not empty.

`Rows_proofs`. `RolesHaveASource` and `LastAdminLeaves`, for any accounts, browsers, requests and
tokens. Accounts are never deleted, and a login that has read an existing account may therefore commit into
it (`ReadsPersist`); every edit of a row leaves it locked, or its role and lock as they were (`Regarded`),
and only a login writes an unlocked role. `RunsArePinned` and `LineageIsTrue`, for any specs and requests: an
invariant over the rows *and* the requests in flight (`FlightsOK`), as what a request has read and is to write
was true when it read it; nothing that it relies on is ever undone, for `had` grows, rows are not deleted and a
row that is resolved is pinned (`TestsOK`).

What a recursive function computes is proved where it is needed (`Along`, `LeastNumber` in `Output_proofs`) by
the shortest batch that would be a counterexample: the library's induction theorems take an operator as a
parameter, which the provers cannot instantiate.

Model-checked only: the liveness properties (`EveryRunEnds`, `DeadWorkerLosesItsRuns`,
`UnserviceableRunsExpire`, `ShutdownIsHonoured`, `EveryMatrixRunCompletes`, `EveryLineSettles`, `EveryJobEnds`,
`NotesFollowTheBatch`), whose fairness and `ENABLED` are out of the prover's reach; and with `EveryJobEnds`
all of `Workspaces`, which promises nothing else. What the findings refute is not proved, of course.

## Not modelled

- In `Dispatch` and `Rollup` a transaction is one step. `DispatchTx` splits the reaper's and the web routes'
  on runs and workers, but not those that recompute a roll-up: two that each see the other's cell open would
  leave `completed_at` unset.
- `Rollup` and `Dispatch` share no module: what `Rollup` assumes of runs (a report only while a worker is
  set, retirement from running or queued, claims of queued runs) is what `Dispatch` does, with the identity
  of workers and the loss of messages left out.
- A coordinator restart in `Dispatch`: both tables are persistent, handlers are single transactions, and the
  sweep at startup is the reaper's; what a restart loses is in `LogShipping`.
- Timestamps, outcome texts, run-filters (abstracted to `serves`). Several updates of a worker in one PATCH
  are one step, and any subset of the fields may change.
- In `LiveOutput`, a reclaimed run that the *same* worker is given again: what the first attempt's streamer
  still posts is then accepted for the second (ownership is by worker, as for results).
- In `Executor`, what commands do and print; project metadata of opp_env. In `GitHubStatus`, patterns of
  rules, signatures, the text of notes. In `Coordinates`, the text and shortcut syntax of a matrix, version
  ranges, dependency entries. In `Access`, CSRF tokens, OAuth state, password hashes. In `RecipeStore`,
  names and the link of a matrix to its recipe.
- Reading of versions and of the project catalog (`dependency.py`, `catalog.py`) and the summary tables
  (`web/rollup.py`) are pure functions on data for display or lookup; `service.py` renders unit files and
  runs `systemctl` or `launchctl` in order; `config.py`, `http.py`, `journal.py` and `db/connection.py` are
  settings and I/O. They keep no state that the modules above could get wrong.

## Plan

1. A proof for `Workspaces` of what `EveryJobEnds` rests on: a lock is held only by a process that is at a step
   which gives it back, and none waits for a second lock while it holds one.
2. The link between `Dispatch` and `Rollup`: that what `Rollup` assumes of a run is a step of `RunLife`.
3. Split transactions of the books: roll-ups recomputed in threads.
4. Pure operators of the summary tables and of dependency resolution, against reference definitions.

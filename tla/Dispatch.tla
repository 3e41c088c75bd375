------------------------------ MODULE Dispatch ------------------------------
(***************************************************************************)
(* The dispatch core of opp_ci: the coordinator's `test_runs` and `workers` *)
(* rows, the endpoints a worker calls, the stale-worker reaper, the run and *)
(* worker administration, and the worker processes themselves, talking to   *)
(* the coordinator over a network that loses, delays and repeats requests.  *)
(*                                                                          *)
(* Each step is one database transaction of the coordinator (together with  *)
(* the reply the worker gets) or one local step of a worker process.  The   *)
(* /api handlers run to completion on the event loop, so they exclude each  *)
(* other; here the reaper and the web routes are atomic too.                *)
(***************************************************************************)
EXTENDS Integers, FiniteSets

CONSTANTS
  Runs,          \* ids of the test runs that may be submitted
  Workers,       \* the workers an admin may register
  NoWorker,      \* TestRun.worker_id is NULL
  NoRun,         \* a worker process that holds no job
  MaxReclaims,   \* OPP_CI_MAX_RECLAIMS
  Concurrencies, \* the values an admin gives Worker.concurrency
  ServeSets,     \* the sets of runs a worker's tags and run-filters let it serve
  ReportTries,   \* attempts at reporting one result (6 in the code)
  MaxLate,       \* bound: requests that outlive the client that sent them
  Faults,        \* what the environment does to processes and requests
  Managed        \* the workers an admin disables, shuts down, edits or deletes

FaultKinds == {"crash",    \* a worker process is killed
               "prompt",   \* ... and back before its heartbeat goes stale
               "signal",   \* a worker process gets a SIGTERM or SIGINT
               "timeout",  \* a request is lost, or outlives its client
               "silence"}  \* a live worker is out of contact past the timeout

ASSUME ConstantsAssumption ==
  /\ Runs \subseteq Nat /\ IsFiniteSet(Runs)
  /\ NoWorker \notin Workers /\ NoRun \notin Runs
  /\ MaxReclaims \in Nat /\ MaxLate \in Nat
  /\ ReportTries \in Nat \ {0}
  /\ Concurrencies \subseteq Nat \ {0}
  /\ ServeSets \subseteq SUBSET Runs
  /\ Faults \subseteq FaultKinds
  /\ Managed \subseteq Workers

VARIABLES
  run,     \* the test_runs table
  worker,  \* the workers table
  agent,   \* the worker processes
  late     \* requests whose client gave up, which the coordinator may yet handle

vars == <<run, worker, agent, late>>

-----------------------------------------------------------------------------
(* Rows, processes and requests. *)

Lifecycles == {"absent", "queued", "running", "finished", "cancelled", "timed_out"}

\* The outcome columns hold nothing, the synthetic ERROR of a retired run, or
\* the outcome of the n-th attempt at the run: a result is abstracted to the
\* attempt that produced it.
NoResult  == 0
Synthetic == -1

\* `old`: created_at is past the queue timeout.  `attempts` is a history
\* variable, the number of times the run was handed to a worker.
RunRow == [lifecycle : Lifecycles, owner : Workers \cup {NoWorker},
           reclaims : Nat, result : Int, attempts : Nat, old : BOOLEAN]

\* `fresh`: last_heartbeat is within the heartbeat timeout.
WorkerRow == [status : {"absent", "offline", "online", "busy", "deleted"},
              enabled : BOOLEAN, fresh : BOOLEAN, shutdown : BOOLEAN,
              count : Nat, concurrency : Concurrencies, serves : ServeSets]

\* `stop`: _running is False and the heartbeat thread has left its loop.
\* "idle" is polling, or asleep between two polls.
Agent == [pc : {"down", "idle", "executing", "reporting", "exiting"},
          run : Runs \cup {NoRun}, attempt : Nat, tries : Nat, stop : BOOLEAN]

Request == [kind : {"poll", "heartbeat", "goodbye", "result"}, worker : Workers,
            run : Runs \cup {NoRun}, attempt : Nat]

TypeOK ==
  /\ run \in [Runs -> RunRow]
  /\ worker \in [Workers -> WorkerRow]
  /\ agent \in [Workers -> Agent]
  /\ late \subseteq Request

AgentDown == [pc |-> "down", run |-> NoRun, attempt |-> 0, tries |-> 0, stop |-> FALSE]

Init ==
  /\ run = [r \in Runs |-> [lifecycle |-> "absent", owner |-> NoWorker, reclaims |-> 0,
                            result |-> NoResult, attempts |-> 0, old |-> FALSE]]
  /\ worker \in [Workers -> {[status |-> "absent", enabled |-> TRUE, fresh |-> FALSE,
                              shutdown |-> FALSE, count |-> 0, concurrency |-> c,
                              serves |-> s] : c \in Concurrencies, s \in ServeSets}]
  /\ agent = [w \in Workers |-> AgentDown]
  /\ late = {}

Registered(w) == worker[w].status \in {"offline", "online", "busy"}

-----------------------------------------------------------------------------
(* Reclaiming and retiring.  The transactions below are written as functions *)
(* from a run table to a run table, so that the authentication of a request  *)
(* and its handler compose.                                                  *)

\* Mutant: the retired run keeps its worker.
RetireRowKeepsOwner(row) == [row EXCEPT !.lifecycle = "timed_out", !.result = Synthetic]

RetireRow(row) == [row EXCEPT !.lifecycle = "timed_out", !.owner = NoWorker,
                              !.result = Synthetic]

\* Mutant: one reclaim too many before the run is retired.
ReclaimRowOnceMore(row) ==
  LET counted == [row EXCEPT !.reclaims = @ + 1]
  IN  IF counted.reclaims > MaxReclaims + 1
      THEN RetireRow(counted)
      ELSE [counted EXCEPT !.lifecycle = "queued", !.owner = NoWorker]

ReclaimRow(row) ==
  LET counted == [row EXCEPT !.reclaims = @ + 1]
  IN  IF counted.reclaims > MaxReclaims
      THEN RetireRow(counted)
      ELSE [counted EXCEPT !.lifecycle = "queued", !.owner = NoWorker]

RunningOn(R, w) == {r \in Runs : R[r].lifecycle = "running" /\ R[r].owner = w}

\* Every run left running on one of the workers W is requeued or retired.
Reclaim(R, W) ==
  [r \in Runs |-> IF R[r].lifecycle = "running" /\ R[r].owner \in W
                  THEN ReclaimRow(R[r]) ELSE R[r]]

Serviceable(r) == \E w \in Workers : /\ Registered(w) /\ worker[w].enabled
                                     /\ r \in worker[w].serves

\* Mutant: a run waits as long as any worker is registered.
ExpireUnregistered(R) ==
  [r \in Runs |-> IF R[r].lifecycle = "queued" /\ R[r].old /\ \A w \in Workers : ~Registered(w)
                  THEN RetireRow(R[r]) ELSE R[r]]

ExpireUnserviceable(R) ==
  [r \in Runs |-> IF R[r].lifecycle = "queued" /\ R[r].old /\ ~Serviceable(r)
                  THEN RetireRow(R[r]) ELSE R[r]]

-----------------------------------------------------------------------------
(* Authenticating a request of worker w.  A contact from a worker marked      *)
(* offline brings it back online and reclaims what it had left running.       *)

AuthRun(w) == IF worker[w].status = "offline" THEN Reclaim(run, {w}) ELSE run

AuthWorker(w) ==
  IF worker[w].status = "offline"
  THEN [worker[w] EXCEPT !.fresh = TRUE, !.status = "online", !.count = 0]
  ELSE [worker[w] EXCEPT !.fresh = TRUE]

\* A request whose handler leaves the two tables alone (a snapshot, live
\* output, a poll that is refused), or one that is dropped.
Contact(w) ==
  /\ run' = AuthRun(w)
  /\ worker' = [worker EXCEPT ![w] = AuthWorker(w)]

-----------------------------------------------------------------------------
(* The worker endpoints. *)

IsAvailable(row) == row.enabled /\ row.status = "online" /\ row.count < row.concurrency

\* The run a poll of w is given: the oldest queued run it can serve.
ClaimableBy(w) ==
  {r \in Runs : /\ ~AuthWorker(w).shutdown /\ IsAvailable(AuthWorker(w))
                /\ AuthRun(w)[r].lifecycle = "queued" /\ r \in worker[w].serves}

Oldest(S) == {r \in S : \A s \in S : r <= s}

\* Mutant: the claim does not write worker_id.
ClaimRowUnowned(row, w) == [row EXCEPT !.lifecycle = "running", !.attempts = @ + 1]

ClaimRow(row, w) == [row EXCEPT !.lifecycle = "running", !.owner = w, !.attempts = @ + 1]

Busier(row) ==
  [row EXCEPT !.count = @ + 1,
              !.status = IF row.count + 1 >= row.concurrency THEN "busy" ELSE @]

Claim(w, r) ==
  /\ run' = [AuthRun(w) EXCEPT ![r] = ClaimRow(@, w)]
  /\ worker' = [worker EXCEPT ![w] = Busier(AuthWorker(w))]

\* The job count is reconciled with the rows that say `running`.
Reconciled(row, actual) ==
  IF row.count = actual THEN row
  ELSE [row EXCEPT !.count = actual,
                   !.status = IF actual >= row.concurrency THEN "busy" ELSE "online"]

HandleHeartbeat(w) ==
  LET R == AuthRun(w)
  IN  /\ run' = R
      /\ worker' = [worker EXCEPT
           ![w] = Reconciled(AuthWorker(w), Cardinality(RunningOn(R, w)))]

\* The goodbye marks the worker offline; it does not reclaim.
HandleGoodbye(w) ==
  /\ run' = AuthRun(w)
  /\ worker' = [worker EXCEPT ![w] =
       [AuthWorker(w) EXCEPT !.status = "offline", !.count = 0, !.fresh = FALSE]]

\* Mutants: the count is not kept above zero; a full worker stays busy.
FreedBelowZero(row) ==
  LET n == row.count - 1
  IN  [row EXCEPT !.count = n,
                  !.status = IF @ = "busy" /\ n < row.concurrency THEN "online" ELSE @]

FreedStaysBusy(row) == [row EXCEPT !.count = IF @ > 0 THEN @ - 1 ELSE 0]

Freed(row) ==
  LET n == IF row.count > 0 THEN row.count - 1 ELSE 0
  IN  [row EXCEPT !.count = n,
                  !.status = IF @ = "busy" /\ n < row.concurrency THEN "online" ELSE @]

FinishRow(row, n) ==
  [row EXCEPT !.lifecycle = IF @ = "cancelled" THEN @ ELSE "finished", !.result = n]

\* Mutant: the result is taken from whoever reports it.
HandleResultFromAnyone(w, r, n) ==
  /\ run' = [AuthRun(w) EXCEPT ![r] = FinishRow(@, n)]
  /\ worker' = [worker EXCEPT ![w] = Freed(AuthWorker(w))]

\* The outcome of attempt n at run r, from w: dropped unless w owns the run.
HandleResult(w, r, n) ==
  LET R == AuthRun(w)
  IN  IF R[r].owner # w
      THEN Contact(w)
      ELSE /\ run' = [R EXCEPT ![r] = FinishRow(@, n)]
           /\ worker' = [worker EXCEPT ![w] = Freed(AuthWorker(w))]

-----------------------------------------------------------------------------
(* The worker process: a main loop that polls, executes and reports one job  *)
(* at a time, and a heartbeat thread.  A request whose reply does not come   *)
(* back is one the client gives up on: it may have been lost, or be handled  *)
(* later, when it is in `late`.                                              *)

Sent(kind, w) == [kind |-> kind, worker |-> w, run |-> agent[w].run,
                  attempt |-> agent[w].attempt]

GiveUpOn(m) ==
  /\ "timeout" \in Faults
  /\ \/ late' = late
     \/ late' = late \cup {m} /\ Cardinality(late) < MaxLate

\* Mutant: the pending shutdown request survives the restart.
FetchConfigStillPending(w) ==
  /\ agent[w].pc = "down" /\ Registered(w)
  /\ "prompt" \in Faults \/ worker[w].status = "offline"
  /\ Contact(w)
  /\ agent' = [agent EXCEPT ![w].pc = "idle"]
  /\ UNCHANGED late

\* Startup: /workers/me clears a shutdown request that is still pending.  A
\* process that does not get the reply exits: that is this step and a Crash.
FetchConfig(w) ==
  /\ agent[w].pc = "down" /\ Registered(w)
  /\ "prompt" \in Faults \/ worker[w].status = "offline"
  /\ run' = AuthRun(w)
  /\ worker' = [worker EXCEPT ![w] = [AuthWorker(w) EXCEPT !.shutdown = FALSE]]
  /\ agent' = [agent EXCEPT ![w].pc = "idle"]
  /\ UNCHANGED late

\* A poll that is in flight when the process is told to stop still gets a job.
PollJob(w) ==
  /\ agent[w].pc = "idle" /\ Registered(w)
  /\ \E r \in Oldest(ClaimableBy(w)) :
       /\ Claim(w, r)
       /\ agent' = [agent EXCEPT ![w].pc = "executing", ![w].run = r,
                                 ![w].attempt = run[r].attempts + 1]
  /\ UNCHANGED late

PollNothing(w) ==
  /\ agent[w].pc = "idle" /\ Registered(w) /\ ClaimableBy(w) = {}
  /\ Contact(w)
  /\ agent' = IF worker[w].shutdown
              THEN [agent EXCEPT ![w].stop = TRUE, ![w].pc = "exiting"]
              ELSE agent
  /\ UNCHANGED late

PollTimeout(w) ==
  /\ agent[w].pc = "idle"
  /\ GiveUpOn(Sent("poll", w))
  /\ agent' = [agent EXCEPT ![w].pc = IF agent[w].stop THEN "exiting" ELSE "idle"]
  /\ UNCHANGED <<run, worker>>

Heartbeat(w) ==
  /\ agent[w].pc # "down" /\ ~agent[w].stop /\ Registered(w)
  /\ HandleHeartbeat(w)
  /\ agent' = [agent EXCEPT ![w].stop = worker[w].shutdown]
  /\ UNCHANGED late

HeartbeatTimeout(w) ==
  /\ agent[w].pc # "down" /\ ~agent[w].stop
  /\ GiveUpOn([Sent("heartbeat", w) EXCEPT !.run = NoRun, !.attempt = 0])
  /\ UNCHANGED <<run, worker, agent>>

\* The snapshot at the start of a job, and its output as it comes.
ReportProgress(w) ==
  /\ agent[w].pc = "executing" /\ Registered(w)
  /\ Contact(w)
  /\ UNCHANGED <<agent, late>>

FinishJob(w) ==
  /\ agent[w].pc = "executing"
  /\ agent' = [agent EXCEPT ![w].pc = "reporting"]
  /\ UNCHANGED <<run, worker, late>>

\* Back to the loop, which ends if the process was told to stop.
JobDone(a) == [AgentDown EXCEPT !.pc = IF a.stop THEN "exiting" ELSE "idle", !.stop = a.stop]

\* A deleted worker's token is refused: 401, which is not retried.
ReportResult(w) ==
  /\ agent[w].pc = "reporting"
  /\ IF Registered(w)
     THEN HandleResult(w, agent[w].run, agent[w].attempt)
     ELSE UNCHANGED <<run, worker>>
  /\ agent' = [agent EXCEPT ![w] = JobDone(@)]
  /\ UNCHANGED late

ReportTimeout(w) ==
  /\ agent[w].pc = "reporting"
  /\ GiveUpOn(Sent("result", w))
  /\ agent' = IF agent[w].tries + 1 < ReportTries
              THEN [agent EXCEPT ![w].tries = @ + 1]
              ELSE [agent EXCEPT ![w] = JobDone(@)]
  /\ UNCHANGED <<run, worker>>

Stopping(w) == agent[w].pc = "exiting" \/ (agent[w].pc = "idle" /\ agent[w].stop)

SayGoodbye(w) ==
  /\ Stopping(w)
  /\ IF Registered(w) THEN HandleGoodbye(w) ELSE UNCHANGED <<run, worker>>
  /\ agent' = [agent EXCEPT ![w] = AgentDown]
  /\ UNCHANGED late

GoodbyeTimeout(w) ==
  /\ Stopping(w)
  /\ GiveUpOn(Sent("goodbye", w))
  /\ agent' = [agent EXCEPT ![w] = AgentDown]
  /\ UNCHANGED <<run, worker>>

Signal(w) ==
  /\ "signal" \in Faults /\ agent[w].pc # "down" /\ ~agent[w].stop
  /\ agent' = [agent EXCEPT ![w].stop = TRUE]
  /\ UNCHANGED <<run, worker, late>>

Crash(w) ==
  /\ "crash" \in Faults /\ agent[w].pc # "down"
  /\ agent' = [agent EXCEPT ![w] = AgentDown]
  /\ UNCHANGED <<run, worker, late>>

\* A request its client no longer waits for reaches the coordinator: the
\* handler runs, and nobody reads the reply.
LateArrives(m) ==
  LET w == m.worker
  IN  /\ m \in late /\ Registered(w)
      /\ late' = late \ {m}
      /\ \/ /\ m.kind = "poll"
            /\ \/ \E r \in Oldest(ClaimableBy(w)) : Claim(w, r)
               \/ ClaimableBy(w) = {} /\ Contact(w)
         \/ m.kind = "heartbeat" /\ HandleHeartbeat(w)
         \/ m.kind = "goodbye" /\ HandleGoodbye(w)
         \/ m.kind = "result" /\ HandleResult(w, m.run, m.attempt)
      /\ UNCHANGED agent

-----------------------------------------------------------------------------
(* The passing of time, and the reaper's sweep. *)

\* last_heartbeat falls behind: the process is down, its heartbeat thread has
\* ended, or it is out of contact.
HeartbeatLapses(w) ==
  /\ worker[w].fresh
  /\ agent[w].pc = "down" \/ agent[w].stop \/ "silence" \in Faults
  /\ worker' = [worker EXCEPT ![w].fresh = FALSE]
  /\ UNCHANGED <<run, agent, late>>

RunAges(r) ==
  /\ run[r].lifecycle \in {"queued", "running"} /\ ~run[r].old
  /\ run' = [run EXCEPT ![r].old = TRUE]
  /\ UNCHANGED <<worker, agent, late>>

\* Mutant: a busy worker is not looked at.
StaleIdle == {w \in Workers : worker[w].status = "online" /\ ~worker[w].fresh}

Stale == {w \in Workers : worker[w].status \in {"online", "busy"} /\ ~worker[w].fresh}

\* Mutant: the worker is marked offline, its runs are left to it.
ReapWithoutReclaim ==
  /\ run' = ExpireUnserviceable(run)
  /\ worker' = [w \in Workers |-> IF w \in Stale
                  THEN [worker[w] EXCEPT !.status = "offline", !.count = 0]
                  ELSE worker[w]]
  /\ UNCHANGED <<agent, late>>

Reap ==
  /\ run' = ExpireUnserviceable(Reclaim(run, Stale))
  /\ worker' = [w \in Workers |-> IF w \in Stale
                  THEN [worker[w] EXCEPT !.status = "offline", !.count = 0]
                  ELSE worker[w]]
  /\ UNCHANGED <<agent, late>>

-----------------------------------------------------------------------------
(* Users and admins. *)

Submit(r) ==
  /\ run[r].lifecycle = "absent"
  /\ \A s \in Runs : s < r => run[s].lifecycle # "absent"
  /\ run' = [run EXCEPT ![r].lifecycle = "queued"]
  /\ UNCHANGED <<worker, agent, late>>

\* Mutant: a run is cancelled under the worker that executes it.
CancelUnfinished(r) ==
  /\ run[r].lifecycle \in {"queued", "running"}
  /\ run' = [run EXCEPT ![r].lifecycle = "cancelled"]
  /\ UNCHANGED <<worker, agent, late>>

CancelRun(r) ==
  /\ run[r].lifecycle = "queued"
  /\ run' = [run EXCEPT ![r].lifecycle = "cancelled"]
  /\ UNCHANGED <<worker, agent, late>>

Register(w) ==
  /\ worker[w].status = "absent"
  /\ worker' = [worker EXCEPT ![w].status = "offline", ![w].count = 0]
  /\ UNCHANGED <<run, agent, late>>

UpdateWorker(w) ==
  /\ w \in Managed /\ Registered(w)
  /\ \E b \in BOOLEAN, c \in Concurrencies, s \in ServeSets :
       worker' = [worker EXCEPT ![w].enabled = b, ![w].concurrency = c, ![w].serves = s]
  /\ UNCHANGED <<run, agent, late>>

RequestShutdown(w) ==
  /\ w \in Managed /\ Registered(w)
  /\ worker' = [worker EXCEPT ![w].shutdown = TRUE]
  /\ UNCHANGED <<run, agent, late>>

\* Mutant: the foreign key is cleared and nothing else.
DeleteWorkerOnly(w) ==
  /\ w \in Managed /\ Registered(w)
  /\ run' = [r \in Runs |-> IF run[r].owner = w THEN [run[r] EXCEPT !.owner = NoWorker]
                                               ELSE run[r]]
  /\ worker' = [worker EXCEPT ![w].status = "deleted"]
  /\ UNCHANGED <<agent, late>>

\* The runs it still owns are reclaimed, and finished ones lose their worker.
DeleteWorker(w) ==
  /\ w \in Managed /\ Registered(w)
  /\ run' = [r \in Runs |->
       LET row == Reclaim(run, {w})[r]
       IN  IF row.owner = w THEN [row EXCEPT !.owner = NoWorker] ELSE row]
  /\ worker' = [worker EXCEPT ![w].status = "deleted"]
  /\ UNCHANGED <<agent, late>>

-----------------------------------------------------------------------------
AgentStep(w) ==
  \/ FetchConfig(w) \/ PollJob(w) \/ PollNothing(w) \/ PollTimeout(w)
  \/ Heartbeat(w) \/ HeartbeatTimeout(w) \/ ReportProgress(w)
  \/ FinishJob(w) \/ ReportResult(w) \/ ReportTimeout(w)
  \/ SayGoodbye(w) \/ GoodbyeTimeout(w)

AdminStep ==
  \/ \E r \in Runs : Submit(r) \/ CancelRun(r)
  \/ \E w \in Workers : \/ Register(w) \/ UpdateWorker(w) \/ RequestShutdown(w)
                       \/ DeleteWorker(w)

Next ==
  \/ \E w \in Workers : AgentStep(w) \/ Signal(w) \/ Crash(w) \/ HeartbeatLapses(w)
  \/ \E m \in late : LateArrives(m)
  \/ \E r \in Runs : RunAges(r)
  \/ Reap
  \/ AdminStep

Spec == Init /\ [][Next]_vars

-----------------------------------------------------------------------------
(* Safety. *)

\* A run is owned by a worker that is still registered exactly as long as an
\* attempt at it is under way; going back to the queue, being retired or being
\* cancelled leaves no owner behind (a stale owner would let its late result in).
OwnedWhileClaimed ==
  \A r \in Runs :
    /\ run[r].lifecycle = "running" => run[r].owner \in Workers /\ Registered(run[r].owner)
    /\ run[r].lifecycle \notin {"running", "finished"} => run[r].owner = NoWorker

\* A run is handed out at most MAX_RECLAIMS + 1 times, however workers crash,
\* return, are deleted or have their requests repeated: each attempt but the
\* last was paid for with one reclaim.
AttemptBudget ==
  \A r \in Runs :
    /\ run[r].attempts <= MaxReclaims + 1
    /\ run[r].lifecycle = "queued" => run[r].attempts = run[r].reclaims
    /\ run[r].lifecycle \in {"running", "finished"} => run[r].attempts = run[r].reclaims + 1

\* The job count never exceeds the runs that are really running on the worker,
\* so a worker is never refused work for jobs it does not have.
NoPhantomLoad ==
  \A w \in Workers : Registered(w) =>
    /\ worker[w].count <= Cardinality(RunningOn(run, w))
    /\ worker[w].status = "busy" => RunningOn(run, w) # {}

\* No two processes hold the same attempt at a run, and while the current
\* attempt is running it is in the hands of nobody but the run's owner.
OneExecutor ==
  \A v, w \in Workers :
    agent[w].run # NoRun =>
      /\ (v # w /\ agent[v].run = agent[w].run) => agent[v].attempt # agent[w].attempt
      /\ LET r == run[agent[w].run]
         IN  r.lifecycle = "running" /\ r.attempts = agent[w].attempt => r.owner = w

\* A finished run carries the outcome of one of its attempts, a retired one the
\* synthetic ERROR, and a run that was cancelled or is yet to finish carries none.
ResultMatchesLifecycle ==
  \A r \in Runs :
    CASE run[r].lifecycle = "finished"  -> run[r].result \in 1..run[r].attempts
      [] run[r].lifecycle = "timed_out" -> run[r].result = Synthetic
      [] OTHER                          -> run[r].result = NoResult

-----------------------------------------------------------------------------
(* The inductive invariant behind the safety properties. *)

\* What the columns of a test_runs row say together, whoever wrote them last:
\* every attempt but the one under way or reported was paid for by a reclaim.
RowOK(row) ==
  /\ row.attempts <= MaxReclaims + 1
  /\ row.lifecycle = "absent" => row.attempts = 0 /\ row.reclaims = 0
  /\ row.lifecycle = "queued" => row.attempts = row.reclaims /\ row.reclaims <= MaxReclaims
  /\ row.lifecycle \in {"running", "finished"} => row.attempts = row.reclaims + 1
  /\ row.lifecycle = "running" => row.owner \in Workers
  /\ row.lifecycle \notin {"running", "finished"} => row.owner = NoWorker
  /\ row.lifecycle = "finished" => 0 < row.result /\ row.result <= row.attempts
  /\ row.lifecycle = "timed_out" => row.result = Synthetic
  /\ row.lifecycle \notin {"finished", "timed_out"} => row.result = NoResult

OwnersRegistered ==
  \A r \in Runs : run[r].lifecycle = "running" => Registered(run[r].owner)

\* An attempt in the hands of a process, or in a result under way, was handed out.
Handed(job) == job.run # NoRun => 0 < job.attempt /\ job.attempt <= run[job.run].attempts

JobsHanded ==
  /\ \A w \in Workers : Handed(agent[w])
  /\ \A w \in Workers : agent[w].run # NoRun <=> agent[w].pc \in {"executing", "reporting"}
  /\ \A m \in late : Handed(m) /\ (m.kind = "result" => m.run # NoRun)

\* The safety properties and what they need to be inductive: the columns of a
\* row belong together, and no process or late request is ahead of them.
DispatchInv ==
  /\ TypeOK
  /\ \A r \in Runs : RowOK(run[r])
  /\ OwnersRegistered
  /\ JobsHanded
  /\ OneExecutor

-----------------------------------------------------------------------------
(* The runs live the life RunLife promises. *)

Life == INSTANCE RunLife WITH
          Budget <- MaxReclaims + 1,
          phase <- [r \in Runs |-> run[r].lifecycle],
          attempts <- [r \in Runs |-> run[r].attempts]

\* Every step of the coordinator and the workers moves the runs along their
\* promised lives: an ended run never changes again, only a queued one can be
\* cancelled, and no lost, late or repeated request buys a run more than its
\* attempts.
RunsLiveAsPromised == Life!LifeSafety

-----------------------------------------------------------------------------
(* Liveness.  The reaper sweeps for ever, and time passes: the heartbeat of a *)
(* dead worker goes stale and a queued run grows old.  ReaperSpec assumes no   *)
(* more than that.  AgentsGoOn says that a process that is up gets on with what it *)
(* does, its service manager brings it back when it is down, and of its polls  *)
(* those that could get it a job are not refused for ever.  Nothing is assumed *)
(* of users and admins, and nothing of late requests.                          *)

DeadLapses(w) == agent[w].pc = "down" /\ HeartbeatLapses(w)

ReaperFairness ==
  /\ WF_vars(Reap)
  /\ \A r \in Runs : WF_vars(RunAges(r))
  /\ \A w \in Workers : WF_vars(DeadLapses(w))

AgentFairness(w) ==
  /\ WF_vars(FetchConfig(w)) /\ WF_vars(Heartbeat(w)) /\ SF_vars(PollJob(w))
  /\ WF_vars(FinishJob(w)) /\ WF_vars(ReportResult(w)) /\ WF_vars(SayGoodbye(w))

ReaperSpec == Spec /\ ReaperFairness

AgentsGoOn == \A w \in Workers : AgentFairness(w)

FairSpec == ReaperSpec /\ AgentsGoOn

\* Admins stop changing whether a run can be served at all.
FleetSettles == \A r \in Runs : <>[]Serviceable(r) \/ <>[]~Serviceable(r)

\* A submitted run ends, whoever crashes, is disabled or deleted, and however often,
\* if the workers get on with their work and the admins come to rest.
EveryRunEnds == AgentsGoOn /\ FleetSettles => Life!EveryRunEnds

\* A run does not stay with a process that has died and is never restarted: the
\* reaper gives it back to the queue, or retires it.
DeadWorkerLosesItsRuns ==
  \A r \in Runs, w \in Workers :
    (/\ run[r].lifecycle = "running" /\ run[r].owner = w
     /\ agent[w].pc = "down")
    ~> (run[r].lifecycle # "running" \/ run[r].owner # w \/ agent[w].pc # "down")

\* A request to shut a worker down reaches its process, busy or not, and is
\* then forgotten: the process that the service manager starts next stays up.
ShutdownIsHonoured ==
  \A w \in Workers :
    worker[w].shutdown ~> (~worker[w].shutdown \/ ~Registered(w))

\* A queued run that no enabled worker can serve does not wait for ever.
UnserviceableRunsExpire ==
  \A r \in Runs :
    (run[r].lifecycle = "queued" /\ ~Serviceable(r))
      ~> (run[r].lifecycle # "queued" \/ Serviceable(r))

-----------------------------------------------------------------------------
(* What the documentation says and the code does not do: each of these has a  *)
(* run that finds it violated. *)

\* Orphaned running runs are detected and re-queued within a bounded time, also
\* when the worker that crashed is back (plan/done/orphaned-running-run-recovery.md):
\* a run does not stay running for ever on a worker whose process is up.
OrphanedRunsRecover ==
  \A r \in Runs, w \in Workers :
    (run[r].lifecycle = "running" /\ run[r].owner = w)
      ~> (run[r].lifecycle # "running" \/ agent[w].pc = "down")

\* The result of an attempt that was reclaimed is dropped and does not clobber
\* the run's current state (comment in worker_report_result): the outcome a run
\* carries is that of its last attempt.
StaleResultsAreDropped ==
  \A r \in Runs : run[r].result > 0 => run[r].result = run[r].attempts

\* A worker that is shut down finishes its in-flight job first (worker_detail.html):
\* with no faults, a run that a process is working on stays that process's.
ShutdownFinishesTheJob ==
  \A w \in Workers :
    agent[w].run # NoRun /\ Registered(w) =>
      LET r == run[agent[w].run] IN r.lifecycle = "running" /\ r.owner = w
=============================================================================

----------------------------- MODULE DispatchTx -----------------------------
(***************************************************************************)
(* Dispatch with the transactions that do not run on the event loop split   *)
(* where other requests get in between.  The reaper's sweep runs in         *)
(* asyncio.to_thread and the web routes in the server's thread pool: each   *)
(* loads the rows it decides on, and writes at its commit what it decided,  *)
(* with no row locks.  The ORM writes a column only when its new value      *)
(* differs from the loaded one, so a commit overwrites some columns of a    *)
(* row and leaves the rest as other transactions have made them.            *)
(***************************************************************************)
EXTENDS Dispatch

CONSTANTS
  WebRoutes, \* the web routes in use, of WebRouteKinds
  Window     \* bound: requests handled while a threaded transaction is open

WebRouteKinds == {"cancel",  \* of a run, or of the runs of a matrix run (here all)
                  "delete"}  \* of a worker

ASSUME TxAssumption == WebRoutes \subseteq WebRouteKinds /\ Window \in Nat

VARIABLES
  tx,   \* the open transaction of each thread
  over  \* history: the attempts at a run that were given out over such a transaction

txVars == <<run, worker, agent, late, tx, over>>

Threads == {"reaper", "web"}

\* `on` is what a web route is about, its runs or its worker; `run` and `worker`
\* are the rows as the transaction loaded them (of workers only the sweep uses
\* any), `during` counts the requests handled since.
Closed == [route |-> "closed"]

Transaction ==
  LET Of(route, on, rows) == [route : {route}, on : on, run : [Runs -> RunRow],
                              worker : rows, during : 0..Window]
  IN  {Closed} \cup Of("sweep", {{}}, [Workers -> WorkerRow])
               \cup Of("cancel", SUBSET Runs, {<<>>})
               \cup Of("delete", {{w} : w \in Workers}, {<<>>})

TxTypeOK == /\ TypeOK
            /\ tx \in [Threads -> Transaction]
            /\ over \in [Runs -> Nat]

TxInit == Init /\ tx = [t \in Threads |-> Closed] /\ over = [r \in Runs |-> 0]

Open(t) == tx[t].route # "closed"

Begin(t, route, on, rows) ==
  /\ ~Open(t)
  /\ tx' = [tx EXCEPT ![t] = [route |-> route, on |-> on, run |-> run,
                              worker |-> rows, during |-> 0]]
  /\ UNCHANGED <<run, worker, agent, late, over>>

Loaded(t) == INSTANCE Dispatch WITH run <- tx[t].run, worker <- tx[t].worker

\* Mutant: a commit writes the rows it loaded as a whole.
MergedWholeRows(now, loaded, decided) == decided

\* The tables after the unit of work of t: columns it changed, and no others.
Merged(now, loaded, decided) ==
  [x \in DOMAIN now |-> [c \in DOMAIN now[x] |->
     IF decided[x][c] = loaded[x][c] THEN now[x][c] ELSE decided[x][c]]]

Commit(t, runs) ==
  /\ run' = Merged(run, tx[t].run, runs)
  /\ tx' = [tx EXCEPT ![t] = Closed]
  /\ UNCHANGED <<agent, late, over>>

-----------------------------------------------------------------------------
BeginSweep == Begin("reaper", "sweep", {}, worker)

\* An UPDATE of a worker's row that has been deleted meanwhile fails the sweep.
CommitSweep ==
  LET loaded == tx["reaper"].worker
      stale  == Loaded("reaper")!Stale
      gone   == [w \in Workers |-> IF w \in stale
                   THEN [loaded[w] EXCEPT !.status = "offline", !.count = 0] ELSE loaded[w]]
  IN  /\ tx["reaper"].route = "sweep"
      /\ IF \E w \in stale : ~Registered(w)
         THEN tx' = [tx EXCEPT !["reaper"] = Closed] /\ UNCHANGED <<run, worker, agent, late, over>>
         ELSE /\ Commit("reaper", Loaded("reaper")!ExpireUnserviceable(
                                     Reclaim(tx["reaper"].run, stale)))
              /\ worker' = Merged(worker, loaded, gone)

\* Both routes write nothing unless they load a queued run.
BeginCancel ==
  /\ "cancel" \in WebRoutes
  /\ \E S \in {{r} : r \in Runs} \cup {Runs} :
       (\E r \in S : run[r].lifecycle = "queued") /\ Begin("web", "cancel", S, <<>>)

CommitCancel ==
  /\ tx["web"].route = "cancel"
  /\ Commit("web", [r \in Runs |->
       LET row == tx["web"].run[r]
       IN  IF r \in tx["web"].on /\ row.lifecycle = "queued"
           THEN [row EXCEPT !.lifecycle = "cancelled"] ELSE row])
  /\ UNCHANGED worker

BeginDelete ==
  /\ "delete" \in WebRoutes
  /\ \E w \in Workers : Registered(w) /\ Begin("web", "delete", {w}, <<>>)

\* The UPDATE that clears worker_id reads the rows as they are at the commit.
CommitDelete ==
  LET w    == CHOOSE w \in Workers : w \in tx["web"].on
      back == Merged(run, tx["web"].run, Reclaim(tx["web"].run, {w}))
  IN  /\ tx["web"].route = "delete"
      /\ run' = [r \in Runs |-> IF back[r].owner = w
                   THEN [back[r] EXCEPT !.owner = NoWorker] ELSE back[r]]
      /\ worker' = [worker EXCEPT ![w].status = "deleted"]
      /\ tx' = [tx EXCEPT !["web"] = Closed]
      /\ UNCHANGED <<agent, late, over>>

-----------------------------------------------------------------------------
\* A transaction is open that may yet take the run from a worker it had then.
TakesBack(t) == tx[t].route \in {"sweep", "delete"}

LoadedRunning(r) == \E t \in Threads : TakesBack(t) /\ tx[t].run[r].lifecycle = "running"

\* A request on the event loop sees what is committed.
OnTheLoop ==
  /\ \A t \in Threads : Open(t) => tx[t].during < Window
  /\ \/ \E w \in Workers : AgentStep(w)
     \/ \E m \in late : LateArrives(m)
     \/ AdminStep
  /\ tx' = [t \in Threads |-> IF Open(t) /\ <<run, worker>>' # <<run, worker>>
                              THEN [tx[t] EXCEPT !.during = @ + 1] ELSE tx[t]]
  /\ over' = [r \in Runs |-> IF run'[r].attempts > run[r].attempts /\ LoadedRunning(r)
                              THEN over[r] + 1 ELSE over[r]]

Elsewhere ==
  /\ \/ \E w \in Workers : Signal(w) \/ Crash(w) \/ HeartbeatLapses(w)
     \/ \E r \in Runs : RunAges(r)
  /\ UNCHANGED <<tx, over>>

TxNext == \/ BeginSweep \/ CommitSweep
          \/ BeginCancel \/ CommitCancel
          \/ BeginDelete \/ CommitDelete
          \/ OnTheLoop \/ Elsewhere

TxSpec == TxInit /\ [][TxNext]_txVars

-----------------------------------------------------------------------------
\* However many requests are handled while a sweep or a web route has its rows
\* loaded, a run gets no attempt beyond MAX_RECLAIMS + 1 but those that were given
\* out over such a transaction: it had loaded the run as running, another request
\* took the run back meanwhile, and the two count as one reclaim.
AttemptsWithinBudget ==
  \A r \in Runs : run[r].attempts <= MaxReclaims + 1 + over[r]

\* ... and what makes it inductive.  Every attempt at a row but the one under way
\* was paid for by a reclaim, or was given out over a transaction; a transaction
\* that is to take a run back has loaded what paid for all but one of its attempts.
RowBudget(row, extra) ==
  /\ row.attempts <= MaxReclaims + 1 + extra
  /\ row.lifecycle = "absent" => row.attempts = 0 /\ row.reclaims = 0
  /\ row.lifecycle = "queued" => /\ row.attempts <= row.reclaims + extra
                                 /\ row.reclaims <= MaxReclaims
  /\ row.lifecycle = "running" => row.attempts <= row.reclaims + 1 + extra

LoadBudget(row, loaded, extra) ==
  loaded.lifecycle = "running" =>
    row.lifecycle # "absent" /\ row.attempts <= loaded.reclaims + 1 + extra

JobsNamed ==
  /\ \A w \in Workers : agent[w].pc \in {"executing", "reporting"} => agent[w].run # NoRun
  /\ \A m \in late : m.kind = "result" => m.run # NoRun

TxInv ==
  /\ TxTypeOK /\ JobsNamed
  /\ \A r \in Runs : RowBudget(run[r], over[r])
  /\ \A t \in Threads : TakesBack(t) =>
       \A r \in Runs : LoadBudget(run[r], tx[t].run[r], over[r])

\* What has ended is undone only by a sweep or a deletion that loaded the run as
\* running; a cancel may replace one end by another, and revives nothing.
OnlyAReclaimRevives ==
  [][\A r \in Runs :
       /\ run[r].lifecycle \in {"finished", "cancelled", "timed_out"}
       /\ run'[r].lifecycle \in {"queued", "running"}
       => \E t \in Threads :
            /\ TakesBack(t) /\ ~Open(t)'
            /\ tx[t].run[r].lifecycle = "running"]_txVars

\* The docstring of run_cancel: running runs are left to finish.
RunningRunsAreLeftToFinish ==
  [][\A r \in Runs : run[r].lifecycle = "running" => run'[r].lifecycle # "cancelled"]_txVars

\* The docstring of delete_worker: in-flight runs are reclaimed, to be queued for
\* another worker or retired.  So a running run has a worker.
RunningRunsHaveAWorker ==
  \A r \in Runs : run[r].lifecycle = "running" => run[r].owner # NoWorker
=============================================================================

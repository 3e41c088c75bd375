-------------------------- MODULE Dispatch_proofs --------------------------
(***************************************************************************)
(* Proofs, for every set of runs and workers and every reclaim budget, that *)
(* the safety properties of Dispatch are invariants of its specification;   *)
(* that Dispatch implements the safety half of RunLife, every step moving   *)
(* each run along its promised life or leaving it where it is; and that a   *)
(* worker's job count, kept by the poll, the result, the heartbeat, the     *)
(* goodbye, the reconnect and the reaper, never exceeds the runs that are   *)
(* running on it.                                                           *)
(*                                                                          *)
(* A transaction is an authentication followed by a handler, each of which  *)
(* rewrites rows of the two tables.  So the lemmas go from rows to tables   *)
(* to transactions, and the theorem has one step per action.  The           *)
(* authentication may take a run back before the handler hands it out again *)
(* or finishes it; Lived is what the two do together.                       *)
(***************************************************************************)
EXTENDS Dispatch, FiniteSetTheorems, TLAPS

-----------------------------------------------------------------------------
(* Rows. *)

LEMMA ResultConstants == Synthetic \in Int /\ NoResult \in Int
  BY DEF Synthetic, NoResult

LEMMA RetireRowLemma ==
  ASSUME NEW row \in RunRow, RowOK(row), row.lifecycle \in {"queued", "running"}
  PROVE  /\ RetireRow(row) \in RunRow
         /\ RowOK(RetireRow(row))
         /\ RetireRow(row).attempts = row.attempts
         /\ RetireRow(row).lifecycle = "timed_out"
<1> DEFINE new == RetireRow(row)
<1>1. new \in RunRow
  BY ResultConstants DEF RunRow, RetireRow, Lifecycles
<1>2. /\ new.lifecycle = "timed_out" /\ new.owner = NoWorker /\ new.result = Synthetic
      /\ new.attempts = row.attempts /\ new.reclaims = row.reclaims
  BY DEF RunRow, RetireRow
<1>3. RowOK(new)
  BY <1>2 DEF RowOK
<1> QED BY <1>1, <1>2, <1>3

LEMMA ReclaimRowLemma ==
  ASSUME NEW row \in RunRow, RowOK(row), row.lifecycle = "running"
  PROVE  /\ ReclaimRow(row) \in RunRow
         /\ RowOK(ReclaimRow(row))
         /\ ReclaimRow(row).attempts = row.attempts
         /\ ReclaimRow(row).lifecycle \in {"queued", "timed_out"}
<1> DEFINE counted == [row EXCEPT !.reclaims = @ + 1]
           again   == [counted EXCEPT !.lifecycle = "queued", !.owner = NoWorker]
           over    == RetireRow(counted)
<1>1. counted \in RunRow /\ again \in RunRow /\ over \in RunRow
  <2>1. row.reclaims + 1 \in Nat BY DEF RunRow
  <2>2. counted \in RunRow BY <2>1 DEF RunRow
  <2>3. \A c \in RunRow : [c EXCEPT !.lifecycle = "queued", !.owner = NoWorker] \in RunRow
    BY DEF RunRow, Lifecycles
  <2>4. \A c \in RunRow : RetireRow(c) \in RunRow
    BY ResultConstants DEF RunRow, RetireRow, Lifecycles
  <2> QED BY <2>2, <2>3, <2>4
<1>2. ReclaimRow(row) = IF counted.reclaims > MaxReclaims THEN over ELSE again
  BY DEF ReclaimRow
<1>3. /\ counted.reclaims = row.reclaims + 1
      /\ over.lifecycle = "timed_out" /\ over.owner = NoWorker /\ over.result = Synthetic
      /\ over.attempts = row.attempts
  BY DEF RunRow, RetireRow
<1>4. /\ again.lifecycle = "queued" /\ again.owner = NoWorker /\ again.result = row.result
      /\ again.attempts = row.attempts /\ again.reclaims = row.reclaims + 1
  BY DEF RunRow
<1>5. CASE counted.reclaims > MaxReclaims
  <2>1. RowOK(over) BY <1>3 DEF RowOK
  <2> QED BY <1>1, <1>2, <1>3, <1>5, <2>1
<1>6. CASE ~(counted.reclaims > MaxReclaims)
  <2>1. again.reclaims <= MaxReclaims
    BY <1>3, <1>4, <1>6, ConstantsAssumption DEF RunRow
  <2>2. RowOK(again) BY <1>4, <2>1 DEF RowOK
  <2> QED BY <1>1, <1>2, <1>4, <1>6, <2>2
<1> QED BY <1>5, <1>6

LEMMA ClaimRowLemma ==
  ASSUME NEW row \in RunRow, RowOK(row), row.lifecycle = "queued", NEW w \in Workers
  PROVE  /\ ClaimRow(row, w) \in RunRow
         /\ RowOK(ClaimRow(row, w))
         /\ ClaimRow(row, w).attempts = row.attempts + 1
         /\ ClaimRow(row, w).lifecycle = "running"
         /\ ClaimRow(row, w).owner = w
<1> DEFINE new == ClaimRow(row, w)
<1>1. new \in RunRow
  <2>1. row.attempts + 1 \in Nat BY DEF RunRow
  <2> QED BY <2>1 DEF RunRow, ClaimRow, Lifecycles
<1>2. /\ new.lifecycle = "running" /\ new.owner = w /\ new.result = row.result
      /\ new.attempts = row.attempts + 1 /\ new.reclaims = row.reclaims
  BY DEF RunRow, ClaimRow
<1>3. row.attempts \in Nat /\ row.attempts + 1 <= MaxReclaims + 1
  BY ConstantsAssumption DEF RunRow, RowOK
<1>4. RowOK(new)
  BY <1>2, <1>3 DEF RowOK
<1> QED BY <1>1, <1>2, <1>4

LEMMA FinishRowLemma ==
  ASSUME NEW row \in RunRow, RowOK(row), row.owner \in Workers,
         NEW n \in Nat, 0 < n, n <= row.attempts
  PROVE  /\ FinishRow(row, n) \in RunRow
         /\ RowOK(FinishRow(row, n))
         /\ FinishRow(row, n).attempts = row.attempts
         /\ FinishRow(row, n).lifecycle = "finished"
<1> DEFINE new == FinishRow(row, n)
<1>1. row.lifecycle \in {"running", "finished"}
  BY ConstantsAssumption DEF RowOK
<1>2. new \in RunRow
  <2>1. n \in Int OBVIOUS
  <2>2. new = [row EXCEPT !.lifecycle = "finished", !.result = n]
    BY <1>1 DEF FinishRow
  <2> QED BY <2>1, <2>2 DEF RunRow, Lifecycles
<1>3. /\ new.lifecycle = "finished" /\ new.owner = row.owner /\ new.result = n
      /\ new.attempts = row.attempts /\ new.reclaims = row.reclaims
  BY <1>1 DEF RunRow, FinishRow
<1>4. RowOK(new)
  BY <1>1, <1>3 DEF RowOK
<1> QED BY <1>2, <1>3, <1>4

Known == {"offline", "online", "busy"}

LEMMA WorkerRowLemma ==
  ASSUME NEW row \in WorkerRow, row.status \in Known, NEW n \in Nat
  PROVE  /\ Busier(row) \in WorkerRow /\ Busier(row).status \in Known
         /\ Freed(row) \in WorkerRow /\ Freed(row).status \in Known
         /\ Reconciled(row, n) \in WorkerRow /\ Reconciled(row, n).status \in Known
<1>1. row.count \in Nat /\ row.concurrency \in Nat
  BY ConstantsAssumption DEF WorkerRow
<1>2. Busier(row) \in WorkerRow /\ Busier(row).status \in Known
  <2>1. row.count + 1 \in Nat BY <1>1
  <2>2. CASE row.count + 1 >= row.concurrency
    <3>1. Busier(row) = [row EXCEPT !.count = row.count + 1, !.status = "busy"]
      BY <2>2 DEF Busier, WorkerRow
    <3> QED BY <2>1, <3>1 DEF WorkerRow, Known
  <2>3. CASE ~(row.count + 1 >= row.concurrency)
    <3>1. Busier(row) = [row EXCEPT !.count = row.count + 1, !.status = row.status]
      BY <2>3 DEF Busier, WorkerRow
    <3> QED BY <2>1, <3>1 DEF WorkerRow, Known
  <2> QED BY <2>2, <2>3
<1>3. Freed(row) \in WorkerRow /\ Freed(row).status \in Known
  <2> DEFINE c == IF row.count > 0 THEN row.count - 1 ELSE 0
             st == IF row.status = "busy" /\ c < row.concurrency THEN "online" ELSE row.status
  <2>1. c \in Nat BY <1>1
  <2>2. st \in Known BY DEF Known
  <2>3. Freed(row) = [row EXCEPT !.count = c, !.status = st]
    BY DEF Freed
  <2> HIDE DEF c, st
  <2> QED BY <2>1, <2>2, <2>3 DEF WorkerRow, Known
<1>4. Reconciled(row, n) \in WorkerRow /\ Reconciled(row, n).status \in Known
  BY <1>1 DEF WorkerRow, Reconciled, Known
<1> QED BY <1>2, <1>3, <1>4

-----------------------------------------------------------------------------
(* Tables. *)

RunsOK(R) == R \in [Runs -> RunRow] /\ \A r \in Runs : RowOK(R[r])

\* Table S comes after table R: attempts are never taken back, and a running
\* run whose attempt is not a new one was running before, with the same owner.
Later(R, S) ==
  \A r \in Runs :
    /\ R[r].attempts <= S[r].attempts
    /\ S[r].lifecycle = "running" /\ S[r].attempts = R[r].attempts
         => R[r].lifecycle = "running" /\ S[r].owner = R[r].owner

LEMMA ReclaimLemma ==
  ASSUME NEW R, RunsOK(R), NEW W
  PROVE  /\ RunsOK(Reclaim(R, W))
         /\ \A r \in Runs :
              /\ Reclaim(R, W)[r].attempts = R[r].attempts
              /\ Reclaim(R, W)[r].lifecycle = "running"
                   => Reclaim(R, W)[r] = R[r] /\ R[r].owner \notin W
<1> SUFFICES ASSUME NEW r \in Runs
             PROVE  /\ Reclaim(R, W)[r] \in RunRow
                    /\ RowOK(Reclaim(R, W)[r])
                    /\ Reclaim(R, W)[r].attempts = R[r].attempts
                    /\ Reclaim(R, W)[r].lifecycle = "running"
                         => Reclaim(R, W)[r] = R[r] /\ R[r].owner \notin W
  BY DEF RunsOK, Reclaim
<1>1. R[r] \in RunRow /\ RowOK(R[r])
  BY DEF RunsOK
<1>2. CASE R[r].lifecycle = "running" /\ R[r].owner \in W
  <2>1. Reclaim(R, W)[r] = ReclaimRow(R[r])
    BY <1>2 DEF Reclaim
  <2> QED BY <1>1, <1>2, <2>1, ReclaimRowLemma
<1>3. CASE ~(R[r].lifecycle = "running" /\ R[r].owner \in W)
  <2>1. Reclaim(R, W)[r] = R[r]
    BY <1>3 DEF Reclaim
  <2> QED BY <1>1, <1>3, <2>1
<1> QED BY <1>2, <1>3

LEMMA ExpireLemma ==
  ASSUME NEW R, RunsOK(R)
  PROVE  /\ RunsOK(ExpireUnserviceable(R))
         /\ \A r \in Runs :
              /\ ExpireUnserviceable(R)[r].attempts = R[r].attempts
              /\ ExpireUnserviceable(R)[r].lifecycle = "running"
                   => ExpireUnserviceable(R)[r] = R[r]
<1> DEFINE E == ExpireUnserviceable(R)
<1> SUFFICES ASSUME NEW r \in Runs
             PROVE  /\ E[r] \in RunRow /\ RowOK(E[r]) /\ E[r].attempts = R[r].attempts
                    /\ E[r].lifecycle = "running" => E[r] = R[r]
  BY DEF RunsOK, ExpireUnserviceable
<1>1. R[r] \in RunRow /\ RowOK(R[r])
  BY DEF RunsOK
<1>2. \/ R[r].lifecycle = "queued" /\ E[r] = RetireRow(R[r])
      \/ E[r] = R[r]
  BY DEF ExpireUnserviceable
<1> QED BY <1>1, <1>2, RetireRowLemma

LEMMA AuthLemma ==
  ASSUME DispatchInv, NEW w \in Workers, Registered(w)
  PROVE  /\ RunsOK(AuthRun(w))
         /\ \A r \in Runs : /\ AuthRun(w)[r].attempts = run[r].attempts
                            /\ AuthRun(w)[r].lifecycle = "running" => AuthRun(w)[r] = run[r]
         /\ AuthWorker(w) \in WorkerRow /\ AuthWorker(w).status \in {"online", "busy"}
<1>1. RunsOK(run) /\ worker[w] \in WorkerRow
  BY DEF DispatchInv, TypeOK, RunsOK
<1>2. AuthWorker(w) \in WorkerRow /\ AuthWorker(w).status \in {"online", "busy"}
  <2>1. CASE worker[w].status = "offline"
    BY <1>1, <2>1 DEF AuthWorker, WorkerRow
  <2>2. CASE worker[w].status # "offline"
    BY <1>1, <2>2 DEF AuthWorker, WorkerRow, Registered
  <2> QED BY <2>1, <2>2
<1>3. CASE worker[w].status = "offline"
  BY <1>1, <1>2, <1>3, ReclaimLemma DEF AuthRun
<1>4. CASE worker[w].status # "offline"
  BY <1>1, <1>2, <1>4 DEF AuthRun
<1> QED BY <1>3, <1>4

-----------------------------------------------------------------------------
(* Transactions.  What every one of them does to the two tables: *)

TablesStep ==
  /\ RunsOK(run')
  /\ worker' \in [Workers -> WorkerRow]
  /\ OwnersRegistered'
  /\ Later(run, run')

\* The run table is authenticated, and row w of the worker table rewritten.
LEMMA ContactLike ==
  ASSUME DispatchInv, NEW w \in Workers, Registered(w), run' = AuthRun(w),
         NEW row \in WorkerRow, row.status \in Known, worker' = [worker EXCEPT ![w] = row]
  PROVE  TablesStep
<1>1. /\ RunsOK(run')
      /\ \A r \in Runs : /\ run'[r].attempts = run[r].attempts
                         /\ run'[r].lifecycle = "running" => run'[r] = run[r]
  BY AuthLemma
<1>2. worker' \in [Workers -> WorkerRow]
  BY DEF DispatchInv, TypeOK
<1>3. \A v \in Workers : Registered(v) => Registered(v)'
  BY DEF Registered, Known, DispatchInv, TypeOK
<1>4. OwnersRegistered'
  BY <1>1, <1>3 DEF OwnersRegistered, DispatchInv, RowOK
<1>5. Later(run, run')
  BY <1>1 DEF Later, DispatchInv, TypeOK, RunRow
<1> QED BY <1>1, <1>2, <1>4, <1>5 DEF TablesStep

LEMMA ContactLemma ==
  ASSUME DispatchInv, NEW w \in Workers, Registered(w), Contact(w)
  PROVE  TablesStep
BY AuthLemma, ContactLike DEF Contact, Known

LEMMA RunningOnFinite ==
  ASSUME NEW R, NEW w
  PROVE  Cardinality(RunningOn(R, w)) \in Nat
BY ConstantsAssumption, FS_Subset, FS_CardinalityType DEF RunningOn

LEMMA HeartbeatLemma ==
  ASSUME DispatchInv, NEW w \in Workers, Registered(w), HandleHeartbeat(w)
  PROVE  TablesStep
<1> DEFINE n == Cardinality(RunningOn(AuthRun(w), w))
<1>1. n \in Nat
  BY RunningOnFinite
<1>2. Reconciled(AuthWorker(w), n) \in WorkerRow /\ Reconciled(AuthWorker(w), n).status \in Known
  BY <1>1, AuthLemma, WorkerRowLemma DEF Known
<1>3. run' = AuthRun(w) /\ worker' = [worker EXCEPT ![w] = Reconciled(AuthWorker(w), n)]
  BY DEF HandleHeartbeat
<1> HIDE DEF n
<1> QED BY <1>2, <1>3, ContactLike

LEMMA GoodbyeLemma ==
  ASSUME DispatchInv, NEW w \in Workers, Registered(w), HandleGoodbye(w)
  PROVE  TablesStep
<1> DEFINE row == [AuthWorker(w) EXCEPT !.status = "offline", !.count = 0, !.fresh = FALSE]
<1>1. row \in WorkerRow /\ row.status \in Known
  BY AuthLemma DEF WorkerRow, Known
<1>2. run' = AuthRun(w) /\ worker' = [worker EXCEPT ![w] = row]
  BY DEF HandleGoodbye
<1> HIDE DEF row
<1> QED BY <1>1, <1>2, ContactLike

LEMMA ClaimLemma ==
  ASSUME DispatchInv, NEW w \in Workers, Registered(w), NEW r \in ClaimableBy(w), Claim(w, r)
  PROVE  /\ TablesStep
         /\ run'[r].attempts = run[r].attempts + 1 /\ run'[r].owner = w
         /\ \A s \in Runs : s # r => /\ run'[s].attempts = run[s].attempts
                                     /\ run'[s].lifecycle = "running" => run'[s] = run[s]
<1> DEFINE R == AuthRun(w)
<1>1. /\ RunsOK(R)
      /\ \A s \in Runs : /\ R[s].attempts = run[s].attempts
                         /\ R[s].lifecycle = "running" => R[s] = run[s]
      /\ AuthWorker(w) \in WorkerRow /\ AuthWorker(w).status \in Known
  BY AuthLemma DEF Known
<1>2. r \in Runs /\ R[r].lifecycle = "queued" /\ R[r] \in RunRow /\ RowOK(R[r])
  BY <1>1 DEF ClaimableBy, RunsOK
<1>3. /\ ClaimRow(R[r], w) \in RunRow /\ RowOK(ClaimRow(R[r], w))
      /\ ClaimRow(R[r], w).attempts = run[r].attempts + 1
      /\ ClaimRow(R[r], w).owner = w
  BY <1>1, <1>2, ClaimRowLemma
<1>4. run' = [R EXCEPT ![r] = ClaimRow(R[r], w)] /\ R \in [Runs -> RunRow]
  BY <1>1 DEF Claim, RunsOK
<1>5. run'[r] = ClaimRow(R[r], w) /\ \A s \in Runs : s # r => run'[s] = R[s]
  BY <1>2, <1>4
<1> HIDE DEF R
<1>6. RunsOK(run')
  BY <1>1, <1>3, <1>4, <1>5 DEF RunsOK
<1>7. Busier(AuthWorker(w)) \in WorkerRow /\ Busier(AuthWorker(w)).status \in Known
  BY <1>1, WorkerRowLemma
<1>8. worker' = [worker EXCEPT ![w] = Busier(AuthWorker(w))] /\ worker \in [Workers -> WorkerRow]
  BY DEF Claim, DispatchInv, TypeOK
<1>9. worker' \in [Workers -> WorkerRow] /\ Registered(w)'
      /\ \A v \in Workers : Registered(v) => Registered(v)'
  BY <1>7, <1>8 DEF Registered, Known
<1>10. OwnersRegistered'
  BY <1>1, <1>3, <1>5, <1>9 DEF OwnersRegistered, DispatchInv, RowOK
<1>11. run[r].attempts \in Nat /\ \A s \in Runs : run[s].attempts \in Nat
  BY <1>2 DEF DispatchInv, TypeOK, RunRow
<1>12. Later(run, run')
  BY <1>1, <1>3, <1>5, <1>11 DEF Later
<1> QED BY <1>1, <1>3, <1>5, <1>6, <1>9, <1>10, <1>12 DEF TablesStep

LEMMA ResultLemma ==
  ASSUME DispatchInv, NEW w \in Workers, Registered(w), NEW r \in Runs,
         NEW n \in Nat, 0 < n, n <= run[r].attempts, HandleResult(w, r, n)
  PROVE  TablesStep
<1> DEFINE R == AuthRun(w)
<1>1. /\ RunsOK(R)
      /\ \A s \in Runs : /\ R[s].attempts = run[s].attempts
                         /\ R[s].lifecycle = "running" => R[s] = run[s]
      /\ AuthWorker(w) \in WorkerRow /\ AuthWorker(w).status \in Known
  BY AuthLemma DEF Known
<1>2. CASE R[r].owner # w
  BY <1>2, ContactLemma DEF HandleResult
<1>3. CASE R[r].owner = w
  <2>1. /\ FinishRow(R[r], n) \in RunRow /\ RowOK(FinishRow(R[r], n))
        /\ FinishRow(R[r], n).attempts = run[r].attempts
        /\ FinishRow(R[r], n).lifecycle = "finished"
    BY <1>1, <1>3, FinishRowLemma DEF RunsOK
  <2>2. /\ run' = [R EXCEPT ![r] = FinishRow(R[r], n)] /\ R \in [Runs -> RunRow]
        /\ worker' = [worker EXCEPT ![w] = Freed(AuthWorker(w))]
        /\ worker \in [Workers -> WorkerRow]
    BY <1>1, <1>3 DEF HandleResult, RunsOK, DispatchInv, TypeOK
  <2>3. run'[r] = FinishRow(R[r], n) /\ \A s \in Runs : s # r => run'[s] = R[s]
    BY <2>2
  <2> HIDE DEF R
  <2>4. RunsOK(run')
    BY <1>1, <2>1, <2>2, <2>3 DEF RunsOK
  <2>5. Freed(AuthWorker(w)) \in WorkerRow /\ Freed(AuthWorker(w)).status \in Known
    BY <1>1, WorkerRowLemma
  <2>6. worker' \in [Workers -> WorkerRow] /\ \A v \in Workers : Registered(v) => Registered(v)'
    BY <2>2, <2>5 DEF Registered, Known
  <2>7. OwnersRegistered'
    BY <1>1, <2>1, <2>3, <2>6 DEF OwnersRegistered, DispatchInv, RowOK
  <2>8. \A s \in Runs : run[s].attempts \in Nat
    BY DEF DispatchInv, TypeOK, RunRow
  <2>9. Later(run, run')
    BY <1>1, <2>1, <2>3, <2>8 DEF Later
  <2> QED BY <2>4, <2>6, <2>7, <2>9 DEF TablesStep
<1> QED BY <1>2, <1>3

\* Nothing happens to the tables.
LEMMA RestLemma ==
  ASSUME DispatchInv, UNCHANGED <<run, worker>>
  PROVE  TablesStep
<1>1. \A r \in Runs : run[r].attempts \in Nat
  BY DEF DispatchInv, TypeOK, RunRow
<1> QED BY <1>1 DEF DispatchInv, TypeOK, TablesStep, RunsOK, OwnersRegistered, Registered, Later

-----------------------------------------------------------------------------
(* Processes and late requests.  Every step but the one that hands out a job  *)
(* leaves each process with the job it had or without one, and adds to the    *)
(* late requests only requests about such jobs. *)

JobsStep ==
  /\ agent' \in [Workers -> Agent]
  /\ late' \subseteq Request
  /\ \A w \in Workers : agent'[w].run # NoRun <=> agent'[w].pc \in {"executing", "reporting"}
  /\ \A w \in Workers : \/ agent'[w].run = NoRun
                        \/ agent'[w].run = agent[w].run /\ agent'[w].attempt = agent[w].attempt
  /\ \A m \in late' \ late :
       /\ m.kind = "result" => m.run # NoRun
       /\ \/ m.run = NoRun
          \/ \E w \in Workers : m.run = agent[w].run /\ m.attempt = agent[w].attempt

LEMMA StepLemma ==
  ASSUME DispatchInv, TablesStep, JobsStep
  PROVE  DispatchInv'
<1>1. TypeOK'
  BY DEF TypeOK, TablesStep, JobsStep, RunsOK
<1>2. (\A r \in Runs : RowOK(run[r]))' /\ OwnersRegistered'
  BY DEF TablesStep, RunsOK
<1>3. ASSUME NEW r \in Runs
      PROVE  /\ run[r].attempts \in Nat /\ run'[r].attempts \in Nat
             /\ run[r].attempts <= run'[r].attempts
             /\ run'[r].lifecycle = "running" /\ run'[r].attempts = run[r].attempts
                  => run[r].lifecycle = "running" /\ run'[r].owner = run[r].owner
  BY DEF DispatchInv, TypeOK, RunRow, TablesStep, RunsOK, Later
<1>4. /\ \A w \in Workers : agent[w].run \in Runs \cup {NoRun} /\ agent[w].attempt \in Nat
      /\ \A w \in Workers : agent'[w].run \in Runs \cup {NoRun} /\ agent'[w].attempt \in Nat
      /\ \A m \in late' : m.run \in Runs \cup {NoRun} /\ m.attempt \in Nat
  BY DEF DispatchInv, TypeOK, JobsStep, Agent, Request
<1>5. JobsHanded'
  <2>1. \A w \in Workers : Handed(agent[w])'
    BY <1>3, <1>4 DEF DispatchInv, JobsHanded, Handed, JobsStep
  <2>2. \A m \in late' : Handed(m)'
    BY <1>3, <1>4 DEF DispatchInv, JobsHanded, Handed, JobsStep
  <2> QED BY <2>1, <2>2 DEF JobsHanded, JobsStep, DispatchInv
<1>6. OneExecutor'
  <2> SUFFICES ASSUME NEW v \in Workers, NEW w \in Workers, agent'[w].run # NoRun
               PROVE  /\ (v # w /\ agent'[v].run = agent'[w].run)
                           => agent'[v].attempt # agent'[w].attempt
                      /\ (/\ run'[agent'[w].run].lifecycle = "running"
                          /\ run'[agent'[w].run].attempts = agent'[w].attempt)
                           => run'[agent'[w].run].owner = w
    BY DEF OneExecutor
  <2>1. /\ agent[w].run # NoRun /\ agent[w].run = agent'[w].run
        /\ agent[w].attempt = agent'[w].attempt
        /\ agent[w].attempt <= run[agent[w].run].attempts
    BY DEF DispatchInv, JobsHanded, Handed, JobsStep
  <2>2. agent'[v].run = agent'[w].run =>
          agent[v].run = agent'[v].run /\ agent[v].attempt = agent'[v].attempt
    BY DEF JobsStep
  <2>3. /\ (v # w /\ agent[v].run = agent[w].run) => agent[v].attempt # agent[w].attempt
        /\ (/\ run[agent[w].run].lifecycle = "running"
            /\ run[agent[w].run].attempts = agent[w].attempt)
             => run[agent[w].run].owner = w
    BY <2>1 DEF DispatchInv, OneExecutor
  <2>4. agent[w].run \in Runs /\ agent[w].attempt \in Nat
    BY <1>4, <2>1
  <2> QED BY <1>3, <2>1, <2>2, <2>3, <2>4
<1> QED BY <1>1, <1>2, <1>5, <1>6 DEF DispatchInv

\* The step that hands out a job: the attempt is a new one, so nobody has it.
LEMMA PollJobLemma ==
  ASSUME DispatchInv, NEW w \in Workers, PollJob(w)
  PROVE  DispatchInv'
<1>1. PICK r \in Oldest(ClaimableBy(w)) :
        /\ Claim(w, r)
        /\ agent' = [agent EXCEPT ![w].pc = "executing", ![w].run = r,
                                  ![w].attempt = run[r].attempts + 1]
  BY DEF PollJob
<1>2. r \in ClaimableBy(w) /\ r \in Runs /\ Registered(w) /\ late' = late
  BY DEF PollJob, Oldest, ClaimableBy
<1>3. /\ TablesStep
      /\ run'[r].attempts = run[r].attempts + 1 /\ run'[r].owner = w
      /\ \A s \in Runs : s # r => /\ run'[s].attempts = run[s].attempts
                                  /\ run'[s].lifecycle = "running" => run'[s] = run[s]
  BY <1>1, <1>2, ClaimLemma
<1>4. \A s \in Runs : run[s].attempts \in Nat
  BY DEF DispatchInv, TypeOK, RunRow
<1>5. /\ agent \in [Workers -> Agent] /\ r # NoRun /\ run[r].attempts + 1 \in Nat
      /\ \A v \in Workers : agent[v].run \in Runs \cup {NoRun} /\ agent[v].attempt \in Nat
  BY <1>2, <1>4, ConstantsAssumption DEF DispatchInv, TypeOK, Agent
<1>6. /\ agent'[w].pc = "executing" /\ agent'[w].run = r
      /\ agent'[w].attempt = run[r].attempts + 1
      /\ \A v \in Workers : v # w => agent'[v] = agent[v]
  BY <1>1, <1>5 DEF Agent
<1>7. agent' \in [Workers -> Agent]
  <2>1. [agent[w] EXCEPT !.pc = "executing", !.run = r, !.attempt = run[r].attempts + 1] \in Agent
    BY <1>2, <1>5 DEF Agent
  <2>2. agent' = [agent EXCEPT ![w] = [agent[w] EXCEPT !.pc = "executing", !.run = r,
                                                       !.attempt = run[r].attempts + 1]]
    BY <1>1, <1>5
  <2> QED BY <1>5, <2>1, <2>2
<1>8. TypeOK' /\ (\A s \in Runs : RowOK(run[s]))' /\ OwnersRegistered'
  BY <1>2, <1>3, <1>7 DEF DispatchInv, TypeOK, TablesStep, RunsOK
<1>9. \A m \in late : m.run \in Runs \cup {NoRun} /\ m.attempt \in Nat
  BY DEF DispatchInv, TypeOK, Request
<1>10. JobsHanded'
  <2>1. \A v \in Workers : Handed(agent[v])'
    <3> SUFFICES ASSUME NEW v \in Workers, agent'[v].run # NoRun
                 PROVE  0 < agent'[v].attempt /\ agent'[v].attempt <= run'[agent'[v].run].attempts
      BY DEF Handed
    <3>1. CASE v = w
      BY <1>2, <1>3, <1>4, <1>6, <3>1
    <3>2. CASE v # w
      <4>1. agent'[v] = agent[v] /\ agent[v].run \in Runs /\ agent[v].attempt \in Nat
        BY <1>5, <1>6, <3>2
      <4>2. 0 < agent[v].attempt /\ agent[v].attempt <= run[agent[v].run].attempts
        BY <4>1 DEF DispatchInv, JobsHanded, Handed
      <4> QED BY <1>2, <1>3, <1>4, <4>1, <4>2
    <3> QED BY <3>1, <3>2
  <2>2. \A m \in late' : Handed(m)'
    BY <1>2, <1>3, <1>4, <1>9 DEF DispatchInv, JobsHanded, Handed
  <2> QED BY <1>2, <1>5, <1>6, <2>1, <2>2 DEF JobsHanded, DispatchInv
<1>11. OneExecutor'
  <2> SUFFICES ASSUME NEW v \in Workers, NEW u \in Workers, agent'[u].run # NoRun
               PROVE  /\ (v # u /\ agent'[v].run = agent'[u].run)
                           => agent'[v].attempt # agent'[u].attempt
                      /\ (/\ run'[agent'[u].run].lifecycle = "running"
                          /\ run'[agent'[u].run].attempts = agent'[u].attempt)
                           => run'[agent'[u].run].owner = u
    BY DEF OneExecutor
  <2>1. \A x \in Workers : agent[x].run # NoRun =>
           /\ agent[x].run \in Runs /\ agent[x].attempt <= run[agent[x].run].attempts
    BY <1>5 DEF DispatchInv, JobsHanded, Handed
  <2>2. agent[u].run # NoRun =>
          /\ (v # u /\ agent[v].run = agent[u].run) => agent[v].attempt # agent[u].attempt
          /\ (/\ run[agent[u].run].lifecycle = "running"
              /\ run[agent[u].run].attempts = agent[u].attempt)
               => run[agent[u].run].owner = u
    BY DEF DispatchInv, OneExecutor
  <2>3. CASE u = w
    BY <1>3, <1>4, <1>5, <1>6, <2>1, <2>3
  <2>4. CASE u # w
    BY <1>3, <1>4, <1>5, <1>6, <2>1, <2>2, <2>4
  <2> QED BY <2>3, <2>4
<1> QED BY <1>8, <1>10, <1>11 DEF DispatchInv

\* The steps that leave jobs alone only have to say so.
LEMMA JobsKept ==
  ASSUME DispatchInv, NEW w \in Workers, NEW a \in Agent,
         agent' = [agent EXCEPT ![w] = a],
         a.run # NoRun <=> a.pc \in {"executing", "reporting"},
         a.run = NoRun \/ (a.run = agent[w].run /\ a.attempt = agent[w].attempt),
         late' \subseteq late
  PROVE  JobsStep
BY DEF JobsStep, DispatchInv, TypeOK, JobsHanded

LEMMA AgentsAtRest ==
  ASSUME DispatchInv, agent' = agent, late' \subseteq late
  PROVE  JobsStep
BY DEF JobsStep, DispatchInv, TypeOK, JobsHanded

\* ... also when the client of a request about its job gives up on it.
LEMMA GiveUpLemma ==
  ASSUME DispatchInv, NEW w \in Workers, NEW a \in Agent,
         agent' = [agent EXCEPT ![w] = a],
         a.run # NoRun <=> a.pc \in {"executing", "reporting"},
         a.run = NoRun \/ (a.run = agent[w].run /\ a.attempt = agent[w].attempt),
         NEW m \in Request, GiveUpOn(m), m.kind = "result" => m.run # NoRun,
         m.run = NoRun \/ (m.run = agent[w].run /\ m.attempt = agent[w].attempt)
  PROVE  JobsStep
<1>1. late' \subseteq late \cup {m} /\ late' \subseteq Request
  BY DEF GiveUpOn, DispatchInv, TypeOK
<1>2. \A x \in late' \ late : x = m
  BY <1>1
<1> QED BY <1>1, <1>2 DEF JobsStep, DispatchInv, TypeOK, JobsHanded

LEMMA AgentDownOK == AgentDown \in Agent /\ AgentDown.run = NoRun /\ AgentDown.pc = "down"
BY DEF AgentDown, Agent

LEMMA JobDoneOK ==
  ASSUME NEW a \in Agent
  PROVE  JobDone(a) \in Agent /\ JobDone(a).run = NoRun /\ JobDone(a).pc \in {"idle", "exiting"}
BY AgentDownOK DEF JobDone, AgentDown, Agent

-----------------------------------------------------------------------------
(* The steps, one by one. *)

LEMMA InvInit == Init => DispatchInv
<1> SUFFICES ASSUME Init PROVE DispatchInv
  OBVIOUS
<1>1. TypeOK
  <2>1. run \in [Runs -> RunRow]
    BY DEF Init, RunRow, Lifecycles, NoResult
  <2>2. worker \in [Workers -> WorkerRow]
    <3>1. \A c \in Concurrencies, u \in ServeSets :
            [status |-> "absent", enabled |-> TRUE, fresh |-> FALSE, shutdown |-> FALSE,
             count |-> 0, concurrency |-> c, serves |-> u] \in WorkerRow
      BY DEF WorkerRow
    <3> QED BY <3>1 DEF Init
  <2> QED BY <2>1, <2>2, AgentDownOK DEF Init, TypeOK
<1>2. \A r \in Runs : RowOK(run[r])
  BY ConstantsAssumption DEF Init, RowOK
<1>3. OwnersRegistered
  BY DEF Init, OwnersRegistered
<1>4. JobsHanded
  BY AgentDownOK DEF Init, JobsHanded, Handed
<1>5. OneExecutor
  BY AgentDownOK DEF Init, OneExecutor
<1> QED BY <1>1, <1>2, <1>3, <1>4, <1>5 DEF DispatchInv

LEMMA AgentStepLemma ==
  ASSUME DispatchInv, NEW w \in Workers, AgentStep(w)
  PROVE  DispatchInv'
<1>1. /\ agent[w] \in Agent /\ agent \in [Workers -> Agent]
      /\ agent[w].run # NoRun <=> agent[w].pc \in {"executing", "reporting"}
      /\ agent[w].run # NoRun => 0 < agent[w].attempt
                                 /\ agent[w].attempt <= run[agent[w].run].attempts
  BY DEF DispatchInv, TypeOK, JobsHanded, Handed
<1>2. \A p \in {"idle", "exiting"}, b \in BOOLEAN :
        /\ [agent[w] EXCEPT !.pc = p] \in Agent /\ [agent[w] EXCEPT !.stop = b] \in Agent
        /\ [agent[w] EXCEPT !.stop = b, !.pc = p] \in Agent
  BY <1>1 DEF Agent
<1>3. CASE FetchConfig(w)
  <2>1. TablesStep
    <3> DEFINE row == [AuthWorker(w) EXCEPT !.shutdown = FALSE]
    <3>1. row \in WorkerRow /\ row.status \in Known
      BY <1>3, AuthLemma DEF FetchConfig, WorkerRow, Known
    <3> HIDE DEF row
    <3> QED BY <1>3, <3>1, ContactLike DEF FetchConfig, row
  <2>2. JobsStep
    <3> DEFINE a == [agent[w] EXCEPT !.pc = "idle"]
    <3>1. agent' = [agent EXCEPT ![w] = a] /\ late' = late
      BY <1>1, <1>3 DEF FetchConfig
    <3>2. a \in Agent /\ a.run = NoRun /\ a.pc = "idle"
      <4>1. agent[w].run = NoRun BY <1>1, <1>3 DEF FetchConfig
      <4> QED BY <1>1, <4>1 DEF Agent
    <3> HIDE DEF a
    <3> QED BY <3>1, <3>2, JobsKept
  <2> QED BY <2>1, <2>2, StepLemma
<1>4. CASE PollJob(w)
  BY <1>4, PollJobLemma
<1>5. CASE PollNothing(w)
  <2>1. TablesStep
    BY <1>5, ContactLemma DEF PollNothing
  <2>2. JobsStep
    <3> DEFINE a == [agent[w] EXCEPT !.stop = TRUE, !.pc = "exiting"]
    <3>1. a \in Agent /\ a.run = NoRun /\ a.pc = "exiting"
      BY ZenonT(60), <1>1, <1>2, <1>5 DEF PollNothing, Agent
    <3>2. late' = late /\ (agent' = agent \/ agent' = [agent EXCEPT ![w] = a])
      BY <1>1, <1>5 DEF PollNothing
    <3> HIDE DEF a
    <3> QED BY <3>1, <3>2, JobsKept, AgentsAtRest
  <2> QED BY <2>1, <2>2, StepLemma
<1>6. CASE PollTimeout(w)
  <2>1. TablesStep
    BY <1>6, RestLemma DEF PollTimeout
  <2>2. JobsStep
    <3> DEFINE p == IF agent[w].stop THEN "exiting" ELSE "idle"
               a == [agent[w] EXCEPT !.pc = p]
               m == Sent("poll", w)
    <3>1. p \in {"idle", "exiting"} /\ agent[w].run = NoRun
      BY <1>1, <1>6 DEF PollTimeout
    <3>2. a \in Agent /\ a.run = NoRun /\ a.pc = p
      <4> HIDE DEF p
      <4> QED BY <1>1, <3>1 DEF Agent
    <3>3. agent' = [agent EXCEPT ![w] = a]
      BY <1>1, <1>6 DEF PollTimeout
    <3>4. m \in Request /\ m.run = NoRun /\ m.kind = "poll" /\ GiveUpOn(m)
      BY <1>1, <1>6, <3>1 DEF PollTimeout, Sent, Request, Agent
    <3> HIDE DEF a, m, p
    <3> QED BY <3>1, <3>2, <3>3, <3>4, GiveUpLemma
  <2> QED BY <2>1, <2>2, StepLemma
<1>7. CASE Heartbeat(w)
  <2>1. TablesStep
    BY <1>7, HeartbeatLemma DEF Heartbeat
  <2>2. JobsStep
    <3> DEFINE a == [agent[w] EXCEPT !.stop = worker[w].shutdown]
    <3>1. worker[w].shutdown \in BOOLEAN
      BY DEF DispatchInv, TypeOK, WorkerRow
    <3>2. a \in Agent /\ a.run = agent[w].run /\ a.attempt = agent[w].attempt
          /\ a.pc = agent[w].pc
      BY ZenonT(60), <1>1, <1>2, <3>1 DEF Agent
    <3>3. agent' = [agent EXCEPT ![w] = a] /\ late' = late
      BY <1>1, <1>7 DEF Heartbeat
    <3> HIDE DEF a
    <3> QED BY <1>1, <3>2, <3>3, JobsKept
  <2> QED BY <2>1, <2>2, StepLemma
<1>8. CASE HeartbeatTimeout(w)
  <2>1. TablesStep
    BY <1>8, RestLemma DEF HeartbeatTimeout
  <2>2. JobsStep
    <3> DEFINE m == [Sent("heartbeat", w) EXCEPT !.run = NoRun, !.attempt = 0]
    <3>1. m \in Request /\ m.run = NoRun /\ m.kind = "heartbeat" /\ GiveUpOn(m)
      BY <1>1, <1>8 DEF HeartbeatTimeout, Sent, Request, Agent
    <3>2. agent' = [agent EXCEPT ![w] = agent[w]]
      BY <1>1, <1>8 DEF HeartbeatTimeout
    <3> HIDE DEF m
    <3> QED BY <1>1, <3>1, <3>2, GiveUpLemma
  <2> QED BY <2>1, <2>2, StepLemma
<1>9. CASE ReportProgress(w)
  <2>1. TablesStep
    BY <1>9, ContactLemma DEF ReportProgress
  <2>2. JobsStep
    BY <1>9, AgentsAtRest DEF ReportProgress
  <2> QED BY <2>1, <2>2, StepLemma
<1>10. CASE FinishJob(w)
  <2>1. TablesStep
    BY <1>10, RestLemma DEF FinishJob
  <2>2. JobsStep
    <3> DEFINE a == [agent[w] EXCEPT !.pc = "reporting"]
    <3>1. a \in Agent /\ a.run = agent[w].run /\ a.attempt = agent[w].attempt
          /\ a.pc = "reporting" /\ agent[w].run # NoRun
      BY <1>1, <1>10 DEF FinishJob, Agent
    <3>2. agent' = [agent EXCEPT ![w] = a] /\ late' = late
      BY <1>1, <1>10 DEF FinishJob
    <3> HIDE DEF a
    <3> QED BY <3>1, <3>2, JobsKept
  <2> QED BY <2>1, <2>2, StepLemma
<1>11. CASE ReportResult(w)
  <2>1. TablesStep
    <3>1. agent[w].run \in Runs /\ agent[w].attempt \in Nat /\ agent[w].run # NoRun
      BY <1>1, <1>11 DEF ReportResult, Agent
    <3>2. CASE Registered(w)
      BY <1>1, <1>11, <3>1, <3>2, ResultLemma DEF ReportResult
    <3>3. CASE ~Registered(w)
      BY <1>11, <3>3, RestLemma DEF ReportResult
    <3> QED BY <3>2, <3>3
  <2>2. JobsStep
    <3>1. agent' = [agent EXCEPT ![w] = JobDone(agent[w])] /\ late' = late
      BY <1>11 DEF ReportResult
    <3> QED BY <1>1, <3>1, JobDoneOK, JobsKept
  <2> QED BY <2>1, <2>2, StepLemma
<1>12. CASE ReportTimeout(w)
  <2>1. TablesStep
    BY <1>12, RestLemma DEF ReportTimeout
  <2>2. JobsStep
    <3> DEFINE more == [agent[w] EXCEPT !.tries = agent[w].tries + 1]
               m == Sent("result", w)
    <3>1. agent[w].tries + 1 \in Nat /\ agent[w].run # NoRun
      BY <1>1, <1>12 DEF ReportTimeout, Agent
    <3>2. more \in Agent /\ more.run = agent[w].run /\ more.attempt = agent[w].attempt
          /\ more.pc = agent[w].pc
      BY <1>1, <3>1 DEF Agent
    <3>3. \/ agent' = [agent EXCEPT ![w] = more]
          \/ agent' = [agent EXCEPT ![w] = JobDone(agent[w])]
      <4>1. CASE agent[w].tries + 1 < ReportTries
        BY <1>12, <4>1 DEF ReportTimeout
      <4>2. CASE ~(agent[w].tries + 1 < ReportTries)
        BY <1>12, <4>2 DEF ReportTimeout
      <4> QED BY <4>1, <4>2
    <3>4. m \in Request /\ m.run = agent[w].run /\ m.attempt = agent[w].attempt /\ GiveUpOn(m)
      BY <1>1, <1>12 DEF ReportTimeout, Sent, Request, Agent
    <3> HIDE DEF more, m
    <3>5. CASE agent' = [agent EXCEPT ![w] = more]
      BY <1>1, <3>1, <3>2, <3>4, <3>5, GiveUpLemma
    <3>6. CASE agent' = [agent EXCEPT ![w] = JobDone(agent[w])]
      BY <1>1, <3>1, <3>4, <3>6, JobDoneOK, GiveUpLemma
    <3> QED BY <3>3, <3>5, <3>6
  <2> QED BY <2>1, <2>2, StepLemma
<1>13. CASE SayGoodbye(w)
  <2>1. TablesStep
    BY <1>13, GoodbyeLemma, RestLemma DEF SayGoodbye
  <2>2. JobsStep
    BY <1>13, AgentDownOK, JobsKept DEF SayGoodbye
  <2> QED BY <2>1, <2>2, StepLemma
<1>14. CASE GoodbyeTimeout(w)
  <2>1. TablesStep
    BY <1>14, RestLemma DEF GoodbyeTimeout
  <2>2. JobsStep
    <3>1. agent[w].run = NoRun
      BY <1>1, <1>14 DEF GoodbyeTimeout, Stopping
    <3>2. Sent("goodbye", w) \in Request /\ Sent("goodbye", w).run = NoRun
          /\ Sent("goodbye", w).kind = "goodbye"
      BY <1>1, <3>1 DEF Sent, Request, Agent
    <3>3. agent' = [agent EXCEPT ![w] = AgentDown] /\ GiveUpOn(Sent("goodbye", w))
      BY <1>14 DEF GoodbyeTimeout
    <3> QED BY <3>2, <3>3, AgentDownOK, GiveUpLemma
  <2> QED BY <2>1, <2>2, StepLemma
<1> QED BY <1>3, <1>4, <1>5, <1>6, <1>7, <1>8, <1>9, <1>10, <1>11, <1>12, <1>13, <1>14
        DEF AgentStep

LEMMA LateLemma ==
  ASSUME DispatchInv, NEW m \in late, LateArrives(m)
  PROVE  DispatchInv'
<1> DEFINE w == m.worker
<1>1. w \in Workers /\ Registered(w) /\ late' \subseteq late /\ agent' = agent
  BY DEF DispatchInv, TypeOK, Request, LateArrives
<1>2. ASSUME NEW r \in Oldest(ClaimableBy(w)), Claim(w, r)
      PROVE  TablesStep
  BY <1>1, <1>2, ClaimLemma DEF Oldest
<1>3. Contact(w) => TablesStep
  BY <1>1, ContactLemma
<1>4. HandleHeartbeat(w) => TablesStep
  BY <1>1, HeartbeatLemma
<1>5. HandleGoodbye(w) => TablesStep
  BY <1>1, GoodbyeLemma
<1>6. ASSUME m.kind = "result", HandleResult(w, m.run, m.attempt)
      PROVE  TablesStep
  <2>1. m.run \in Runs /\ m.attempt \in Nat /\ 0 < m.attempt
        /\ m.attempt <= run[m.run].attempts
    BY <1>6 DEF DispatchInv, TypeOK, Request, JobsHanded, Handed
  <2> QED BY <1>1, <1>6, <2>1, ResultLemma
<1>7. TablesStep
  BY <1>2, <1>3, <1>4, <1>5, <1>6 DEF LateArrives
<1>8. JobsStep
  BY <1>1, AgentsAtRest
<1> QED BY <1>7, <1>8, StepLemma

\* A step that leaves the run table, the processes and the late requests alone,
\* and deletes no worker.
LEMMA AdminLike ==
  ASSUME DispatchInv, NEW w \in Workers, NEW row \in WorkerRow,
         Registered(w) => row.status \in Known,
         worker' = [worker EXCEPT ![w] = row], UNCHANGED <<run, agent, late>>
  PROVE  DispatchInv'
<1>1. /\ worker' \in [Workers -> WorkerRow]
      /\ \A v \in Workers : Registered(v) => Registered(v)'
  BY DEF DispatchInv, TypeOK, Registered, Known
<1>2. \A r \in Runs : run[r].attempts \in Nat
  BY DEF DispatchInv, TypeOK, RunRow
<1>3. TablesStep
  BY <1>1, <1>2 DEF TablesStep, DispatchInv, TypeOK, RunsOK, OwnersRegistered, RowOK, Later
<1>4. JobsStep
  BY AgentsAtRest
<1> QED BY <1>3, <1>4, StepLemma

\* A step that changes one row of the run table, without giving the run to anybody.
LEMMA UserLike ==
  ASSUME DispatchInv, NEW r \in Runs, NEW row \in RunRow, RowOK(row),
         row.attempts = run[r].attempts,
         row.lifecycle = "running" => run[r].lifecycle = "running" /\ row.owner = run[r].owner,
         run' = [run EXCEPT ![r] = row], UNCHANGED <<worker, agent, late>>
  PROVE  DispatchInv'
<1>1. /\ RunsOK(run') /\ run'[r] = row
      /\ \A s \in Runs : s # r => run'[s] = run[s]
  BY DEF DispatchInv, TypeOK, RunsOK
<1>2. \A s \in Runs : run[s].attempts \in Nat
  BY DEF DispatchInv, TypeOK, RunRow
<1>3. Later(run, run') /\ OwnersRegistered'
  BY <1>1, <1>2 DEF DispatchInv, OwnersRegistered, Registered, Later
<1>4. TablesStep
  BY <1>1, <1>3 DEF TablesStep, DispatchInv, TypeOK
<1>5. JobsStep
  BY AgentsAtRest
<1> QED BY <1>4, <1>5, StepLemma

LEMMA AdminStepLemma ==
  ASSUME DispatchInv, AdminStep
  PROVE  DispatchInv'
<1>0. /\ \A r \in Runs : run[r] \in RunRow /\ RowOK(run[r])
      /\ \A w \in Workers : worker[w] \in WorkerRow
      /\ run \in [Runs -> RunRow] /\ worker \in [Workers -> WorkerRow]
  BY DEF DispatchInv, TypeOK
<1>1. ASSUME NEW r \in Runs, Submit(r)
      PROVE  DispatchInv'
  <2> DEFINE row == [run[r] EXCEPT !.lifecycle = "queued"]
  <2>1. row \in RunRow /\ row.attempts = run[r].attempts /\ row.lifecycle = "queued"
        /\ row.owner = run[r].owner /\ row.reclaims = run[r].reclaims
        /\ row.result = run[r].result
    BY <1>0 DEF RunRow, Lifecycles
  <2>2. RowOK(row)
    BY <1>0, <1>1, <2>1, ConstantsAssumption DEF Submit, RowOK
  <2>3. run' = [run EXCEPT ![r] = row] /\ UNCHANGED <<worker, agent, late>>
    BY <1>0, <1>1 DEF Submit
  <2> HIDE DEF row
  <2> QED BY <2>1, <2>2, <2>3, UserLike
<1>2. ASSUME NEW r \in Runs, CancelRun(r)
      PROVE  DispatchInv'
  <2> DEFINE row == [run[r] EXCEPT !.lifecycle = "cancelled"]
  <2>1. row \in RunRow /\ row.attempts = run[r].attempts /\ row.lifecycle = "cancelled"
        /\ row.owner = run[r].owner /\ row.result = run[r].result
    BY <1>0 DEF RunRow, Lifecycles
  <2>2. RowOK(row)
    BY <1>0, <1>2, <2>1 DEF CancelRun, RowOK
  <2>3. run' = [run EXCEPT ![r] = row] /\ UNCHANGED <<worker, agent, late>>
    BY <1>0, <1>2 DEF CancelRun
  <2> HIDE DEF row
  <2> QED BY <2>1, <2>2, <2>3, UserLike
<1>3. ASSUME NEW w \in Workers, Register(w)
      PROVE  DispatchInv'
  <2> DEFINE row == [worker[w] EXCEPT !.status = "offline", !.count = 0]
  <2>1. row \in WorkerRow /\ row.status \in Known
    BY <1>0 DEF WorkerRow, Known
  <2>2. worker' = [worker EXCEPT ![w] = row] /\ UNCHANGED <<run, agent, late>>
    BY <1>0, <1>3 DEF Register
  <2> HIDE DEF row
  <2> QED BY <2>1, <2>2, AdminLike
<1>4. ASSUME NEW w \in Workers, UpdateWorker(w)
      PROVE  DispatchInv'
  <2>1. PICK b \in BOOLEAN, c \in Concurrencies, s \in ServeSets :
          worker' = [worker EXCEPT ![w].enabled = b, ![w].concurrency = c, ![w].serves = s]
    BY <1>4 DEF UpdateWorker
  <2> DEFINE row == [worker[w] EXCEPT !.enabled = b, !.concurrency = c, !.serves = s]
  <2>2. row \in WorkerRow /\ row.status \in Known
    BY ZenonT(60), <1>0, <1>4 DEF UpdateWorker, WorkerRow, Registered, Known
  <2>3. worker' = [worker EXCEPT ![w] = row] /\ UNCHANGED <<run, agent, late>>
    BY <1>0, <1>4, <2>1 DEF UpdateWorker
  <2> HIDE DEF row
  <2> QED BY <2>2, <2>3, AdminLike
<1>5. ASSUME NEW w \in Workers, RequestShutdown(w)
      PROVE  DispatchInv'
  <2> DEFINE row == [worker[w] EXCEPT !.shutdown = TRUE]
  <2>1. row \in WorkerRow /\ row.status \in Known
    BY <1>0, <1>5 DEF RequestShutdown, WorkerRow, Registered, Known
  <2>2. worker' = [worker EXCEPT ![w] = row] /\ UNCHANGED <<run, agent, late>>
    BY <1>0, <1>5 DEF RequestShutdown
  <2> HIDE DEF row
  <2> QED BY <2>1, <2>2, AdminLike
<1>6. ASSUME NEW w \in Workers, DeleteWorker(w)
      PROVE  DispatchInv'
  <2> DEFINE R == Reclaim(run, {w})
  <2>1. /\ RunsOK(R)
        /\ \A r \in Runs : /\ R[r].attempts = run[r].attempts
                           /\ R[r].lifecycle = "running" => R[r] = run[r] /\ run[r].owner # w
    BY <1>0, ReclaimLemma DEF RunsOK
  <2> HIDE DEF R
  <2>2. run' = [r \in Runs |-> IF R[r].owner = w THEN [R[r] EXCEPT !.owner = NoWorker] ELSE R[r]]
    BY <1>6 DEF DeleteWorker, R
  <2>3. ASSUME NEW r \in Runs
        PROVE  /\ run'[r] \in RunRow /\ RowOK(run'[r]) /\ run'[r].attempts = run[r].attempts
               /\ run'[r].lifecycle = "running" => run'[r] = run[r] /\ run[r].owner # w
    <3>1. R[r] \in RunRow /\ RowOK(R[r])
      BY <2>1 DEF RunsOK
    <3>2. CASE R[r].owner = w
      <4> DEFINE row == [R[r] EXCEPT !.owner = NoWorker]
      <4>1. row \in RunRow /\ row.owner = NoWorker /\ row.lifecycle = R[r].lifecycle
            /\ row.attempts = R[r].attempts /\ row.reclaims = R[r].reclaims
            /\ row.result = R[r].result
        BY <3>1 DEF RunRow
      <4>2. R[r].lifecycle # "running"
        BY <2>1, <3>2
      <4>3. RowOK(row)
        BY <3>1, <4>1, <4>2 DEF RowOK
      <4>4. run'[r] = row
        BY <2>2, <3>2
      <4> HIDE DEF row
      <4> QED BY <2>1, <4>1, <4>2, <4>3, <4>4
    <3>3. CASE R[r].owner # w
      <4>1. run'[r] = R[r]
        BY <2>2, <3>3
      <4> QED BY <2>1, <3>1, <4>1
    <3> QED BY <3>2, <3>3
  <2>4. RunsOK(run')
    BY <2>2, <2>3 DEF RunsOK
  <2>5. worker' \in [Workers -> WorkerRow] /\ \A v \in Workers : v # w => worker'[v] = worker[v]
    <3>1. [worker[w] EXCEPT !.status = "deleted"] \in WorkerRow
      BY <1>0 DEF WorkerRow
    <3>2. worker' = [worker EXCEPT ![w] = [worker[w] EXCEPT !.status = "deleted"]]
      BY <1>0, <1>6 DEF DeleteWorker
    <3> QED BY <1>0, <3>1, <3>2
  <2>6. OwnersRegistered'
    <3>1. ASSUME NEW r \in Runs, run'[r].lifecycle = "running"
          PROVE  Registered(run[r].owner)'
      <4>1. run'[r] = run[r] /\ run[r].owner # w /\ run[r].owner \in Workers
        BY <1>0, <2>3, <3>1 DEF RowOK
      <4> QED BY <2>5, <3>1, <4>1 DEF DispatchInv, OwnersRegistered, Registered
    <3> QED BY <3>1 DEF OwnersRegistered
  <2>7. \A r \in Runs : run[r].attempts \in Nat
    BY <1>0 DEF RunRow
  <2>8. Later(run, run')
    BY <2>3, <2>7 DEF Later
  <2>9. JobsStep
    BY <1>6, AgentsAtRest DEF DeleteWorker
  <2> QED BY <2>4, <2>5, <2>6, <2>8, <2>9, StepLemma DEF TablesStep
<1> QED BY <1>1, <1>2, <1>3, <1>4, <1>5, <1>6 DEF AdminStep

LEMMA ReapLemma ==
  ASSUME DispatchInv, Reap
  PROVE  DispatchInv'
<1>1. RunsOK(run) /\ worker \in [Workers -> WorkerRow] /\ \A r \in Runs : run[r].attempts \in Nat
  BY DEF DispatchInv, TypeOK, RunsOK, RunRow
<1>2. /\ RunsOK(run')
      /\ \A r \in Runs : /\ run'[r].attempts = run[r].attempts
                         /\ run'[r].lifecycle = "running" => run'[r] = run[r]
  <2> DEFINE R == Reclaim(run, Stale)
  <2>1. /\ RunsOK(R)
        /\ \A r \in Runs : /\ R[r].attempts = run[r].attempts
                           /\ R[r].lifecycle = "running" => R[r] = run[r]
    BY <1>1, ReclaimLemma
  <2>2. run' = ExpireUnserviceable(R)
    BY DEF Reap
  <2> HIDE DEF R
  <2> QED BY <2>1, <2>2, ExpireLemma
<1>3. /\ worker' \in [Workers -> WorkerRow]
      /\ \A v \in Workers : Registered(v) => Registered(v)'
  <2>1. \A w \in Workers :
          /\ [worker[w] EXCEPT !.status = "offline", !.count = 0] \in WorkerRow
          /\ [worker[w] EXCEPT !.status = "offline", !.count = 0].status = "offline"
    BY <1>1 DEF WorkerRow
  <2> QED BY <1>1, <2>1 DEF Reap, Registered
<1>4. OwnersRegistered'
  BY <1>2, <1>3 DEF DispatchInv, OwnersRegistered, RowOK
<1>5. Later(run, run')
  BY <1>1, <1>2 DEF Later
<1>6. JobsStep
  BY AgentsAtRest DEF Reap
<1> QED BY <1>2, <1>3, <1>4, <1>5, <1>6, StepLemma DEF TablesStep

\* Time passing for a heartbeat or a run, and a process that is told to stop or dies.
LEMMA EnvironmentLemma ==
  ASSUME DispatchInv, NEW w \in Workers, Signal(w) \/ Crash(w) \/ HeartbeatLapses(w)
  PROVE  DispatchInv'
<1>1. agent[w] \in Agent /\ worker[w] \in WorkerRow
  BY DEF DispatchInv, TypeOK
<1>2. CASE Signal(w)
  <2> DEFINE a == [agent[w] EXCEPT !.stop = TRUE]
  <2>1. a \in Agent /\ a.run = agent[w].run /\ a.attempt = agent[w].attempt /\ a.pc = agent[w].pc
        /\ (agent[w].run # NoRun <=> agent[w].pc \in {"executing", "reporting"})
    BY <1>1 DEF Agent, DispatchInv, JobsHanded
  <2>2. agent' = [agent EXCEPT ![w] = a] /\ UNCHANGED <<run, worker, late>>
    BY <1>1, <1>2 DEF Signal, DispatchInv, TypeOK
  <2> HIDE DEF a
  <2> QED BY <2>1, <2>2, JobsKept, RestLemma, StepLemma
<1>3. CASE Crash(w)
  BY <1>3, AgentDownOK, JobsKept, RestLemma, StepLemma DEF Crash
<1>4. CASE HeartbeatLapses(w)
  <2> DEFINE row == [worker[w] EXCEPT !.fresh = FALSE]
  <2>1. row \in WorkerRow /\ (Registered(w) => row.status \in Known)
    BY <1>1 DEF WorkerRow, Registered, Known
  <2>2. worker' = [worker EXCEPT ![w] = row] /\ UNCHANGED <<run, agent, late>>
    BY <1>1, <1>4 DEF HeartbeatLapses, DispatchInv, TypeOK
  <2> HIDE DEF row
  <2> QED BY <2>1, <2>2, AdminLike
<1> QED BY <1>2, <1>3, <1>4

LEMMA AgeLemma ==
  ASSUME DispatchInv, NEW r \in Runs, RunAges(r)
  PROVE  DispatchInv'
<1> DEFINE row == [run[r] EXCEPT !.old = TRUE]
<1>1. run[r] \in RunRow /\ RowOK(run[r])
  BY DEF DispatchInv, TypeOK
<1>2. /\ row \in RunRow /\ row.attempts = run[r].attempts /\ row.lifecycle = run[r].lifecycle
      /\ row.owner = run[r].owner /\ row.reclaims = run[r].reclaims /\ row.result = run[r].result
  BY <1>1 DEF RunRow
<1>3. RowOK(row)
  BY <1>1, <1>2 DEF RowOK
<1>4. run' = [run EXCEPT ![r] = row] /\ UNCHANGED <<worker, agent, late>>
  BY <1>1 DEF RunAges, DispatchInv, TypeOK
<1> HIDE DEF row
<1> QED BY <1>2, <1>3, <1>4, UserLike

LEMMA InvStep == DispatchInv /\ [Next]_vars => DispatchInv'
<1> SUFFICES ASSUME DispatchInv, [Next]_vars PROVE DispatchInv'
  OBVIOUS
<1>1. ASSUME NEW w \in Workers, AgentStep(w)
      PROVE  DispatchInv'
  BY <1>1, AgentStepLemma
<1>2. ASSUME NEW w \in Workers, Signal(w) \/ Crash(w) \/ HeartbeatLapses(w)
      PROVE  DispatchInv'
  BY <1>2, EnvironmentLemma
<1>3. ASSUME NEW m \in late, LateArrives(m)
      PROVE  DispatchInv'
  BY <1>3, LateLemma
<1>4. ASSUME NEW r \in Runs, RunAges(r)
      PROVE  DispatchInv'
  BY <1>4, AgeLemma
<1>5. CASE Reap
  BY <1>5, ReapLemma
<1>6. CASE AdminStep
  BY <1>6, AdminStepLemma
<1>7. CASE UNCHANGED vars
  BY <1>7 DEF vars, DispatchInv, TypeOK, OwnersRegistered, Registered, JobsHanded, Handed,
              OneExecutor
<1> QED BY <1>1, <1>2, <1>3, <1>4, <1>5, <1>6, <1>7 DEF Next

\* However many workers and runs there are, and whatever is lost, repeated, late,
\* killed or edited, the rows stay well formed, no process is ahead of the rows,
\* and no two processes hold one attempt: the invariant the safety theorems rest on.
THEOREM DispatchInvariant == Spec => []DispatchInv
<1>1. Init => DispatchInv
  BY InvInit
<1>2. DispatchInv /\ [Next]_vars => DispatchInv'
  BY InvStep
<1> QED BY <1>1, <1>2, PTL DEF Spec

\* Every reachable table, process and request is of its type: the columns that
\* the handlers, the reaper and the admin routes write hold values of their sort.
THEOREM TypeCorrect == Spec => []TypeOK
<1>1. DispatchInv => TypeOK
  BY DEF DispatchInv
<1> QED BY <1>1, DispatchInvariant, PTL

\* A running run is owned by a registered worker, and one that is queued, retired
\* or cancelled by nobody: neither reclaim_orphaned_runs, the retirements nor
\* delete_worker leave a stale owner whose late result would be let in.
THEOREM OwnershipCorrect == Spec => []OwnedWhileClaimed
<1>1. DispatchInv => OwnedWhileClaimed
  BY DEF DispatchInv, OwnersRegistered, RowOK, OwnedWhileClaimed
<1> QED BY <1>1, DispatchInvariant, PTL

\* However workers crash, return and repeat their requests, a run is handed out
\* at most OPP_CI_MAX_RECLAIMS + 1 times: the crash loop of a poison run ends.
THEOREM BudgetKept == Spec => []AttemptBudget
<1>1. DispatchInv => AttemptBudget
  BY DEF DispatchInv, RowOK, AttemptBudget
<1> QED BY <1>1, DispatchInvariant, PTL

\* No two worker processes hold the same attempt at a run, and the attempt that
\* is running is in the hands of nobody but the worker the row names.
THEOREM ExecutorUnique == Spec => []OneExecutor
<1>1. DispatchInv => OneExecutor
  BY DEF DispatchInv
<1> QED BY <1>1, DispatchInvariant, PTL

\* The outcome columns agree with the lifecycle: a finished run has the result
\* of an attempt that was made, a retired one the synthetic ERROR, others none.
THEOREM ResultsCorrect == Spec => []ResultMatchesLifecycle
<1>1. ASSUME DispatchInv, NEW r \in Runs
      PROVE  CASE run[r].lifecycle = "finished"  -> run[r].result \in 1..run[r].attempts
               [] run[r].lifecycle = "timed_out" -> run[r].result = Synthetic
               [] OTHER                          -> run[r].result = NoResult
  <2>1. run[r] \in RunRow /\ RowOK(run[r])
    BY <1>1 DEF DispatchInv, TypeOK
  <2>2. run[r].result \in Int /\ run[r].attempts \in Nat
    BY <2>1 DEF RunRow
  <2>3. CASE run[r].lifecycle = "finished"
    BY <2>1, <2>2, <2>3 DEF RowOK
  <2>4. CASE run[r].lifecycle = "timed_out"
    BY <2>1, <2>4 DEF RowOK
  <2>5. CASE run[r].lifecycle \notin {"finished", "timed_out"}
    BY <2>1, <2>5 DEF RowOK
  <2> QED BY <2>3, <2>4, <2>5
<1>2. DispatchInv => ResultMatchesLifecycle
  BY <1>1 DEF ResultMatchesLifecycle
<1> QED BY <1>2, DispatchInvariant, PTL

-----------------------------------------------------------------------------
(* Rows and tables. *)

\* What a reclaim makes of a row: nothing, or its attempt is lost.
TakenBack(old, new) ==
  \/ new = old
  \/ /\ old.lifecycle = "running" /\ new.attempts = old.attempts
     /\ \/ new.lifecycle = "timed_out"
        \/ new.lifecycle = "queued" /\ old.attempts < MaxReclaims + 1

\* A step of the life of a run, in terms of its row.
Lived(old, new) ==
  \/ /\ new.attempts = old.attempts
     /\ \/ new.lifecycle = old.lifecycle
        \/ old.lifecycle = "absent" /\ new.lifecycle = "queued"
        \/ old.lifecycle = "running" /\ new.lifecycle = "queued"
             /\ old.attempts < MaxReclaims + 1
        \/ old.lifecycle = "running" /\ new.lifecycle = "finished"
        \/ old.lifecycle = "queued" /\ new.lifecycle = "cancelled"
        \/ old.lifecycle \in {"queued", "running"} /\ new.lifecycle = "timed_out"
  \/ /\ old.lifecycle \in {"queued", "running"} /\ old.attempts < MaxReclaims + 1
     /\ new.lifecycle = "running" /\ new.attempts = old.attempts + 1

LifeStep == \A r \in Runs : Lived(run[r], run'[r])

LEMMA TakenBackLives ==
  ASSUME NEW old, NEW new, TakenBack(old, new)
  PROVE  Lived(old, new)
BY DEF TakenBack, Lived

LEMMA ReclaimTakesBack ==
  ASSUME NEW R, RunsOK(R), NEW W, NEW r \in Runs
  PROVE  TakenBack(R[r], Reclaim(R, W)[r])
<1>1. R[r] \in RunRow /\ RowOK(R[r])
  BY DEF RunsOK
<1>2. CASE R[r].lifecycle = "running" /\ R[r].owner \in W
  <2> DEFINE new == ReclaimRow(R[r])
  <2>1. Reclaim(R, W)[r] = new
    BY <1>2 DEF Reclaim
  <2>2. /\ new \in RunRow /\ RowOK(new) /\ new.attempts = R[r].attempts
        /\ new.lifecycle \in {"queued", "timed_out"}
    BY <1>1, <1>2, ReclaimRowLemma
  <2> HIDE DEF new
  <2>3. new.lifecycle = "queued" => R[r].attempts < MaxReclaims + 1
    <3>1. new.reclaims \in Nat /\ MaxReclaims \in Nat
      BY <2>2, ConstantsAssumption DEF RunRow
    <3> QED BY <2>2, <3>1 DEF RowOK
  <2> QED BY <1>2, <2>1, <2>2, <2>3 DEF TakenBack
<1>3. CASE ~(R[r].lifecycle = "running" /\ R[r].owner \in W)
  BY <1>3 DEF Reclaim, TakenBack
<1> QED BY <1>2, <1>3

LEMMA AuthTakesBack ==
  ASSUME DispatchInv, NEW w \in Workers, Registered(w), NEW r \in Runs
  PROVE  TakenBack(run[r], AuthRun(w)[r])
<1>1. RunsOK(run)
  BY DEF DispatchInv, TypeOK, RunsOK
<1> QED BY <1>1, ReclaimTakesBack DEF AuthRun, TakenBack

-----------------------------------------------------------------------------
(* Transactions. *)

LEMMA ContactLives ==
  ASSUME DispatchInv, NEW w \in Workers, Registered(w), run' = AuthRun(w)
  PROVE  LifeStep
BY AuthTakesBack, TakenBackLives DEF LifeStep

LEMMA RestLives ==
  ASSUME UNCHANGED run
  PROVE  LifeStep
BY DEF LifeStep, Lived

LEMMA ClaimLives ==
  ASSUME DispatchInv, NEW w \in Workers, Registered(w), NEW r \in ClaimableBy(w), Claim(w, r)
  PROVE  LifeStep
<1> DEFINE R == AuthRun(w)
<1>1. RunsOK(R) /\ \A s \in Runs : TakenBack(run[s], R[s])
  BY AuthLemma, AuthTakesBack
<1>2. r \in Runs /\ R[r].lifecycle = "queued" /\ R[r] \in RunRow /\ RowOK(R[r])
  BY <1>1 DEF ClaimableBy, RunsOK
<1>3. run' = [R EXCEPT ![r] = ClaimRow(R[r], w)] /\ R \in [Runs -> RunRow]
  BY <1>1 DEF Claim, RunsOK
<1>4. run'[r] = ClaimRow(R[r], w) /\ \A s \in Runs : s # r => run'[s] = R[s]
  BY <1>2, <1>3
<1> HIDE DEF R
<1>5. R[r].attempts < MaxReclaims + 1
  <2>1. R[r].reclaims \in Nat /\ MaxReclaims \in Nat
    BY <1>2, ConstantsAssumption DEF RunRow
  <2> QED BY <1>2, <2>1 DEF RowOK
<1>6. run'[r].lifecycle = "running" /\ run'[r].attempts = R[r].attempts + 1
  BY <1>2, <1>4, ClaimRowLemma
<1>7. R[r].attempts = run[r].attempts /\ run[r].lifecycle \in {"queued", "running"}
  BY <1>1, <1>2 DEF TakenBack
<1>8. Lived(run[r], run'[r])
  BY <1>5, <1>6, <1>7 DEF Lived
<1> QED BY <1>1, <1>4, <1>8, TakenBackLives DEF LifeStep

LEMMA ResultLives ==
  ASSUME DispatchInv, NEW w \in Workers, Registered(w), NEW r \in Runs,
         NEW n \in Nat, 0 < n, n <= run[r].attempts, HandleResult(w, r, n)
  PROVE  LifeStep
<1> DEFINE R == AuthRun(w)
<1>1. /\ RunsOK(R)
      /\ \A s \in Runs : TakenBack(run[s], R[s]) /\ R[s].attempts = run[s].attempts
  BY AuthLemma, AuthTakesBack
<1>2. CASE R[r].owner # w
  BY <1>2, ContactLives DEF HandleResult, Contact
<1>3. CASE R[r].owner = w
  <2>1. R[r] \in RunRow /\ RowOK(R[r])
    BY <1>1 DEF RunsOK
  <2>2. run' = [R EXCEPT ![r] = FinishRow(R[r], n)] /\ R \in [Runs -> RunRow]
    BY <1>1, <1>3 DEF HandleResult, RunsOK
  <2>3. run'[r] = FinishRow(R[r], n) /\ \A s \in Runs : s # r => run'[s] = R[s]
    BY <2>2
  <2>4. run'[r].lifecycle = "finished" /\ run'[r].attempts = R[r].attempts
    BY <1>1, <1>3, <2>1, <2>3, FinishRowLemma
  <2> HIDE DEF R
  <2>5. R[r].lifecycle \in {"running", "finished"}
    BY <1>3, <2>1, ConstantsAssumption DEF RowOK
  <2>6. R[r] = run[r]
    BY <1>1, <2>5 DEF TakenBack
  <2>7. Lived(run[r], run'[r])
    BY <2>4, <2>5, <2>6 DEF Lived
  <2> QED BY <1>1, <2>3, <2>7, TakenBackLives DEF LifeStep
<1> QED BY <1>2, <1>3

LEMMA ReapLives ==
  ASSUME DispatchInv, Reap
  PROVE  LifeStep
<1> DEFINE R == Reclaim(run, Stale)
<1>1. RunsOK(run)
  BY DEF DispatchInv, TypeOK, RunsOK
<1>2. RunsOK(R) /\ \A r \in Runs : TakenBack(run[r], R[r]) /\ R[r].attempts = run[r].attempts
  BY <1>1, ReclaimLemma, ReclaimTakesBack
<1>3. run' = ExpireUnserviceable(R)
  BY DEF Reap
<1> HIDE DEF R
<1>4. SUFFICES ASSUME NEW r \in Runs PROVE Lived(run[r], run'[r])
  BY DEF LifeStep
<1>5. R[r] \in RunRow /\ RowOK(R[r])
  BY <1>2 DEF RunsOK
<1>6. CASE run'[r] = R[r]
  BY <1>2, <1>6, TakenBackLives
<1>7. CASE R[r].lifecycle = "queued" /\ run'[r] = RetireRow(R[r])
  <2>1. run'[r].lifecycle = "timed_out" /\ run'[r].attempts = run[r].attempts
    BY <1>2, <1>5, <1>7, RetireRowLemma
  <2>2. run[r].lifecycle \in {"queued", "running"}
    BY <1>2, <1>7 DEF TakenBack
  <2> QED BY <2>1, <2>2 DEF Lived
<1> QED BY <1>3, <1>6, <1>7 DEF ExpireUnserviceable

-----------------------------------------------------------------------------
(* Actions. *)

LEMMA AgentLives ==
  ASSUME DispatchInv, NEW w \in Workers, AgentStep(w)
  PROVE  LifeStep
<1>1. CASE FetchConfig(w)
  BY <1>1, ContactLives DEF FetchConfig
<1>2. CASE PollJob(w)
  BY <1>2, ClaimLives DEF PollJob, Oldest
<1>3. CASE PollNothing(w)
  BY <1>3, ContactLives DEF PollNothing, Contact
<1>4. CASE Heartbeat(w)
  BY <1>4, ContactLives DEF Heartbeat, HandleHeartbeat
<1>5. CASE ReportProgress(w)
  BY <1>5, ContactLives DEF ReportProgress, Contact
<1>6. CASE ReportResult(w)
  <2>1. agent[w].run \in Runs /\ agent[w].attempt \in Nat /\ 0 < agent[w].attempt
        /\ agent[w].attempt <= run[agent[w].run].attempts
    BY <1>6 DEF ReportResult, DispatchInv, TypeOK, Agent, JobsHanded, Handed
  <2> QED BY <1>6, <2>1, ResultLives, RestLives DEF ReportResult
<1>7. CASE SayGoodbye(w)
  BY <1>7, ContactLives, RestLives DEF SayGoodbye, HandleGoodbye
<1>8. CASE PollTimeout(w) \/ HeartbeatTimeout(w) \/ FinishJob(w) \/ ReportTimeout(w)
           \/ GoodbyeTimeout(w)
  BY <1>8, RestLives DEF PollTimeout, HeartbeatTimeout, FinishJob, ReportTimeout, GoodbyeTimeout
<1> QED BY <1>1, <1>2, <1>3, <1>4, <1>5, <1>6, <1>7, <1>8 DEF AgentStep

LEMMA LateLives ==
  ASSUME DispatchInv, NEW m \in late, LateArrives(m)
  PROVE  LifeStep
<1> DEFINE w == m.worker
<1>1. w \in Workers /\ Registered(w)
  BY DEF DispatchInv, TypeOK, Request, LateArrives
<1>2. ASSUME NEW r \in Oldest(ClaimableBy(w)), Claim(w, r)
      PROVE  LifeStep
  BY <1>1, <1>2, ClaimLives DEF Oldest
<1>3. Contact(w) \/ HandleHeartbeat(w) \/ HandleGoodbye(w) => LifeStep
  BY <1>1, ContactLives DEF Contact, HandleHeartbeat, HandleGoodbye
<1>4. ASSUME m.kind = "result", HandleResult(w, m.run, m.attempt)
      PROVE  LifeStep
  <2>1. m.run \in Runs /\ m.attempt \in Nat /\ 0 < m.attempt
        /\ m.attempt <= run[m.run].attempts
    BY <1>4 DEF DispatchInv, TypeOK, Request, JobsHanded, Handed
  <2> QED BY <1>1, <1>4, <2>1, ResultLives
<1> QED BY <1>2, <1>3, <1>4 DEF LateArrives

\* A user moves one run; an admin's delete takes back those of a worker.
LEMMA AdminLives ==
  ASSUME DispatchInv, AdminStep
  PROVE  LifeStep
<1>1. run \in [Runs -> RunRow] /\ RunsOK(run)
  BY DEF DispatchInv, TypeOK, RunsOK
<1>2. ASSUME NEW r \in Runs, Submit(r) \/ CancelRun(r)
      PROVE  LifeStep
  <2>1. PICK to \in {"queued", "cancelled"} :
          /\ run' = [run EXCEPT ![r] = [run[r] EXCEPT !.lifecycle = to]]
          /\ \/ run[r].lifecycle = "absent" /\ to = "queued"
             \/ run[r].lifecycle = "queued" /\ to = "cancelled"
    BY <1>1, <1>2 DEF Submit, CancelRun
  <2>2. run'[r] = [run[r] EXCEPT !.lifecycle = to] /\ \A s \in Runs : s # r => run'[s] = run[s]
    BY <1>1, <2>1
  <2>3. run'[r].lifecycle = to /\ run'[r].attempts = run[r].attempts
    BY SMTT(40), <1>1, <2>2 DEF RunRow
  <2> QED BY <2>1, <2>2, <2>3 DEF LifeStep, Lived
<1>3. ASSUME NEW w \in Workers, Register(w) \/ UpdateWorker(w) \/ RequestShutdown(w)
      PROVE  LifeStep
  BY <1>3, RestLives DEF Register, UpdateWorker, RequestShutdown
<1>4. ASSUME NEW w \in Workers, DeleteWorker(w)
      PROVE  LifeStep
  <2> DEFINE R == Reclaim(run, {w})
  <2>1. RunsOK(R) /\ \A r \in Runs : TakenBack(run[r], R[r])
    BY <1>1, ReclaimLemma, ReclaimTakesBack
  <2>2. run' = [r \in Runs |-> IF R[r].owner = w THEN [R[r] EXCEPT !.owner = NoWorker] ELSE R[r]]
    BY <1>4 DEF DeleteWorker
  <2> HIDE DEF R
  <2>3. ASSUME NEW r \in Runs
        PROVE  Lived(run[r], run'[r])
    <3>1. R[r] \in RunRow
      BY <2>1 DEF RunsOK
    <3>2. run'[r].lifecycle = R[r].lifecycle /\ run'[r].attempts = R[r].attempts
      BY <2>2, <3>1 DEF RunRow
    <3>3. Lived(run[r], R[r])
      BY <2>1, TakenBackLives
    <3> QED BY <3>2, <3>3 DEF Lived
  <2> QED BY <2>3 DEF LifeStep
<1> QED BY <1>2, <1>3, <1>4 DEF AdminStep

LEMMA NextLives ==
  ASSUME DispatchInv, [Next]_vars
  PROVE  LifeStep
<1>1. ASSUME NEW w \in Workers, AgentStep(w)
      PROVE  LifeStep
  BY <1>1, AgentLives
<1>2. ASSUME NEW w \in Workers, Signal(w) \/ Crash(w) \/ HeartbeatLapses(w)
      PROVE  LifeStep
  BY <1>2, RestLives DEF Signal, Crash, HeartbeatLapses
<1>3. ASSUME NEW m \in late, LateArrives(m)
      PROVE  LifeStep
  BY <1>3, LateLives
<1>4. ASSUME NEW r \in Runs, RunAges(r)
      PROVE  LifeStep
  <2>1. run \in [Runs -> RunRow]
    BY DEF DispatchInv, TypeOK
  <2>2. run' = [run EXCEPT ![r] = [run[r] EXCEPT !.old = TRUE]]
    BY <1>4, <2>1 DEF RunAges
  <2>3. run'[r].lifecycle = run[r].lifecycle /\ run'[r].attempts = run[r].attempts
        /\ \A s \in Runs : s # r => run'[s] = run[s]
    BY <2>1, <2>2 DEF RunRow
  <2> QED BY <2>3 DEF LifeStep, Lived
<1>5. CASE Reap
  BY <1>5, ReapLives
<1>6. CASE AdminStep
  BY <1>6, AdminLives
<1>7. CASE UNCHANGED vars
  BY <1>7, RestLives DEF vars
<1> QED BY <1>1, <1>2, <1>3, <1>4, <1>5, <1>6, <1>7 DEF Next

\* The dispatch core keeps what TestRunLifecycle promises of a run: whatever is
\* lost, late, repeated, killed or edited, a run that has ended never changes its
\* lifecycle, only a queued run is cancelled, and a run that is handed out again
\* has attempts left.
THEOREM ImplementsRunLife == Spec => RunsLiveAsPromised
<1>1. Init => Life!LifeInit
  BY DEF Init, Life!LifeInit
<1>2. DispatchInv /\ [Next]_vars => [Life!LifeNext]_(Life!lifeVars)
  <2> SUFFICES ASSUME DispatchInv, [Next]_vars
               PROVE  Life!LifeNext
    OBVIOUS
  <2>1. LifeStep
    BY NextLives
  <2> SUFFICES ASSUME NEW r \in Runs
               PROVE  Life!Live(r) \/ Life!Rest(r)
    BY DEF Life!LifeNext
  <2>2. Lived(run[r], run'[r])
    BY <2>1 DEF LifeStep
  <2> QED
    BY <2>2 DEF Lived, Life!Live, Life!Rest, Life!Enqueue, Life!Attempt, Life!GoBack,
                Life!Finish, Life!Cancel, Life!Retire, Life!Moves
<1> QED BY <1>1, <1>2, DispatchInvariant, PTL DEF Spec, RunsLiveAsPromised, Life!LifeSafety

\* NoPhantomLoad for one worker, of a run table and a row of the worker table.
LoadOK(R, row, w) ==
  /\ row.count <= Cardinality(RunningOn(R, w))
  /\ row.status = "busy" => RunningOn(R, w) # {}

-----------------------------------------------------------------------------
(* Sets of running runs. *)

LEMMA FiniteRunning ==
  ASSUME NEW R, NEW w
  PROVE  IsFiniteSet(RunningOn(R, w)) /\ Cardinality(RunningOn(R, w)) \in Nat
BY ConstantsAssumption, FS_Subset, FS_CardinalityType DEF RunningOn

LEMMA NoLoad ==
  ASSUME NEW R, NEW row, row.count = 0, row.status # "busy", NEW w
  PROVE  LoadOK(R, row, w)
BY FiniteRunning DEF LoadOK

\* A job count that does not exceed the running runs, on a worker that is busy
\* only when it is full.
LEMMA FullIsBusy ==
  ASSUME NEW R, NEW row, NEW w, row.count \in Nat, row.concurrency \in Nat \ {0},
         row.count <= Cardinality(RunningOn(R, w)),
         row.status = "busy" => row.count >= row.concurrency
  PROVE  LoadOK(R, row, w)
<1>1. RunningOn(R, w) = {} => Cardinality(RunningOn(R, w)) = 0
  BY FS_EmptySet
<1> QED BY <1>1, FiniteRunning DEF LoadOK

-----------------------------------------------------------------------------
(* Authentication. *)

LEMMA ReclaimKeepsOthers ==
  ASSUME NEW R, RunsOK(R), NEW W, NEW v \in Workers, v \notin W
  PROVE  RunningOn(Reclaim(R, W), v) = RunningOn(R, v)
<1>1. ASSUME NEW r \in Runs, R[r].lifecycle = "running", R[r].owner = v
      PROVE  Reclaim(R, W)[r] = R[r]
  BY <1>1 DEF Reclaim
<1>2. \A r \in Runs : Reclaim(R, W)[r].lifecycle = "running" => Reclaim(R, W)[r] = R[r]
  BY ReclaimLemma
<1> QED BY <1>1, <1>2 DEF RunningOn

LEMMA AuthLoad ==
  ASSUME DispatchInv, NoPhantomLoad, NEW w \in Workers, Registered(w)
  PROVE  /\ LoadOK(AuthRun(w), AuthWorker(w), w)
         /\ \A v \in Workers : v # w => RunningOn(AuthRun(w), v) = RunningOn(run, v)
<1>1. RunsOK(run) /\ worker[w] \in WorkerRow
  BY DEF DispatchInv, TypeOK, RunsOK
<1>2. CASE worker[w].status = "offline"
  <2>1. AuthWorker(w).count = 0 /\ AuthWorker(w).status = "online"
    BY <1>1, <1>2 DEF AuthWorker, WorkerRow
  <2>2. LoadOK(AuthRun(w), AuthWorker(w), w)
    BY <2>1, NoLoad
  <2>3. AuthRun(w) = Reclaim(run, {w})
    BY <1>2 DEF AuthRun
  <2> QED BY <1>1, <2>2, <2>3, ReclaimKeepsOthers
<1>3. CASE worker[w].status # "offline"
  <2>1. AuthWorker(w).count = worker[w].count /\ AuthWorker(w).status = worker[w].status
    BY <1>1, <1>3 DEF AuthWorker, WorkerRow
  <2>2. AuthRun(w) = run
    BY <1>3 DEF AuthRun
  <2> QED BY <2>1, <2>2 DEF NoPhantomLoad, LoadOK
<1> QED BY <1>2, <1>3

-----------------------------------------------------------------------------
(* Transactions of one worker w: the other workers keep what they run. *)

LEMMA LoadStep ==
  ASSUME DispatchInv, NoPhantomLoad, NEW w \in Workers, NEW row \in WorkerRow,
         worker' = [worker EXCEPT ![w] = row],
         \A v \in Workers : v # w => RunningOn(run', v) = RunningOn(run, v),
         row.status \in Known => LoadOK(run', row, w)
  PROVE  NoPhantomLoad'
<1>1. worker'[w] = row /\ \A v \in Workers : v # w => worker'[v] = worker[v]
  BY DEF DispatchInv, TypeOK
<1>2. ASSUME NEW v \in Workers, worker'[v].status \in Known
      PROVE  LoadOK(run', worker'[v], v)
  <2>1. CASE v = w
    BY <1>1, <1>2, <2>1
  <2>2. CASE v # w
    <3>1. worker'[v] = worker[v] /\ RunningOn(run', v) = RunningOn(run, v)
      BY <1>1, <2>2
    <3> QED BY <1>2, <3>1 DEF NoPhantomLoad, LoadOK, Registered, Known
  <2> QED BY <2>1, <2>2
<1> QED BY <1>2 DEF NoPhantomLoad, LoadOK, Registered, Known

LEMMA ContactLoad ==
  ASSUME DispatchInv, NoPhantomLoad, NEW w \in Workers, Registered(w), Contact(w)
  PROVE  NoPhantomLoad'
BY AuthLemma, AuthLoad, LoadStep DEF Contact

LEMMA HeartbeatLoad ==
  ASSUME DispatchInv, NoPhantomLoad, NEW w \in Workers, Registered(w), HandleHeartbeat(w)
  PROVE  NoPhantomLoad'
<1> DEFINE R == AuthRun(w)
           n == Cardinality(RunningOn(R, w))
           row == Reconciled(AuthWorker(w), n)
<1>1. n \in Nat /\ AuthWorker(w) \in WorkerRow /\ AuthWorker(w).status \in Known
  BY FiniteRunning, AuthLemma DEF Known
<1>2. row \in WorkerRow
  BY <1>1, WorkerRowLemma
<1>3. LoadOK(R, row, w)
  <2>1. CASE AuthWorker(w).count = n
    BY <2>1, AuthLoad DEF Reconciled
  <2>2. CASE AuthWorker(w).count # n
    <3>1. AuthWorker(w).concurrency \in Nat \ {0}
      BY <1>1, ConstantsAssumption DEF WorkerRow
    <3>2. /\ row.count = n /\ row.concurrency = AuthWorker(w).concurrency
          /\ row.status = "busy" => n >= AuthWorker(w).concurrency
      BY <1>1, <2>2 DEF Reconciled, WorkerRow
    <3> HIDE DEF row
    <3> QED BY <1>1, <3>1, <3>2, FullIsBusy
  <2> QED BY <2>1, <2>2
<1>4. run' = R /\ worker' = [worker EXCEPT ![w] = row]
  BY DEF HandleHeartbeat
<1>5. \A v \in Workers : v # w => RunningOn(R, v) = RunningOn(run, v)
  BY AuthLoad
<1> HIDE DEF R, row
<1> QED BY <1>2, <1>3, <1>4, <1>5, LoadStep

LEMMA GoodbyeLoad ==
  ASSUME DispatchInv, NoPhantomLoad, NEW w \in Workers, Registered(w), HandleGoodbye(w)
  PROVE  NoPhantomLoad'
<1> DEFINE row == [AuthWorker(w) EXCEPT !.status = "offline", !.count = 0, !.fresh = FALSE]
<1>1. row \in WorkerRow /\ row.count = 0 /\ row.status = "offline"
  BY AuthLemma DEF WorkerRow
<1>2. run' = AuthRun(w) /\ worker' = [worker EXCEPT ![w] = row]
  BY DEF HandleGoodbye
<1> HIDE DEF row
<1> QED BY <1>1, <1>2, AuthLoad, NoLoad, LoadStep

LEMMA ClaimLoad ==
  ASSUME DispatchInv, NoPhantomLoad, NEW w \in Workers, Registered(w),
         NEW r \in ClaimableBy(w), Claim(w, r)
  PROVE  NoPhantomLoad'
<1> DEFINE R == AuthRun(w)
           old == AuthWorker(w)
           row == Busier(old)
<1>1. RunsOK(R) /\ old \in WorkerRow /\ old.status \in Known
  BY AuthLemma DEF Known
<1>2. r \in Runs /\ R[r].lifecycle = "queued" /\ R[r] \in RunRow /\ RowOK(R[r])
  BY <1>1 DEF ClaimableBy, RunsOK
<1>3. run' = [R EXCEPT ![r] = ClaimRow(R[r], w)] /\ R \in [Runs -> RunRow]
      /\ worker' = [worker EXCEPT ![w] = row]
  BY <1>1 DEF Claim, RunsOK
<1>4. /\ run'[r].lifecycle = "running" /\ run'[r].owner = w
      /\ \A s \in Runs : s # r => run'[s] = R[s]
  BY <1>2, <1>3, ClaimRowLemma
<1>5. LoadOK(R, old, w) /\ \A v \in Workers : v # w => RunningOn(R, v) = RunningOn(run, v)
  BY AuthLoad
<1>6. row \in WorkerRow
  BY <1>1, WorkerRowLemma
<1>7. old.count \in Nat /\ row.count = old.count + 1
  BY <1>1 DEF WorkerRow, Busier
<1> HIDE DEF R, old, row
<1>8. RunningOn(run', w) = RunningOn(R, w) \cup {r} /\ r \notin RunningOn(R, w)
  BY <1>2, <1>4 DEF RunningOn
<1>9. Cardinality(RunningOn(run', w)) = Cardinality(RunningOn(R, w)) + 1
  BY <1>8, FiniteRunning, FS_AddElement
<1>10. LoadOK(run', row, w)
  BY <1>5, <1>7, <1>8, <1>9, FiniteRunning DEF LoadOK
<1>11. \A v \in Workers : v # w => RunningOn(run', v) = RunningOn(run, v)
  BY <1>2, <1>4, <1>5 DEF RunningOn
<1> QED BY <1>3, <1>6, <1>10, <1>11, LoadStep

LEMMA ResultLoad ==
  ASSUME DispatchInv, NoPhantomLoad, NEW w \in Workers, Registered(w), NEW r \in Runs,
         NEW n \in Nat, 0 < n, n <= run[r].attempts, HandleResult(w, r, n)
  PROVE  NoPhantomLoad'
<1> DEFINE R == AuthRun(w)
           old == AuthWorker(w)
           row == Freed(old)
           before == RunningOn(R, w)
           after == RunningOn(run', w)
<1>1. /\ RunsOK(R) /\ old \in WorkerRow /\ old.status \in Known
      /\ \A s \in Runs : R[s].attempts = run[s].attempts
  BY AuthLemma DEF Known
<1>2. CASE R[r].owner # w
  BY <1>2, ContactLoad DEF HandleResult
<1>3. CASE R[r].owner = w
  <2>1. /\ run' = [R EXCEPT ![r] = FinishRow(R[r], n)] /\ R \in [Runs -> RunRow]
        /\ worker' = [worker EXCEPT ![w] = row]
    BY <1>1, <1>3 DEF HandleResult, RunsOK
  <2>2. run'[r] = FinishRow(R[r], n) /\ \A s \in Runs : s # r => run'[s] = R[s]
    BY <2>1
  <2>3. run'[r].lifecycle = "finished"
    BY <1>1, <1>3, <2>2, FinishRowLemma DEF RunsOK
  <2>4. LoadOK(R, old, w) /\ \A v \in Workers : v # w => RunningOn(R, v) = RunningOn(run, v)
    BY AuthLoad
  <2>5. row \in WorkerRow
    BY <1>1, WorkerRowLemma
  <2>6. /\ old.count \in Nat /\ old.concurrency \in Nat \ {0}
        /\ row.count \in Nat /\ row.concurrency = old.concurrency
        /\ old.count > 0 => row.count = old.count - 1
        /\ ~(old.count > 0) => row.count = 0
        /\ row.status = "busy" => row.count >= row.concurrency
    BY <1>1, ConstantsAssumption DEF WorkerRow, Freed
  <2> HIDE DEF R, old, row
  <2>7. after = before \ {r}
    BY <2>2, <2>3 DEF RunningOn
  <2>8. Cardinality(before) - 1 <= Cardinality(after) /\ 0 <= Cardinality(after)
    <3>1. IsFiniteSet(before) /\ Cardinality(before) \in Nat /\ Cardinality(after) \in Nat
      BY FiniteRunning
    <3>2. r \in before => Cardinality(after) = Cardinality(before) - 1
      BY <2>7, <3>1, FS_RemoveElement
    <3>3. r \notin before => after = before
      BY <2>7
    <3> QED BY <3>1, <3>2, <3>3
  <2>9. row.count <= Cardinality(after)
    <3>1. old.count <= Cardinality(before)
      BY <2>4 DEF LoadOK
    <3>2. Cardinality(before) \in Nat /\ Cardinality(after) \in Nat
      BY FiniteRunning
    <3> HIDE DEF before, after
    <3> QED BY <2>6, <2>8, <3>1, <3>2
  <2>10. LoadOK(run', row, w)
    BY <2>6, <2>9, FullIsBusy
  <2>11. \A v \in Workers : v # w => RunningOn(run', v) = RunningOn(run, v)
    BY <1>3, <2>2, <2>3, <2>4 DEF RunningOn
  <2> QED BY <2>1, <2>5, <2>10, <2>11, LoadStep
<1> QED BY <1>2, <1>3

-----------------------------------------------------------------------------
(* Actions. *)

LEMMA AgentLoad ==
  ASSUME DispatchInv, NoPhantomLoad, NEW w \in Workers, AgentStep(w)
  PROVE  NoPhantomLoad'
<1>1. CASE FetchConfig(w)
  <2> DEFINE row == [AuthWorker(w) EXCEPT !.shutdown = FALSE]
  <2>1. /\ row \in WorkerRow /\ row.count = AuthWorker(w).count
        /\ row.status = AuthWorker(w).status
    BY <1>1, AuthLemma DEF FetchConfig, WorkerRow
  <2>2. run' = AuthRun(w) /\ worker' = [worker EXCEPT ![w] = row] /\ Registered(w)
    BY <1>1 DEF FetchConfig
  <2> HIDE DEF row
  <2>3. LoadOK(run', row, w)
    BY <2>1, <2>2, AuthLoad DEF LoadOK
  <2> QED BY <2>1, <2>2, <2>3, AuthLoad, LoadStep
<1>2. CASE PollJob(w)
  BY <1>2, ClaimLoad DEF PollJob, Oldest
<1>3. CASE PollNothing(w)
  BY <1>3, ContactLoad DEF PollNothing
<1>4. CASE Heartbeat(w)
  BY <1>4, HeartbeatLoad DEF Heartbeat
<1>5. CASE ReportProgress(w)
  BY <1>5, ContactLoad DEF ReportProgress
<1>6. CASE ReportResult(w)
  <2>1. agent[w].run \in Runs /\ agent[w].attempt \in Nat /\ 0 < agent[w].attempt
        /\ agent[w].attempt <= run[agent[w].run].attempts
    BY <1>6 DEF ReportResult, DispatchInv, TypeOK, Agent, JobsHanded, Handed
  <2>2. CASE Registered(w)
    BY <1>6, <2>1, <2>2, ResultLoad DEF ReportResult
  <2>3. CASE ~Registered(w)
    BY <1>6, <2>3 DEF ReportResult, NoPhantomLoad, RunningOn, Registered
  <2> QED BY <2>2, <2>3
<1>7. CASE SayGoodbye(w)
  <2>1. CASE Registered(w)
    BY <1>7, <2>1, GoodbyeLoad DEF SayGoodbye
  <2>2. CASE ~Registered(w)
    BY <1>7, <2>2 DEF SayGoodbye, NoPhantomLoad, RunningOn, Registered
  <2> QED BY <2>1, <2>2
<1>8. CASE PollTimeout(w) \/ HeartbeatTimeout(w) \/ FinishJob(w) \/ ReportTimeout(w)
           \/ GoodbyeTimeout(w)
  <2>1. UNCHANGED <<run, worker>>
    BY <1>8 DEF PollTimeout, HeartbeatTimeout, FinishJob, ReportTimeout, GoodbyeTimeout
  <2> QED BY <2>1 DEF NoPhantomLoad, RunningOn, Registered
<1> QED BY <1>1, <1>2, <1>3, <1>4, <1>5, <1>6, <1>7, <1>8 DEF AgentStep

LEMMA LateLoad ==
  ASSUME DispatchInv, NoPhantomLoad, NEW m \in late, LateArrives(m)
  PROVE  NoPhantomLoad'
<1> DEFINE w == m.worker
<1>1. w \in Workers /\ Registered(w)
  BY DEF DispatchInv, TypeOK, Request, LateArrives
<1>2. ASSUME NEW r \in Oldest(ClaimableBy(w)), Claim(w, r)
      PROVE  NoPhantomLoad'
  BY <1>1, <1>2, ClaimLoad DEF Oldest
<1>3. Contact(w) \/ HandleHeartbeat(w) \/ HandleGoodbye(w) => NoPhantomLoad'
  BY <1>1, ContactLoad, HeartbeatLoad, GoodbyeLoad
<1>4. ASSUME m.kind = "result", HandleResult(w, m.run, m.attempt)
      PROVE  NoPhantomLoad'
  <2>1. m.run \in Runs /\ m.attempt \in Nat /\ 0 < m.attempt
        /\ m.attempt <= run[m.run].attempts
    BY <1>4 DEF DispatchInv, TypeOK, Request, JobsHanded, Handed
  <2> QED BY <1>1, <1>4, <2>1, ResultLoad
<1> QED BY <1>2, <1>3, <1>4 DEF LateArrives

\* Users and time move runs that are not running, or only their age.
LEMMA UserLoad ==
  ASSUME DispatchInv, NoPhantomLoad, NEW r \in Runs, Submit(r) \/ CancelRun(r) \/ RunAges(r)
  PROVE  NoPhantomLoad'
<1>1. run \in [Runs -> RunRow]
  BY DEF DispatchInv, TypeOK
<1>2. \A s \in Runs : /\ run'[s].lifecycle = "running" <=> run[s].lifecycle = "running"
                      /\ run'[s].owner = run[s].owner
  <2>1. \A s \in Runs : s # r => run'[s] = run[s]
    BY <1>1 DEF Submit, CancelRun, RunAges
  <2>2. /\ run'[r].lifecycle = "running" <=> run[r].lifecycle = "running"
        /\ run'[r].owner = run[r].owner
    <3>1. CASE Submit(r)
      BY <1>1, <3>1 DEF Submit, RunRow
    <3>2. CASE CancelRun(r)
      BY <1>1, <3>2 DEF CancelRun, RunRow
    <3>3. CASE RunAges(r)
      BY <1>1, <3>3 DEF RunAges, RunRow
    <3> QED BY <3>1, <3>2, <3>3
  <2> QED BY <2>1, <2>2
<1>3. worker' = worker
  BY DEF Submit, CancelRun, RunAges
<1>4. \A v \in Workers : RunningOn(run', v) = RunningOn(run, v)
  BY <1>2 DEF RunningOn
<1> QED BY <1>3, <1>4 DEF NoPhantomLoad, Registered

\* An admin edits rows of the worker table without touching the job count; what
\* a deleted worker was running is taken from nobody else.
LEMMA AdminLoad ==
  ASSUME DispatchInv, NoPhantomLoad, NEW w \in Workers,
         Register(w) \/ UpdateWorker(w) \/ RequestShutdown(w) \/ DeleteWorker(w)
           \/ HeartbeatLapses(w)
  PROVE  NoPhantomLoad'
<1>1. worker \in [Workers -> WorkerRow] /\ RunsOK(run)
  BY DEF DispatchInv, TypeOK, RunsOK
<1>2. CASE Register(w)
  <2> DEFINE row == [worker[w] EXCEPT !.status = "offline", !.count = 0]
  <2>1. row \in WorkerRow /\ row.count = 0 /\ row.status = "offline"
    BY <1>1 DEF WorkerRow
  <2>2. worker' = [worker EXCEPT ![w] = row] /\ run' = run
    BY <1>1, <1>2 DEF Register
  <2> HIDE DEF row
  <2> QED BY <2>1, <2>2, NoLoad, LoadStep
<1>3. ASSUME NEW row \in WorkerRow, row.count = worker[w].count, row.status = worker[w].status,
             worker' = [worker EXCEPT ![w] = row], run' = run
      PROVE  NoPhantomLoad'
  <2>1. row.status \in Known => LoadOK(run', row, w)
    BY <1>3 DEF NoPhantomLoad, LoadOK, Registered, Known
  <2> QED BY <1>3, <2>1, LoadStep
<1>4. CASE UpdateWorker(w)
  <2>1. PICK b \in BOOLEAN, c \in Concurrencies, s \in ServeSets :
          worker' = [worker EXCEPT ![w].enabled = b, ![w].concurrency = c, ![w].serves = s]
    BY <1>4 DEF UpdateWorker
  <2> DEFINE row == [worker[w] EXCEPT !.enabled = b, !.concurrency = c, !.serves = s]
  <2>2. row \in WorkerRow /\ row.count = worker[w].count /\ row.status = worker[w].status
    BY <1>1 DEF WorkerRow
  <2>3. worker' = [worker EXCEPT ![w] = row] /\ run' = run
    BY <1>1, <1>4, <2>1 DEF UpdateWorker
  <2> HIDE DEF row
  <2> QED BY <1>3, <2>2, <2>3
<1>5. CASE RequestShutdown(w)
  <2> DEFINE row == [worker[w] EXCEPT !.shutdown = TRUE]
  <2>1. row \in WorkerRow /\ row.count = worker[w].count /\ row.status = worker[w].status
    BY <1>1 DEF WorkerRow
  <2>2. worker' = [worker EXCEPT ![w] = row] /\ run' = run
    BY <1>1, <1>5 DEF RequestShutdown
  <2> HIDE DEF row
  <2> QED BY <1>3, <2>1, <2>2
<1>6. CASE HeartbeatLapses(w)
  <2> DEFINE row == [worker[w] EXCEPT !.fresh = FALSE]
  <2>1. row \in WorkerRow /\ row.count = worker[w].count /\ row.status = worker[w].status
    BY <1>1 DEF WorkerRow
  <2>2. worker' = [worker EXCEPT ![w] = row] /\ run' = run
    BY <1>1, <1>6 DEF HeartbeatLapses
  <2> HIDE DEF row
  <2> QED BY <1>3, <2>1, <2>2
<1>7. CASE DeleteWorker(w)
  <2> DEFINE R == Reclaim(run, {w})
             row == [worker[w] EXCEPT !.status = "deleted"]
  <2>1. row \in WorkerRow /\ row.status \notin Known
    BY <1>1 DEF WorkerRow, Known
  <2>2. worker' = [worker EXCEPT ![w] = row]
    BY <1>1, <1>7 DEF DeleteWorker
  <2>3. /\ RunsOK(R)
        /\ \A v \in Workers : v # w => RunningOn(R, v) = RunningOn(run, v)
    BY <1>1, ReclaimLemma, ReclaimKeepsOthers
  <2>4. run' = [r \in Runs |-> IF R[r].owner = w THEN [R[r] EXCEPT !.owner = NoWorker] ELSE R[r]]
    BY <1>7 DEF DeleteWorker
  <2> HIDE DEF R, row
  <2>5. ASSUME NEW v \in Workers, v # w, NEW r \in Runs
        PROVE  /\ run'[r].lifecycle = R[r].lifecycle
               /\ run'[r].owner = v <=> R[r].owner = v
    <3>1. R[r] \in RunRow
      BY <2>3 DEF RunsOK
    <3>2. CASE R[r].owner = w
      BY <2>4, <2>5, <3>1, <3>2, ConstantsAssumption DEF RunRow
    <3>3. CASE R[r].owner # w
      BY <2>4, <3>3
    <3> QED BY <3>2, <3>3
  <2>6. \A v \in Workers : v # w => RunningOn(run', v) = RunningOn(run, v)
    BY <2>3, <2>5 DEF RunningOn
  <2> QED BY <2>1, <2>2, <2>6, LoadStep
<1> QED BY <1>2, <1>4, <1>5, <1>6, <1>7

LEMMA ReapLoad ==
  ASSUME DispatchInv, NoPhantomLoad, Reap
  PROVE  NoPhantomLoad'
<1> DEFINE R == Reclaim(run, Stale)
<1>1. RunsOK(run) /\ worker \in [Workers -> WorkerRow]
  BY DEF DispatchInv, TypeOK, RunsOK
<1>2. /\ RunsOK(R)
      /\ \A v \in Workers : v \notin Stale => RunningOn(R, v) = RunningOn(run, v)
  BY <1>1, ReclaimLemma, ReclaimKeepsOthers
<1>3. run' = ExpireUnserviceable(R)
  BY DEF Reap
<1> HIDE DEF R
<1>4. \A r \in Runs : /\ run'[r].lifecycle = "running" => run'[r] = R[r]
                      /\ R[r].lifecycle = "running" => run'[r] = R[r]
  BY <1>2, <1>3, ExpireLemma DEF ExpireUnserviceable
<1>5. \A v \in Workers : RunningOn(run', v) = RunningOn(R, v)
  BY <1>4 DEF RunningOn
<1>6. ASSUME NEW v \in Workers, Registered(v)'
      PROVE  LoadOK(run', worker'[v], v)
  <2>1. CASE v \in Stale
    <3>1. worker'[v] = [worker[v] EXCEPT !.status = "offline", !.count = 0]
      BY <2>1 DEF Reap
    <3>2. worker'[v].count = 0 /\ worker'[v].status = "offline"
      BY <1>1, <3>1 DEF WorkerRow
    <3> QED BY <3>2, NoLoad
  <2>2. CASE v \notin Stale
    <3>1. worker'[v] = worker[v]
      BY <2>2 DEF Reap
    <3> QED BY <1>2, <1>5, <1>6, <2>2, <3>1 DEF NoPhantomLoad, LoadOK, Registered
  <2> QED BY <2>1, <2>2
<1> QED BY <1>6 DEF NoPhantomLoad, LoadOK

LEMMA NextLoad ==
  ASSUME DispatchInv, NoPhantomLoad, [Next]_vars
  PROVE  NoPhantomLoad'
<1>1. ASSUME NEW w \in Workers, AgentStep(w)
      PROVE  NoPhantomLoad'
  BY <1>1, AgentLoad
<1>2. ASSUME NEW w \in Workers, Signal(w) \/ Crash(w)
      PROVE  NoPhantomLoad'
  BY <1>2 DEF Signal, Crash, NoPhantomLoad, RunningOn, Registered
<1>3. ASSUME NEW w \in Workers, HeartbeatLapses(w)
      PROVE  NoPhantomLoad'
  BY <1>3, AdminLoad
<1>4. ASSUME NEW m \in late, LateArrives(m)
      PROVE  NoPhantomLoad'
  BY <1>4, LateLoad
<1>5. ASSUME NEW r \in Runs, RunAges(r)
      PROVE  NoPhantomLoad'
  BY <1>5, UserLoad
<1>6. CASE Reap
  BY <1>6, ReapLoad
<1>7. CASE AdminStep
  BY <1>7, UserLoad, AdminLoad DEF AdminStep
<1>8. CASE UNCHANGED vars
  BY <1>8 DEF vars, NoPhantomLoad, RunningOn, Registered
<1> QED BY <1>1, <1>2, <1>3, <1>4, <1>5, <1>6, <1>7, <1>8 DEF Next

\* However results are repeated, workers reconnect and are reaped, current_job_count
\* never exceeds the runs that say `running` on the worker, and a worker is `busy`
\* only while it runs something: it is never refused work for jobs it does not have.
THEOREM LoadIsReal == Spec => []NoPhantomLoad
<1>1. Init => NoPhantomLoad
  BY NoLoad DEF Init, NoPhantomLoad, Registered
<1>2. DispatchInv /\ NoPhantomLoad /\ [Next]_vars => NoPhantomLoad'
  BY NextLoad
<1> QED BY <1>1, <1>2, DispatchInvariant, PTL DEF Spec
=============================================================================

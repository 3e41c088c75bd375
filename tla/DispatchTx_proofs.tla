-------------------------- MODULE DispatchTx_proofs --------------------------
(***************************************************************************)
(* Proofs, for every window, that the transactions of the sweep and the web *)
(* routes keep the attempts at a run within the budget and revive nothing   *)
(* that they did not load as running.                                       *)
(*                                                                          *)
(* The rows of an overlapping transaction need not agree with each other as *)
(* they do in Dispatch, so the lemmas about rows start from their types: a  *)
(* step of the event loop keeps every budget, whatever its extra attempts.  *)
(***************************************************************************)
EXTENDS DispatchTx, Dispatch_proofs

-----------------------------------------------------------------------------
(* Rows. *)

Ended == {"finished", "cancelled", "timed_out"}

\* What a step of the event loop may make of a row.
LoopRow(old, new) ==
  /\ new.attempts \in {old.attempts, old.attempts + 1}
  /\ \A extra \in Nat : RowBudget(old, extra) => RowBudget(new, extra)
  /\ old.lifecycle \in Ended => new.lifecycle \in Ended
  /\ old.lifecycle # "absent" => new.lifecycle # "absent"

LEMMA RetiredRow ==
  ASSUME NEW row \in RunRow
  PROVE  /\ RetireRow(row) \in RunRow
         /\ RetireRow(row).attempts = row.attempts
         /\ RetireRow(row).reclaims = row.reclaims
         /\ RetireRow(row).lifecycle = "timed_out"
BY ResultConstants DEF RunRow, RetireRow, Lifecycles

LEMMA ReclaimedRow ==
  ASSUME NEW row \in RunRow
  PROVE  /\ ReclaimRow(row) \in RunRow
         /\ ReclaimRow(row).attempts = row.attempts
         /\ ReclaimRow(row).reclaims = row.reclaims + 1
         /\ \/ ReclaimRow(row).lifecycle = "timed_out"
            \/ ReclaimRow(row).lifecycle = "queued" /\ row.reclaims + 1 <= MaxReclaims
<1> DEFINE counted == [row EXCEPT !.reclaims = @ + 1]
           again   == [counted EXCEPT !.lifecycle = "queued", !.owner = NoWorker]
<1>1. counted \in RunRow /\ counted.reclaims = row.reclaims + 1
      /\ counted.attempts = row.attempts
  BY DEF RunRow
<1>2. again \in RunRow /\ again.reclaims = row.reclaims + 1 /\ again.attempts = row.attempts
      /\ again.lifecycle = "queued"
  <2> HIDE DEF counted
  <2> QED BY <1>1 DEF RunRow, Lifecycles
<1>3. ReclaimRow(row) = IF counted.reclaims > MaxReclaims THEN RetireRow(counted) ELSE again
  BY DEF ReclaimRow
<1> HIDE DEF counted, again
<1>4. row.reclaims \in Nat /\ MaxReclaims \in Nat
  BY ConstantsAssumption DEF RunRow
<1> QED BY <1>1, <1>2, <1>3, <1>4, RetiredRow

LEMMA ClaimedRow ==
  ASSUME NEW row \in RunRow, NEW w \in Workers
  PROVE  /\ ClaimRow(row, w) \in RunRow
         /\ ClaimRow(row, w).attempts = row.attempts + 1
         /\ ClaimRow(row, w).reclaims = row.reclaims
         /\ ClaimRow(row, w).lifecycle = "running"
<1>1. row.attempts + 1 \in Nat BY DEF RunRow
<1> QED BY <1>1 DEF RunRow, ClaimRow, Lifecycles

LEMMA FinishedRow ==
  ASSUME NEW row \in RunRow, NEW n \in Nat
  PROVE  /\ FinishRow(row, n) \in RunRow
         /\ FinishRow(row, n).attempts = row.attempts
         /\ FinishRow(row, n).lifecycle \in {"finished", "cancelled"}
<1> DEFINE how == IF row.lifecycle = "cancelled" THEN "cancelled" ELSE "finished"
<1>1. FinishRow(row, n) = [row EXCEPT !.lifecycle = how, !.result = n]
  BY DEF FinishRow
<1>2. how \in {"finished", "cancelled"} /\ n \in Int
  OBVIOUS
<1> HIDE DEF how
<1> QED BY <1>1, <1>2 DEF RunRow, Lifecycles

\* Reclaiming a row, finishing it and leaving it are such steps, and so is a
\* claim of a row that is queued.
LEMMA SameRow ==
  ASSUME NEW row \in RunRow
  PROVE  LoopRow(row, row)
BY DEF LoopRow

LEMMA BudgetNumbers ==
  ASSUME NEW row \in RunRow
  PROVE  row.attempts \in Nat /\ row.reclaims \in Nat /\ MaxReclaims \in Nat
BY ConstantsAssumption DEF RunRow

LEMMA ReclaimIsLoop ==
  ASSUME NEW row \in RunRow, row.lifecycle = "running"
  PROVE  LoopRow(row, ReclaimRow(row))
BY ReclaimedRow, BudgetNumbers DEF LoopRow, RowBudget, Ended

LEMMA ClaimIsLoop ==
  ASSUME NEW row \in RunRow, row.lifecycle = "queued", NEW w \in Workers
  PROVE  LoopRow(row, ClaimRow(row, w))
BY ClaimedRow, BudgetNumbers DEF LoopRow, RowBudget, Ended

LEMMA FinishIsLoop ==
  ASSUME NEW row \in RunRow, NEW n \in Nat
  PROVE  LoopRow(row, FinishRow(row, n))
BY FinishedRow, BudgetNumbers DEF LoopRow, RowBudget, Ended

\* The authentication first, and then the handler.
LEMMA LoopAfterAuth ==
  ASSUME NEW a \in RunRow, NEW b \in RunRow, NEW c \in RunRow,
         LoopRow(a, b), LoopRow(b, c), a.attempts = b.attempts
  PROVE  LoopRow(a, c)
BY DEF LoopRow

-----------------------------------------------------------------------------
(* Requests on the event loop: what each of them does to the two tables. *)

LoopTables ==
  /\ run' \in [Runs -> RunRow] /\ worker' \in [Workers -> WorkerRow]
  /\ \A r \in Runs : LoopRow(run[r], run'[r])

LEMMA AuthLoop ==
  ASSUME TypeOK, NEW w \in Workers, Registered(w)
  PROVE  /\ AuthRun(w) \in [Runs -> RunRow]
         /\ \A r \in Runs : /\ LoopRow(run[r], AuthRun(w)[r])
                            /\ AuthRun(w)[r].attempts = run[r].attempts
         /\ AuthWorker(w) \in WorkerRow /\ AuthWorker(w).status \in Known
<1>1. worker[w] \in WorkerRow /\ run \in [Runs -> RunRow] /\ \A r \in Runs : run[r] \in RunRow
  BY DEF TypeOK
<1>2. AuthWorker(w) \in WorkerRow /\ AuthWorker(w).status \in Known
  <2>1. CASE worker[w].status = "offline"
    BY <1>1, <2>1 DEF AuthWorker, WorkerRow, Known
  <2>2. CASE worker[w].status # "offline"
    BY <1>1, <2>2 DEF AuthWorker, WorkerRow, Registered, Known
  <2> QED BY <2>1, <2>2
<1>3. CASE worker[w].status = "offline"
  <2>1. AuthRun(w) = Reclaim(run, {w})
    BY <1>3 DEF AuthRun
  <2>2. \A r \in Runs : \/ AuthRun(w)[r] = run[r]
                        \/ AuthRun(w)[r] = ReclaimRow(run[r]) /\ run[r].lifecycle = "running"
    BY <2>1 DEF Reclaim
  <2>3. \A r \in Runs : /\ AuthRun(w)[r] \in RunRow /\ LoopRow(run[r], AuthRun(w)[r])
                        /\ AuthRun(w)[r].attempts = run[r].attempts
    BY <1>1, <2>2, ReclaimedRow, ReclaimIsLoop, SameRow
  <2> QED BY <1>2, <2>1, <2>3 DEF Reclaim
<1>4. CASE worker[w].status # "offline"
  BY <1>1, <1>2, <1>4, SameRow DEF AuthRun
<1> QED BY <1>3, <1>4

LEMMA ContactLoop ==
  ASSUME TypeOK, NEW w \in Workers, Registered(w), run' = AuthRun(w),
         NEW row \in WorkerRow, worker' = [worker EXCEPT ![w] = row]
  PROVE  LoopTables
BY AuthLoop DEF LoopTables, TypeOK

LEMMA RestLoop ==
  ASSUME TypeOK, run' = run, worker' \in [Workers -> WorkerRow]
  PROVE  LoopTables
BY SameRow DEF LoopTables, TypeOK

\* One row more is rewritten, after the authentication.
LEMMA RowLoop ==
  ASSUME TypeOK, NEW w \in Workers, Registered(w), NEW r \in Runs,
         NEW new \in RunRow, LoopRow(AuthRun(w)[r], new),
         run' = [AuthRun(w) EXCEPT ![r] = new],
         NEW row \in WorkerRow, worker' = [worker EXCEPT ![w] = row]
  PROVE  LoopTables
<1>1. /\ AuthRun(w) \in [Runs -> RunRow]
      /\ \A s \in Runs : /\ LoopRow(run[s], AuthRun(w)[s])
                         /\ AuthRun(w)[s].attempts = run[s].attempts
  BY AuthLoop
<1>2. run \in [Runs -> RunRow] /\ worker' \in [Workers -> WorkerRow]
  BY DEF TypeOK
<1>3. LoopRow(run[r], new)
  BY <1>1, <1>2, LoopAfterAuth
<1>4. run' \in [Runs -> RunRow] /\ \A s \in Runs : run'[s] = IF s = r THEN new ELSE AuthRun(w)[s]
  BY <1>1
<1> QED BY <1>1, <1>2, <1>3, <1>4 DEF LoopTables

LEMMA ClaimLoop ==
  ASSUME TypeOK, NEW w \in Workers, Registered(w), NEW r \in ClaimableBy(w), Claim(w, r)
  PROVE  LoopTables
<1>1. r \in Runs /\ AuthRun(w)[r].lifecycle = "queued"
  BY DEF ClaimableBy
<1>2. AuthRun(w)[r] \in RunRow /\ AuthWorker(w) \in WorkerRow /\ AuthWorker(w).status \in Known
  BY <1>1, AuthLoop
<1>3. ClaimRow(AuthRun(w)[r], w) \in RunRow /\ LoopRow(AuthRun(w)[r], ClaimRow(AuthRun(w)[r], w))
  BY <1>1, <1>2, ClaimedRow, ClaimIsLoop
<1>4. Busier(AuthWorker(w)) \in WorkerRow
  BY <1>2, WorkerRowLemma
<1>5. /\ run' = [AuthRun(w) EXCEPT ![r] = ClaimRow(AuthRun(w)[r], w)]
      /\ worker' = [worker EXCEPT ![w] = Busier(AuthWorker(w))]
  BY DEF Claim
<1> QED BY <1>1, <1>3, <1>4, <1>5, RowLoop

LEMMA ResultLoop ==
  ASSUME TypeOK, NEW w \in Workers, Registered(w), NEW r \in Runs, NEW n \in Nat,
         HandleResult(w, r, n)
  PROVE  LoopTables
<1>1. AuthRun(w)[r] \in RunRow /\ AuthWorker(w) \in WorkerRow /\ AuthWorker(w).status \in Known
  BY AuthLoop
<1>2. CASE AuthRun(w)[r].owner # w
  <2>1. run' = AuthRun(w) /\ worker' = [worker EXCEPT ![w] = AuthWorker(w)]
    BY <1>2 DEF HandleResult, Contact
  <2> QED BY <1>1, <2>1, ContactLoop
<1>3. CASE AuthRun(w)[r].owner = w
  <2>1. /\ run' = [AuthRun(w) EXCEPT ![r] = FinishRow(AuthRun(w)[r], n)]
        /\ worker' = [worker EXCEPT ![w] = Freed(AuthWorker(w))]
    BY <1>3 DEF HandleResult
  <2>2. /\ FinishRow(AuthRun(w)[r], n) \in RunRow
        /\ LoopRow(AuthRun(w)[r], FinishRow(AuthRun(w)[r], n))
    BY <1>1, FinishedRow, FinishIsLoop
  <2>3. Freed(AuthWorker(w)) \in WorkerRow
    BY <1>1, WorkerRowLemma
  <2> QED BY <2>1, <2>2, <2>3, RowLoop
<1> QED BY <1>2, <1>3

LEMMA ContactsLoop ==
  ASSUME TypeOK, NEW w \in Workers, Registered(w),
         Contact(w) \/ HandleHeartbeat(w) \/ HandleGoodbye(w)
  PROVE  LoopTables
<1>1. AuthWorker(w) \in WorkerRow /\ AuthWorker(w).status \in Known
  BY AuthLoop
<1>2. CASE Contact(w)
  BY <1>1, <1>2, ContactLoop DEF Contact
<1>3. CASE HandleHeartbeat(w)
  <2> DEFINE n == Cardinality(RunningOn(AuthRun(w), w))
  <2>1. n \in Nat
    BY RunningOnFinite
  <2>2. run' = AuthRun(w) /\ worker' = [worker EXCEPT ![w] = Reconciled(AuthWorker(w), n)]
    BY <1>3 DEF HandleHeartbeat
  <2> HIDE DEF n
  <2> QED BY <1>1, <2>1, <2>2, WorkerRowLemma, ContactLoop
<1>4. CASE HandleGoodbye(w)
  <2> DEFINE row == [AuthWorker(w) EXCEPT !.status = "offline", !.count = 0, !.fresh = FALSE]
  <2>1. row \in WorkerRow
    BY <1>1 DEF WorkerRow
  <2>2. run' = AuthRun(w) /\ worker' = [worker EXCEPT ![w] = row]
    BY <1>4 DEF HandleGoodbye
  <2> HIDE DEF row
  <2> QED BY <2>1, <2>2, ContactLoop
<1> QED BY <1>2, <1>3, <1>4

-----------------------------------------------------------------------------
(* Processes and late requests stay well-formed, and so a step of the event    *)
(* loop keeps the types. *)

ProcessesTyped == agent' \in [Workers -> Agent] /\ late' \subseteq Request /\ JobsNamed'

HasItsJob(a) == a.pc \in {"executing", "reporting"} => a.run # NoRun

LEMMA OneProcess ==
  ASSUME TypeOK, JobsNamed, NEW w \in Workers, NEW a \in Agent, HasItsJob(a),
         agent' = [agent EXCEPT ![w] = a],
         late' = late \/ \E m \in Request : GiveUpOn(m) /\ (m.kind = "result" => m.run # NoRun)
  PROVE  ProcessesTyped
BY DEF ProcessesTyped, TypeOK, GiveUpOn, JobsNamed, HasItsJob

LEMMA SentTyped ==
  ASSUME TypeOK, NEW w \in Workers, NEW k \in {"poll", "heartbeat", "goodbye", "result"}
  PROVE  Sent(k, w) \in Request /\ Sent(k, w).kind = k /\ Sent(k, w).run = agent[w].run
BY DEF TypeOK, Agent, Sent, Request

LEMMA AgentLoop ==
  ASSUME TypeOK, JobsNamed, NEW w \in Workers, AgentStep(w)
  PROVE  LoopTables /\ ProcessesTyped
<1>1. /\ agent[w] \in Agent /\ agent \in [Workers -> Agent]
      /\ worker[w] \in WorkerRow /\ worker \in [Workers -> WorkerRow]
      /\ run \in [Runs -> RunRow] /\ HasItsJob(agent[w])
  BY DEF TypeOK, JobsNamed, HasItsJob
<1>2. UNCHANGED <<run, worker>> => LoopTables
  BY <1>1, RestLoop
<1>3. agent' = agent /\ (late' = late \/ \E m \in Request : GiveUpOn(m) /\ m.kind # "result")
        => ProcessesTyped
  BY <1>1 DEF ProcessesTyped, TypeOK, GiveUpOn, JobsNamed
<1>4. CASE FetchConfig(w)
  <2> DEFINE row == [AuthWorker(w) EXCEPT !.shutdown = FALSE]
             a   == [agent[w] EXCEPT !.pc = "idle"]
  <2>1. row \in WorkerRow
    BY <1>4, AuthLoop DEF FetchConfig, WorkerRow
  <2>2. a \in Agent /\ HasItsJob(a) /\ agent' = [agent EXCEPT ![w] = a]
    BY <1>1, <1>4 DEF FetchConfig, Agent, HasItsJob
  <2>3. run' = AuthRun(w) /\ worker' = [worker EXCEPT ![w] = row] /\ Registered(w) /\ late' = late
    BY <1>4 DEF FetchConfig
  <2> HIDE DEF row, a
  <2> QED BY <2>1, <2>2, <2>3, ContactLoop, OneProcess
<1>5. CASE PollJob(w)
  <2>1. PICK r \in Oldest(ClaimableBy(w)) :
          /\ Claim(w, r)
          /\ agent' = [agent EXCEPT ![w].pc = "executing", ![w].run = r,
                                    ![w].attempt = run[r].attempts + 1]
    BY <1>5 DEF PollJob
  <2>2. r \in ClaimableBy(w) /\ r \in Runs /\ Registered(w) /\ late' = late
    BY <1>5 DEF PollJob, Oldest, ClaimableBy
  <2> DEFINE a == [agent[w] EXCEPT !.pc = "executing", !.run = r, !.attempt = run[r].attempts + 1]
  <2>3. run[r].attempts + 1 \in Nat
    BY <1>1, <2>2 DEF RunRow
  <2>4. a \in Agent /\ HasItsJob(a)
    BY <1>1, <2>2, <2>3, ConstantsAssumption DEF Agent, HasItsJob
  <2>5. agent' = [agent EXCEPT ![w] = a]
    BY <1>1, <2>1
  <2> HIDE DEF a
  <2> QED BY <2>1, <2>2, <2>4, <2>5, ClaimLoop, OneProcess
<1>6. CASE PollNothing(w)
  <2> DEFINE a == [agent[w] EXCEPT !.stop = TRUE, !.pc = "exiting"]
  <2>1. a \in Agent /\ HasItsJob(a)
    BY <1>1 DEF Agent, HasItsJob
  <2>2. Registered(w) /\ Contact(w) /\ late' = late
        /\ (agent' = agent \/ agent' = [agent EXCEPT ![w] = a])
    BY <1>1, <1>6 DEF PollNothing
  <2> HIDE DEF a
  <2> QED BY <1>3, <2>1, <2>2, ContactsLoop, OneProcess
<1>7. CASE PollTimeout(w)
  <2> DEFINE p == IF agent[w].stop THEN "exiting" ELSE "idle"
             a == [agent[w] EXCEPT !.pc = p]
  <2>1. a \in Agent /\ HasItsJob(a)
    <3>1. p \in {"exiting", "idle"} OBVIOUS
    <3> HIDE DEF p
    <3> QED BY <1>1, <3>1 DEF Agent, HasItsJob
  <2>2. agent' = [agent EXCEPT ![w] = a] /\ GiveUpOn(Sent("poll", w)) /\ UNCHANGED <<run, worker>>
    BY <1>1, <1>7 DEF PollTimeout
  <2> HIDE DEF a
  <2> QED BY <1>2, <2>1, <2>2, SentTyped, OneProcess
<1>8. CASE Heartbeat(w)
  <2> DEFINE a == [agent[w] EXCEPT !.stop = worker[w].shutdown]
  <2>1. a \in Agent /\ HasItsJob(a)
    BY <1>1 DEF Agent, WorkerRow, HasItsJob
  <2>2. agent' = [agent EXCEPT ![w] = a] /\ Registered(w) /\ HandleHeartbeat(w) /\ late' = late
    BY <1>1, <1>8 DEF Heartbeat
  <2> HIDE DEF a
  <2> QED BY <2>1, <2>2, ContactsLoop, OneProcess
<1>9. CASE HeartbeatTimeout(w)
  <2> DEFINE m == [Sent("heartbeat", w) EXCEPT !.run = NoRun, !.attempt = 0]
  <2>1. m \in Request /\ m.kind = "heartbeat"
    BY <1>1 DEF Sent, Agent, Request
  <2>2. GiveUpOn(m) /\ UNCHANGED <<run, worker, agent>>
    BY <1>9 DEF HeartbeatTimeout
  <2> HIDE DEF m
  <2> QED BY <1>2, <1>3, <2>1, <2>2
<1>10. CASE ReportProgress(w)
  BY <1>3, <1>10, ContactsLoop DEF ReportProgress
<1>11. CASE FinishJob(w)
  <2> DEFINE a == [agent[w] EXCEPT !.pc = "reporting"]
  <2>1. a \in Agent /\ HasItsJob(a)
    BY <1>1, <1>11 DEF FinishJob, Agent, HasItsJob
  <2>2. agent' = [agent EXCEPT ![w] = a] /\ UNCHANGED <<run, worker, late>>
    BY <1>1, <1>11 DEF FinishJob
  <2> HIDE DEF a
  <2> QED BY <1>2, <2>1, <2>2, OneProcess
<1>12. CASE ReportResult(w)
  <2>1. agent' = [agent EXCEPT ![w] = JobDone(agent[w])] /\ late' = late
    BY <1>12 DEF ReportResult
  <2>2. ProcessesTyped
    BY <1>1, <2>1, JobDoneOK, OneProcess DEF HasItsJob
  <2>3. CASE ~Registered(w)
    BY <1>2, <1>12, <2>2, <2>3 DEF ReportResult
  <2>4. CASE Registered(w)
    <3>1. HandleResult(w, agent[w].run, agent[w].attempt) /\ agent[w].attempt \in Nat
          /\ agent[w].run \in Runs
      BY <1>1, <1>12, <2>4 DEF ReportResult, Agent, HasItsJob
    <3> QED BY <2>2, <2>4, <3>1, ResultLoop
  <2> QED BY <2>3, <2>4
<1>13. CASE ReportTimeout(w)
  <2> DEFINE more == [agent[w] EXCEPT !.tries = agent[w].tries + 1]
  <2>1. more \in Agent /\ HasItsJob(more)
    BY <1>1 DEF Agent, HasItsJob
  <2>2. \/ agent' = [agent EXCEPT ![w] = more]
        \/ agent' = [agent EXCEPT ![w] = JobDone(agent[w])]
    <3>1. CASE agent[w].tries + 1 < ReportTries
      BY <1>13, <3>1 DEF ReportTimeout
    <3>2. CASE ~(agent[w].tries + 1 < ReportTries)
      BY <1>13, <3>2 DEF ReportTimeout
    <3> QED BY <3>1, <3>2
  <2>3. GiveUpOn(Sent("result", w)) /\ UNCHANGED <<run, worker>>
    BY <1>13 DEF ReportTimeout
  <2>4. agent[w].run # NoRun /\ HasItsJob(JobDone(agent[w])) /\ JobDone(agent[w]) \in Agent
    BY <1>1, <1>13, JobDoneOK DEF ReportTimeout, HasItsJob
  <2>5. /\ Sent("result", w) \in Request
        /\ Sent("result", w).kind = "result" => Sent("result", w).run # NoRun
    BY <2>4, SentTyped
  <2> HIDE DEF more
  <2> QED BY <1>2, <2>1, <2>2, <2>3, <2>4, <2>5, OneProcess
<1>14. CASE SayGoodbye(w)
  BY <1>2, <1>14, AgentDownOK, ContactsLoop, OneProcess DEF SayGoodbye, HasItsJob
<1>15. CASE GoodbyeTimeout(w)
  <2>1. /\ agent' = [agent EXCEPT ![w] = AgentDown] /\ GiveUpOn(Sent("goodbye", w))
        /\ UNCHANGED <<run, worker>>
    BY <1>15 DEF GoodbyeTimeout
  <2> QED BY <1>2, <2>1, AgentDownOK, SentTyped, OneProcess DEF HasItsJob
<1> QED BY <1>4, <1>5, <1>6, <1>7, <1>8, <1>9, <1>10, <1>11, <1>12, <1>13, <1>14, <1>15
        DEF AgentStep

LEMMA LateLoop ==
  ASSUME TypeOK, JobsNamed, NEW m \in late, LateArrives(m)
  PROVE  LoopTables /\ ProcessesTyped
<1> DEFINE w == m.worker
<1>1. w \in Workers /\ Registered(w) /\ m \in Request /\ (m.kind = "result" => m.run \in Runs)
  BY DEF TypeOK, Request, LateArrives, JobsNamed
<1>2. ProcessesTyped
  BY DEF LateArrives, ProcessesTyped, TypeOK, JobsNamed
<1>3. \A r \in Oldest(ClaimableBy(w)) : Claim(w, r) => LoopTables
  BY <1>1, ClaimLoop DEF Oldest
<1>4. Contact(w) \/ HandleHeartbeat(w) \/ HandleGoodbye(w) => LoopTables
  BY <1>1, ContactsLoop
<1>5. m.kind = "result" /\ HandleResult(w, m.run, m.attempt) => LoopTables
  BY <1>1, ResultLoop DEF Request
<1>6. LoopTables
  BY <1>3, <1>4, <1>5 DEF LateArrives
<1> QED BY <1>2, <1>6

\* A row whose lifecycle and owner are rewritten.
LEMMA RewrittenRow ==
  ASSUME NEW row \in RunRow, NEW how \in Lifecycles
  PROVE  LET new == [row EXCEPT !.lifecycle = how]
             off == [row EXCEPT !.owner = NoWorker]
         IN  /\ new \in RunRow /\ new.lifecycle = how
             /\ new.attempts = row.attempts /\ new.reclaims = row.reclaims
             /\ off \in RunRow /\ off.lifecycle = row.lifecycle
             /\ off.attempts = row.attempts /\ off.reclaims = row.reclaims
BY DEF RunRow

LEMMA AdminLoop ==
  ASSUME TypeOK, JobsNamed, AdminStep
  PROVE  LoopTables /\ ProcessesTyped
<1>1. /\ run \in [Runs -> RunRow] /\ worker \in [Workers -> WorkerRow]
      /\ \A w \in Workers : worker[w] \in WorkerRow
  BY SMTT(40) DEF TypeOK
<1>2. ProcessesTyped
  BY DEF AdminStep, Submit, CancelRun, Register, UpdateWorker, RequestShutdown, DeleteWorker,
         ProcessesTyped, TypeOK, JobsNamed
<1>3. ASSUME NEW r \in Runs, Submit(r) \/ CancelRun(r)
      PROVE  LoopTables
  <2>1. PICK how \in {"queued", "cancelled"} :
          /\ run' = [run EXCEPT ![r] = [run[r] EXCEPT !.lifecycle = how]]
          /\ how = "queued" => run[r].lifecycle = "absent"
          /\ run[r].lifecycle \in {"absent", "queued"}
    BY <1>1, <1>3 DEF Submit, CancelRun
  <2> DEFINE row == [run[r] EXCEPT !.lifecycle = how]
  <2>2. row \in RunRow /\ row.lifecycle = how
        /\ row.attempts = run[r].attempts /\ row.reclaims = run[r].reclaims
    <3>1. run[r] \in RunRow /\ how \in Lifecycles
      BY <1>1 DEF Lifecycles
    <3> QED BY <3>1, RewrittenRow
  <2> HIDE DEF row
  <2>3. LoopRow(run[r], row)
    BY <1>1, <2>1, <2>2, BudgetNumbers DEF LoopRow, RowBudget, Ended
  <2>4. run' = [run EXCEPT ![r] = row] /\ worker' = worker
    BY <1>3, <2>1 DEF row, Submit, CancelRun
  <2> QED BY <1>1, <2>2, <2>3, <2>4, SameRow DEF LoopTables
<1>4. ASSUME NEW w \in Workers, Register(w) \/ UpdateWorker(w) \/ RequestShutdown(w)
      PROVE  LoopTables
  <2>1. run' = run
    BY <1>4 DEF Register, UpdateWorker, RequestShutdown
  <2>2. CASE Register(w)
    <3>1. [worker[w] EXCEPT !.status = "offline", !.count = 0] \in WorkerRow
      BY <1>1 DEF WorkerRow
    <3> QED BY <1>1, <2>1, <2>2, <3>1, RestLoop DEF Register
  <2>3. CASE UpdateWorker(w)
    <3>1. PICK b \in BOOLEAN, c \in Concurrencies, s \in ServeSets :
            worker' = [worker EXCEPT ![w].enabled = b, ![w].concurrency = c, ![w].serves = s]
      BY <2>3 DEF UpdateWorker
    <3>2. [worker[w] EXCEPT !.enabled = b, !.concurrency = c, !.serves = s] \in WorkerRow
      BY <1>1 DEF WorkerRow
    <3> QED BY <1>1, <2>1, <3>1, <3>2, RestLoop
  <2>4. CASE RequestShutdown(w)
    <3>1. [worker[w] EXCEPT !.shutdown = TRUE] \in WorkerRow
      BY <1>1 DEF WorkerRow
    <3> QED BY <1>1, <2>1, <2>4, <3>1, RestLoop DEF RequestShutdown
  <2> QED BY SMTT(40), <1>4, <2>2, <2>3, <2>4
<1>5. ASSUME NEW w \in Workers, DeleteWorker(w)
      PROVE  LoopTables
  <2> DEFINE R == Reclaim(run, {w})
  <2>1. ASSUME NEW r \in Runs
        PROVE  R[r] \in RunRow /\ LoopRow(run[r], R[r]) /\ R[r].attempts = run[r].attempts
    <3>1. R[r] = run[r] \/ (R[r] = ReclaimRow(run[r]) /\ run[r].lifecycle = "running")
      BY DEF Reclaim
    <3> QED BY <1>1, <3>1, ReclaimedRow, ReclaimIsLoop, SameRow
  <2>2. run' = [r \in Runs |-> IF R[r].owner = w THEN [R[r] EXCEPT !.owner = NoWorker] ELSE R[r]]
    BY <1>5 DEF DeleteWorker
  <2> HIDE DEF R
  <2>3. ASSUME NEW r \in Runs
        PROVE  run'[r] \in RunRow /\ LoopRow(run[r], run'[r])
    <3> DEFINE off == [R[r] EXCEPT !.owner = NoWorker]
    <3>1. off \in RunRow /\ LoopRow(R[r], off)
      BY ZenonT(60), <2>1, RewrittenRow, BudgetNumbers DEF LoopRow, RowBudget, Lifecycles
    <3>2. run'[r] = IF R[r].owner = w THEN off ELSE R[r]
      BY <2>2
    <3> HIDE DEF off
    <3> QED BY <1>1, <2>1, <3>1, <3>2, LoopAfterAuth
  <2>4. worker' \in [Workers -> WorkerRow]
    <3>1. [worker[w] EXCEPT !.status = "deleted"] \in WorkerRow
      BY <1>1 DEF WorkerRow
    <3> QED BY <1>1, <1>5, <3>1 DEF DeleteWorker
  <2> QED BY <2>2, <2>3, <2>4 DEF LoopTables
<1> QED BY <1>2, <1>3, <1>4, <1>5 DEF AdminStep

\* A step of the event loop keeps the invariant: the attempts it gives out over
\* a transaction that is to take the run back are counted as extra ones.
LEMMA OnTheLoopLemma ==
  ASSUME TxInv, OnTheLoop
  PROVE  TxInv' /\ \A r \in Runs : LoopRow(run[r], run'[r])
<1>1. /\ TypeOK /\ JobsNamed /\ over \in [Runs -> Nat] /\ tx \in [Threads -> Transaction]
      /\ Window \in Nat /\ run \in [Runs -> RunRow]
  BY TxAssumption DEF TxInv, TxTypeOK, TypeOK
<1>2. LoopTables /\ ProcessesTyped
  BY <1>1, AgentLoop, LateLoop, AdminLoop DEF OnTheLoop
<1>3. TypeOK' /\ JobsNamed'
  BY <1>2 DEF LoopTables, ProcessesTyped, TypeOK
<1>4. ASSUME NEW r \in Runs
      PROVE  /\ over'[r] \in Nat /\ over[r] \in Nat /\ over[r] <= over'[r]
             /\ over'[r] = over[r] \/ over'[r] = over[r] + 1
             /\ LoadedRunning(r) /\ run'[r].attempts > run[r].attempts => over'[r] = over[r] + 1
  BY <1>1 DEF OnTheLoop
<1>5. over' \in [Runs -> Nat]
  BY <1>4 DEF OnTheLoop
<1>6. ASSUME NEW t \in Threads
      PROVE  /\ tx'[t] \in Transaction /\ tx'[t].route = tx[t].route
             /\ Open(t) => tx'[t].run = tx[t].run
  <2>1. tx'[t] = tx[t] \/ (Open(t) /\ tx'[t] = [tx[t] EXCEPT !.during = tx[t].during + 1])
    BY DEF OnTheLoop
  <2>2. CASE tx'[t] = tx[t]
    BY <1>1, <2>2
  <2>3. CASE Open(t) /\ tx'[t] = [tx[t] EXCEPT !.during = tx[t].during + 1]
    <3>1. tx[t].during < Window /\ tx[t] \in Transaction /\ tx[t].route # "closed"
      BY <1>1, <2>3 DEF OnTheLoop, Open
    <3>2. tx[t].during \in 0..Window
      BY <3>1 DEF Transaction, Closed
    <3>3. tx[t].during + 1 \in 0..Window
      BY <1>1, <3>1, <3>2
    <3> QED BY <2>3, <3>1, <3>3 DEF Transaction, Closed
  <2> QED BY <2>1, <2>2, <2>3
<1>7. tx' \in [Threads -> Transaction]
  BY <1>6 DEF OnTheLoop
<1>8. ASSUME NEW r \in Runs
      PROVE  RowBudget(run'[r], over'[r])
  <2>1. RowBudget(run[r], over[r]) /\ LoopRow(run[r], run'[r]) /\ run'[r] \in RunRow
    BY <1>2 DEF TxInv, LoopTables
  <2>2. RowBudget(run'[r], over[r])
    BY <1>4, <2>1 DEF LoopRow
  <2> QED BY <1>4, <2>1, <2>2, BudgetNumbers DEF RowBudget
<1>9. ASSUME NEW t \in Threads, TakesBack(t)', NEW r \in Runs
      PROVE  LoadBudget(run'[r], tx'[t].run[r], over'[r])
  <2>1. TakesBack(t) /\ tx'[t].run = tx[t].run
    BY <1>6, <1>9 DEF TakesBack, Open
  <2>2. LoadBudget(run[r], tx[t].run[r], over[r])
    BY <2>1 DEF TxInv
  <2>3. LoopRow(run[r], run'[r]) /\ run'[r] \in RunRow /\ run[r] \in RunRow
    BY <1>1, <1>2 DEF LoopTables
  <2>4. tx[t].run[r] \in RunRow
    BY <1>1, <2>1 DEF Transaction, Closed, TakesBack
  <2> HIDE DEF TxInv
  <2>5. CASE tx[t].run[r].lifecycle = "running"
    <3>1. LoadedRunning(r)
      BY <2>1, <2>5 DEF LoadedRunning
    <3> QED BY <1>4, <2>1, <2>2, <2>3, <2>4, <2>5, <3>1, BudgetNumbers DEF LoadBudget, LoopRow
  <2>6. CASE tx[t].run[r].lifecycle # "running"
    BY <2>1, <2>6 DEF LoadBudget
  <2> QED BY <2>5, <2>6
<1> QED BY <1>2, <1>3, <1>5, <1>7, <1>8, <1>9 DEF TxInv, TxTypeOK, LoopTables

\* Time passes for a run or a heartbeat, and processes are told to stop or die.
LEMMA ElsewhereLemma ==
  ASSUME TxInv, Elsewhere
  PROVE  TxInv' /\ \A r \in Runs : LoopRow(run[r], run'[r])
<1>1. TypeOK /\ JobsNamed /\ UNCHANGED <<tx, over>> /\ run \in [Runs -> RunRow]
  BY DEF TxInv, TxTypeOK, TypeOK, Elsewhere
<1>2. TypeOK' /\ JobsNamed'
  <2>1. ASSUME NEW w \in Workers, Signal(w)
        PROVE  TypeOK' /\ JobsNamed'
    <3> DEFINE a == [agent[w] EXCEPT !.stop = TRUE]
    <3>1. a \in Agent /\ a.pc = agent[w].pc /\ a.run = agent[w].run
      BY <1>1 DEF TypeOK, Agent
    <3>2. agent' = [agent EXCEPT ![w] = a] /\ UNCHANGED <<run, worker, late>>
      BY <1>1, <2>1 DEF Signal, TypeOK
    <3> HIDE DEF a
    <3> QED BY <1>1, <3>1, <3>2 DEF TypeOK, JobsNamed
  <2>2. ASSUME NEW w \in Workers, Crash(w)
        PROVE  TypeOK' /\ JobsNamed'
    BY <1>1, <2>2, AgentDownOK DEF Crash, TypeOK, JobsNamed
  <2>3. ASSUME NEW w \in Workers, HeartbeatLapses(w)
        PROVE  TypeOK' /\ JobsNamed'
    <3>1. [worker[w] EXCEPT !.fresh = FALSE] \in WorkerRow
      BY <1>1 DEF TypeOK, WorkerRow
    <3> QED BY <1>1, <2>3, <3>1 DEF HeartbeatLapses, TypeOK, JobsNamed
  <2>4. ASSUME NEW r \in Runs, RunAges(r)
        PROVE  TypeOK' /\ JobsNamed'
    <3>1. [run[r] EXCEPT !.old = TRUE] \in RunRow
      BY <1>1 DEF RunRow
    <3> QED BY <1>1, <2>4, <3>1 DEF RunAges, TypeOK, JobsNamed
  <2> QED BY <2>1, <2>2, <2>3, <2>4 DEF Elsewhere
<1>3. ASSUME NEW r \in Runs
      PROVE  /\ run'[r].lifecycle = run[r].lifecycle /\ run'[r].attempts = run[r].attempts
             /\ run'[r].reclaims = run[r].reclaims
  <2>1. run'[r] = run[r] \/ run'[r] = [run[r] EXCEPT !.old = TRUE]
    BY <1>1 DEF Elsewhere, Signal, Crash, HeartbeatLapses, RunAges
  <2> QED BY <1>1, <2>1 DEF RunRow
<1>4. \A r \in Runs : LoopRow(run[r], run'[r])
  BY <1>3 DEF LoopRow, RowBudget, Ended
<1>5. \A t \in Threads : TakesBack(t)' = TakesBack(t)
  BY <1>1 DEF TakesBack
<1> QED BY <1>1, <1>2, <1>3, <1>4, <1>5 DEF TxInv, TxTypeOK, RowBudget, LoadBudget

-----------------------------------------------------------------------------
(* Threaded transactions: what one decides about a row it has loaded, and what  *)
(* its commit makes of the row as it is by then. *)

Decided(loaded, new) ==
  \/ new = loaded
  \/ /\ new.attempts = loaded.attempts
     /\ \/ /\ loaded.lifecycle = "running" /\ new.reclaims = loaded.reclaims + 1
           /\ \/ new.lifecycle = "timed_out"
              \/ new.lifecycle = "queued" /\ new.reclaims <= MaxReclaims
        \/ /\ loaded.lifecycle = "queued" /\ new.reclaims = loaded.reclaims
           /\ new.lifecycle \in {"cancelled", "timed_out"}

LEMMA MergedRow ==
  ASSUME NEW row \in RunRow, NEW loaded \in RunRow, NEW new \in RunRow, NEW extra \in Nat,
         RowBudget(row, extra), Decided(loaded, new),
         loaded.lifecycle = "running" => new = loaded \/ LoadBudget(row, loaded, extra),
         NEW merged, merged = [c \in DOMAIN row |->
                                 IF new[c] = loaded[c] THEN row[c] ELSE new[c]]
  PROVE  /\ merged \in RunRow /\ RowBudget(merged, extra)
         /\ merged.attempts = row.attempts
         /\ row.lifecycle # "absent" => merged.lifecycle # "absent"
         /\ row.lifecycle \in Ended /\ merged.lifecycle \in {"queued", "running"}
              => loaded.lifecycle = "running"
<1>1. /\ merged \in RunRow
      /\ merged.lifecycle = IF new.lifecycle = loaded.lifecycle THEN row.lifecycle ELSE new.lifecycle
      /\ merged.attempts = IF new.attempts = loaded.attempts THEN row.attempts ELSE new.attempts
      /\ merged.reclaims = IF new.reclaims = loaded.reclaims THEN row.reclaims ELSE new.reclaims
  BY DEF RunRow
<1>2. /\ row.attempts \in Nat /\ row.reclaims \in Nat /\ loaded.reclaims \in Nat
      /\ MaxReclaims \in Nat
  BY BudgetNumbers
<1>3. merged.attempts = row.attempts
  BY <1>1 DEF Decided
<1>4. CASE new = loaded
  BY <1>1, <1>4 DEF RowBudget, Ended
<1>5. CASE new # loaded /\ loaded.lifecycle = "running"
  <2>1. LoadBudget(row, loaded, extra)
    BY <1>5
  <2>2. merged.lifecycle = new.lifecycle /\ merged.reclaims = loaded.reclaims + 1
    BY <1>1, <1>2, <1>5 DEF Decided
  <2> QED BY <1>1, <1>2, <1>3, <1>5, <2>1, <2>2 DEF Decided, RowBudget, LoadBudget
<1>6. CASE new # loaded /\ loaded.lifecycle = "queued"
  BY <1>1, <1>2, <1>3, <1>6 DEF Decided, RowBudget, Ended
<1> QED BY <1>4, <1>5, <1>6 DEF Decided

LEMMA ReclaimDecides ==
  ASSUME NEW R \in [Runs -> RunRow], NEW W, NEW r \in Runs
  PROVE  /\ Reclaim(R, W)[r] \in RunRow /\ Decided(R[r], Reclaim(R, W)[r])
<1>1. Reclaim(R, W)[r] = R[r]
      \/ (Reclaim(R, W)[r] = ReclaimRow(R[r]) /\ R[r].lifecycle = "running")
  BY DEF Reclaim
<1> QED BY <1>1, ReclaimedRow DEF Decided

\* The sweep reads its own copy of the tables.
LEMMA SweepDecides ==
  ASSUME NEW t, NEW R \in [Runs -> RunRow], NEW W, NEW r \in Runs
  PROVE  /\ Loaded(t)!ExpireUnserviceable(Reclaim(R, W))[r] \in RunRow
         /\ Decided(R[r], Loaded(t)!ExpireUnserviceable(Reclaim(R, W))[r])
<1> DEFINE back == Reclaim(R, W)[r]
           new  == Loaded(t)!ExpireUnserviceable(Reclaim(R, W))[r]
<1>1. new = back \/ (new = RetireRow(back) /\ back.lifecycle = "queued")
  BY DEF Loaded!ExpireUnserviceable, Loaded!RetireRow, RetireRow, Loaded!Synthetic, Synthetic
<1>2. back \in RunRow /\ Decided(R[r], back)
  BY ReclaimDecides
<1> HIDE DEF back, new
<1>3. RetireRow(back) \in RunRow /\ RetireRow(back).attempts = back.attempts
      /\ RetireRow(back).reclaims = back.reclaims /\ RetireRow(back).lifecycle = "timed_out"
  BY <1>2, RetiredRow
<1> QED BY <1>1, <1>2, <1>3 DEF Decided, new

\* A commit of t whose decisions are of that kind: the other transaction keeps
\* what it has loaded, and attempts are as they were.
LEMMA CommitLemma ==
  ASSUME TxInv, NEW t \in Threads, Open(t),
         run' \in [Runs -> RunRow], worker' \in [Workers -> WorkerRow],
         \A r \in Runs : /\ RowBudget(run'[r], over[r]) /\ run'[r].attempts = run[r].attempts
                         /\ run[r].lifecycle # "absent" => run'[r].lifecycle # "absent",
         tx' = [tx EXCEPT ![t] = Closed], UNCHANGED <<agent, late, over>>
  PROVE  TxInv'
<1>1. tx \in [Threads -> Transaction] /\ TypeOK /\ JobsNamed /\ over \in [Runs -> Nat]
  BY DEF TxInv, TxTypeOK
<1>2. Closed \in Transaction /\ Closed.route = "closed"
  BY DEF Transaction, Closed
<1>3. TxTypeOK' /\ JobsNamed'
  BY <1>1, <1>2 DEF TxTypeOK, TypeOK, JobsNamed
<1>4. ASSUME NEW u \in Threads, TakesBack(u)', NEW r \in Runs
      PROVE  LoadBudget(run'[r], tx'[u].run[r], over'[r])
  <2>1. u # t
    BY <1>1, <1>2, <1>4 DEF TakesBack
  <2>2. tx'[u] = tx[u]
    BY <1>1, <2>1
  <2>3. LoadBudget(run[r], tx[u].run[r], over[r])
    BY <1>4, <2>2 DEF TxInv, TakesBack
  <2> QED BY <2>2, <2>3 DEF LoadBudget
<1> QED BY <1>3, <1>4 DEF TxInv

LEMMA LoadedTyped ==
  ASSUME TxInv, NEW t \in Threads, Open(t)
  PROVE  /\ tx[t].run \in [Runs -> RunRow]
         /\ tx[t].route = "sweep" => tx[t].worker \in [Workers -> WorkerRow]
         /\ tx[t].route = "delete" => \E w \in Workers : tx[t].on = {w}
BY DEF TxInv, TxTypeOK, Transaction, Closed, Open

LEMMA BeginLemma ==
  ASSUME TxInv, NEW t \in Threads, NEW route, NEW on, NEW rows, Begin(t, route, on, rows),
         [route |-> route, on |-> on, run |-> run, worker |-> rows, during |-> 0] \in Transaction
  PROVE  TxInv' /\ run' = run
<1> DEFINE new == [route |-> route, on |-> on, run |-> run, worker |-> rows, during |-> 0]
<1>1. tx \in [Threads -> Transaction] /\ TypeOK /\ JobsNamed /\ over \in [Runs -> Nat]
  BY DEF TxInv, TxTypeOK
<1>2. tx' = [tx EXCEPT ![t] = new] /\ UNCHANGED <<run, worker, agent, late, over>>
      /\ new.run = run /\ new \in Transaction
  BY DEF Begin
<1> HIDE DEF new
<1>3. TxTypeOK' /\ JobsNamed'
  BY <1>1, <1>2 DEF TxTypeOK, TypeOK, JobsNamed
<1>4. ASSUME NEW u \in Threads, TakesBack(u)', NEW r \in Runs
      PROVE  LoadBudget(run'[r], tx'[u].run[r], over'[r])
  <2>1. CASE u = t
    <3>1. tx'[u].run[r] = run[r] /\ run[r] \in RunRow /\ RowBudget(run[r], over[r])
      BY <1>1, <1>2, <2>1 DEF TxInv, TypeOK
    <3> QED BY <1>2, <3>1 DEF RowBudget, LoadBudget
  <2>2. CASE u # t
    BY <1>1, <1>2, <1>4, <2>2 DEF TxInv, TakesBack
  <2> QED BY <2>1, <2>2
<1> QED BY <1>2, <1>3, <1>4 DEF TxInv

\* What the commits revive they had loaded as running.
Revives(t) ==
  \A r \in Runs : run[r].lifecycle \in Ended /\ run'[r].lifecycle \in {"queued", "running"}
                  => tx[t].run[r].lifecycle = "running"

LEMMA MergedTable ==
  ASSUME TxInv, NEW t \in Threads, Open(t), NEW D,
         \A r \in Runs : D[r] \in RunRow /\ Decided(tx[t].run[r], D[r]),
         TakesBack(t) \/ \A r \in Runs : tx[t].run[r].lifecycle = "running" => D[r] = tx[t].run[r]
  PROVE  LET M == Merged(run, tx[t].run, D)
         IN  /\ M \in [Runs -> RunRow]
             /\ \A r \in Runs :
                  /\ RowBudget(M[r], over[r]) /\ M[r].attempts = run[r].attempts
                  /\ run[r].lifecycle # "absent" => M[r].lifecycle # "absent"
                  /\ run[r].lifecycle \in Ended /\ M[r].lifecycle \in {"queued", "running"}
                       => tx[t].run[r].lifecycle = "running"
<1> DEFINE M == Merged(run, tx[t].run, D)
<1>1. /\ run \in [Runs -> RunRow] /\ tx[t].run \in [Runs -> RunRow] /\ over \in [Runs -> Nat]
      /\ \A r \in Runs : RowBudget(run[r], over[r])
      /\ TakesBack(t) => \A r \in Runs : LoadBudget(run[r], tx[t].run[r], over[r])
  BY LoadedTyped DEF TxInv, TxTypeOK, TypeOK
<1>2. DOMAIN M = Runs /\ M = [r \in Runs |-> M[r]]
  BY <1>1 DEF Merged
<1>3. ASSUME NEW r \in Runs
      PROVE  /\ M[r] \in RunRow
             /\ RowBudget(M[r], over[r]) /\ M[r].attempts = run[r].attempts
             /\ run[r].lifecycle # "absent" => M[r].lifecycle # "absent"
             /\ run[r].lifecycle \in Ended /\ M[r].lifecycle \in {"queued", "running"}
                  => tx[t].run[r].lifecycle = "running"
  <2>1. M[r] = [c \in DOMAIN run[r] |->
                  IF D[r][c] = tx[t].run[r][c] THEN run[r][c] ELSE D[r][c]]
    BY <1>1 DEF Merged
  <2>2. /\ run[r] \in RunRow /\ tx[t].run[r] \in RunRow /\ D[r] \in RunRow /\ over[r] \in Nat
        /\ RowBudget(run[r], over[r]) /\ Decided(tx[t].run[r], D[r])
        /\ tx[t].run[r].lifecycle = "running"
             => D[r] = tx[t].run[r] \/ LoadBudget(run[r], tx[t].run[r], over[r])
    BY <1>1
  <2> HIDE DEF M
  <2> QED BY SMTT(40), <2>1, <2>2, MergedRow
<1> HIDE DEF M
<1> QED BY <1>2, <1>3 DEF M

LEMMA CommitSweepLemma ==
  ASSUME TxInv, CommitSweep
  PROVE  TxInv' /\ Revives("reaper") /\ TakesBack("reaper") /\ ~Open("reaper")'
<1> DEFINE loaded == tx["reaper"].worker
           stale  == Loaded("reaper")!Stale
           gone   == [w \in Workers |-> IF w \in stale
                       THEN [loaded[w] EXCEPT !.status = "offline", !.count = 0] ELSE loaded[w]]
           D      == Loaded("reaper")!ExpireUnserviceable(Reclaim(tx["reaper"].run, stale))
<1>1. /\ "reaper" \in Threads /\ Open("reaper") /\ TakesBack("reaper")
      /\ tx["reaper"].route = "sweep"
  BY DEF CommitSweep, Threads, Open, TakesBack
<1>2. /\ tx \in [Threads -> Transaction] /\ run \in [Runs -> RunRow]
      /\ worker \in [Workers -> WorkerRow] /\ over \in [Runs -> Nat]
      /\ tx["reaper"].run \in [Runs -> RunRow] /\ loaded \in [Workers -> WorkerRow]
      /\ \A r \in Runs : RowBudget(run[r], over[r])
  BY <1>1, LoadedTyped DEF TxInv, TxTypeOK, TypeOK
<1>3. tx' = [tx EXCEPT !["reaper"] = Closed] /\ UNCHANGED <<agent, late, over>>
  BY DEF CommitSweep, Commit
<1>4. ~Open("reaper")'
  BY <1>1, <1>2, <1>3 DEF Open, Closed
<1>5. CASE \E w \in stale : ~Registered(w)
  <2>1. UNCHANGED <<run, worker>>
    BY <1>5 DEF CommitSweep
  <2>2. TxInv'
    BY <1>1, <1>2, <1>3, <2>1, CommitLemma
  <2> QED BY <1>1, <1>4, <2>1, <2>2 DEF Revives, Ended
<1>6. CASE ~(\E w \in stale : ~Registered(w))
  <2>1. run' = Merged(run, tx["reaper"].run, D) /\ worker' = Merged(worker, loaded, gone)
    BY <1>6 DEF CommitSweep, Commit
  <2>2. \A r \in Runs : D[r] \in RunRow /\ Decided(tx["reaper"].run[r], D[r])
    BY <1>2, SweepDecides
  <2>3. worker' \in [Workers -> WorkerRow]
    <3>1. ASSUME NEW w \in Workers
          PROVE  worker'[w] \in WorkerRow
      <4>1. worker[w] \in WorkerRow /\ loaded[w] \in WorkerRow
        BY <1>2
      <4>2. gone[w] \in WorkerRow
        <5> HIDE DEF loaded, stale
        <5> QED BY ZenonT(60), <4>1 DEF WorkerRow
      <4>3. worker'[w] = [c \in DOMAIN worker[w] |->
                            IF gone[w][c] = loaded[w][c] THEN worker[w][c] ELSE gone[w][c]]
        BY <1>2, <2>1 DEF Merged
      <4> HIDE DEF gone, loaded
      <4> QED BY <4>1, <4>2, <4>3 DEF WorkerRow
    <3>2. DOMAIN worker' = Workers /\ worker' = [w \in Workers |-> worker'[w]]
      BY <1>2, <2>1 DEF Merged
    <3> QED BY <3>1, <3>2
  <2> HIDE DEF D, gone, loaded, stale
  <2>4. /\ run' \in [Runs -> RunRow]
        /\ \A r \in Runs :
             /\ RowBudget(run'[r], over[r]) /\ run'[r].attempts = run[r].attempts
             /\ run[r].lifecycle # "absent" => run'[r].lifecycle # "absent"
             /\ run[r].lifecycle \in Ended /\ run'[r].lifecycle \in {"queued", "running"}
                  => tx["reaper"].run[r].lifecycle = "running"
    BY <1>1, <2>1, <2>2, MergedTable
  <2>5. TxInv'
    BY <1>1, <1>3, <2>3, <2>4, CommitLemma
  <2> QED BY <1>1, <1>4, <2>4, <2>5 DEF Revives
<1> QED BY <1>5, <1>6

LEMMA CommitCancelLemma ==
  ASSUME TxInv, CommitCancel
  PROVE  TxInv' /\ Revives("web") /\ \A r \in Runs : run[r].lifecycle \in Ended
                                                      => run'[r].lifecycle \in Ended
<1> DEFINE D == [r \in Runs |->
                  LET row == tx["web"].run[r]
                  IN  IF r \in tx["web"].on /\ row.lifecycle = "queued"
                      THEN [row EXCEPT !.lifecycle = "cancelled"] ELSE row]
<1>1. "web" \in Threads /\ Open("web")
  BY DEF CommitCancel, Threads, Open
<1>2. /\ run \in [Runs -> RunRow] /\ worker \in [Workers -> WorkerRow]
      /\ tx["web"].run \in [Runs -> RunRow]
  BY <1>1, LoadedTyped DEF TxInv, TxTypeOK, TypeOK
<1>3. /\ tx' = [tx EXCEPT !["web"] = Closed] /\ UNCHANGED <<agent, late, over>>
      /\ run' = Merged(run, tx["web"].run, D) /\ worker' = worker
  BY DEF CommitCancel, Commit
<1>4. ASSUME NEW r \in Runs
      PROVE  /\ D[r] \in RunRow /\ Decided(tx["web"].run[r], D[r])
             /\ D[r] = tx["web"].run[r] \/ D[r].lifecycle = "cancelled"
             /\ tx["web"].run[r].lifecycle = "running" => D[r] = tx["web"].run[r]
  <2> DEFINE row == tx["web"].run[r]
  <2>1. row \in RunRow
    BY <1>2
  <2>2. \/ D[r] = row
        \/ D[r] = [row EXCEPT !.lifecycle = "cancelled"] /\ row.lifecycle = "queued"
    OBVIOUS
  <2> HIDE DEF D, row
  <2>3. /\ [row EXCEPT !.lifecycle = "cancelled"] \in RunRow
        /\ [row EXCEPT !.lifecycle = "cancelled"].lifecycle = "cancelled"
        /\ [row EXCEPT !.lifecycle = "cancelled"].attempts = row.attempts
        /\ [row EXCEPT !.lifecycle = "cancelled"].reclaims = row.reclaims
    BY <2>1 DEF RunRow, Lifecycles
  <2> QED BY <2>1, <2>2, <2>3 DEF Decided, row
<1> HIDE DEF D
<1>5. /\ run' \in [Runs -> RunRow]
      /\ \A r \in Runs :
           /\ RowBudget(run'[r], over[r]) /\ run'[r].attempts = run[r].attempts
           /\ run[r].lifecycle # "absent" => run'[r].lifecycle # "absent"
           /\ run[r].lifecycle \in Ended /\ run'[r].lifecycle \in {"queued", "running"}
                => tx["web"].run[r].lifecycle = "running"
  BY <1>1, <1>3, <1>4, MergedTable
<1>6. TxInv'
  BY <1>1, <1>2, <1>3, <1>5, CommitLemma
<1>7. ASSUME NEW r \in Runs, run[r].lifecycle \in Ended
      PROVE  run'[r].lifecycle \in Ended
  <2>1. run'[r].lifecycle = IF D[r].lifecycle = tx["web"].run[r].lifecycle
                            THEN run[r].lifecycle ELSE D[r].lifecycle
    BY <1>2, <1>3 DEF Merged, RunRow
  <2> QED BY <1>4, <1>7, <2>1 DEF Ended
<1> QED BY <1>5, <1>6, <1>7 DEF Revives

LEMMA CommitDeleteLemma ==
  ASSUME TxInv, CommitDelete
  PROVE  TxInv' /\ Revives("web") /\ TakesBack("web") /\ ~Open("web")'
<1> DEFINE w    == CHOOSE w \in Workers : w \in tx["web"].on
           D    == Reclaim(tx["web"].run, {w})
           back == Merged(run, tx["web"].run, D)
<1>1. "web" \in Threads /\ Open("web") /\ TakesBack("web")
  BY DEF CommitDelete, Threads, Open, TakesBack
<1>2. /\ tx \in [Threads -> Transaction]
      /\ run \in [Runs -> RunRow] /\ worker \in [Workers -> WorkerRow]
      /\ tx["web"].run \in [Runs -> RunRow] /\ over \in [Runs -> Nat]
  BY <1>1, LoadedTyped DEF TxInv, TxTypeOK, TypeOK
<1>3. w \in Workers
  BY <1>1, LoadedTyped DEF CommitDelete
<1>4. /\ tx' = [tx EXCEPT !["web"] = Closed] /\ UNCHANGED <<agent, late, over>>
      /\ run' = [r \in Runs |-> IF back[r].owner = w
                   THEN [back[r] EXCEPT !.owner = NoWorker] ELSE back[r]]
      /\ worker' = [worker EXCEPT ![w].status = "deleted"]
  BY DEF CommitDelete
<1>5. \A r \in Runs : D[r] \in RunRow /\ Decided(tx["web"].run[r], D[r])
  BY <1>2, ReclaimDecides
<1> HIDE DEF w, D
<1>6. /\ back \in [Runs -> RunRow]
      /\ \A r \in Runs :
           /\ RowBudget(back[r], over[r]) /\ back[r].attempts = run[r].attempts
           /\ run[r].lifecycle # "absent" => back[r].lifecycle # "absent"
           /\ run[r].lifecycle \in Ended /\ back[r].lifecycle \in {"queued", "running"}
                => tx["web"].run[r].lifecycle = "running"
  BY <1>1, <1>5, MergedTable
<1> HIDE DEF back
<1>7. ASSUME NEW r \in Runs
      PROVE  /\ run'[r] \in RunRow /\ run'[r].lifecycle = back[r].lifecycle
             /\ run'[r].attempts = back[r].attempts /\ run'[r].reclaims = back[r].reclaims
  <2>1. back[r] \in RunRow
    BY <1>6
  <2>2. run'[r] = back[r] \/ run'[r] = [back[r] EXCEPT !.owner = NoWorker]
    BY <1>4
  <2> QED BY <2>1, <2>2 DEF RunRow
<1>8. run' \in [Runs -> RunRow]
  BY <1>4, <1>7
<1>9. worker' \in [Workers -> WorkerRow]
  <2>1. [worker[w] EXCEPT !.status = "deleted"] \in WorkerRow
    BY <1>2, <1>3 DEF WorkerRow
  <2> QED BY <1>2, <1>3, <1>4, <2>1
<1>10. \A r \in Runs : RowBudget(run'[r], over[r])
  BY <1>6, <1>7 DEF RowBudget
<1>11. TxInv'
  BY <1>1, <1>4, <1>6, <1>7, <1>8, <1>9, <1>10, CommitLemma
<1>12. ~Open("web")'
  BY <1>1, <1>2, <1>4 DEF Open, Closed
<1> QED BY <1>1, <1>6, <1>7, <1>11, <1>12 DEF Revives

-----------------------------------------------------------------------------
(* The invariant, and the properties. *)

LEMMA TxInvInit == TxInit => TxInv
<1> SUFFICES ASSUME TxInit PROVE TxInv
  OBVIOUS
<1>1. DispatchInv
  BY InvInit DEF TxInit
<1>2. TypeOK /\ JobsNamed
  BY <1>1 DEF DispatchInv, JobsHanded, JobsNamed
<1>3. Closed \in Transaction /\ Closed.route = "closed"
  BY DEF Transaction, Closed
<1>4. TxTypeOK
  BY <1>2, <1>3 DEF TxInit, TxTypeOK
<1>5. \A r \in Runs : RowBudget(run[r], over[r])
  BY ConstantsAssumption DEF TxInit, Init, RowBudget
<1>6. \A t \in Threads : ~TakesBack(t)
  BY <1>3 DEF TxInit, TakesBack
<1> QED BY <1>2, <1>4, <1>5, <1>6 DEF TxInv

LEMMA BeginsLemma ==
  ASSUME TxInv, BeginSweep \/ BeginCancel \/ BeginDelete
  PROVE  TxInv' /\ run' = run
<1>1. /\ Window \in Nat /\ "reaper" \in Threads /\ "web" \in Threads
      /\ run \in [Runs -> RunRow] /\ worker \in [Workers -> WorkerRow]
  BY TxAssumption DEF Threads, TxInv, TxTypeOK, TypeOK
<1>2. CASE BeginSweep
  <2>1. [route |-> "sweep", on |-> {}, run |-> run, worker |-> worker, during |-> 0]
          \in Transaction
    BY <1>1 DEF Transaction
  <2> QED BY <1>1, <1>2, <2>1, BeginLemma DEF BeginSweep
<1>3. CASE BeginCancel
  <2>1. PICK S \in {{r} : r \in Runs} \cup {Runs} : Begin("web", "cancel", S, <<>>)
    BY <1>3 DEF BeginCancel
  <2>2. [route |-> "cancel", on |-> S, run |-> run, worker |-> <<>>, during |-> 0]
          \in Transaction
    BY <1>1 DEF Transaction
  <2> QED BY <1>1, <2>1, <2>2, BeginLemma
<1>4. CASE BeginDelete
  <2>1. PICK w \in Workers : Begin("web", "delete", {w}, <<>>)
    BY <1>4 DEF BeginDelete
  <2>2. [route |-> "delete", on |-> {w}, run |-> run, worker |-> <<>>, during |-> 0]
          \in Transaction
    BY <1>1 DEF Transaction
  <2> QED BY <1>1, <2>1, <2>2, BeginLemma
<1> QED BY <1>2, <1>3, <1>4

\* One step, and what it revives.
LEMMA TxStepLemma ==
  ASSUME TxInv, TxNext
  PROVE  /\ TxInv'
         /\ \/ \A r \in Runs : run[r].lifecycle \in Ended => run'[r].lifecycle \in Ended
            \/ \E t \in Threads : TakesBack(t) /\ ~Open(t)' /\ Revives(t)
<1>1. CASE BeginSweep \/ BeginCancel \/ BeginDelete
  BY <1>1, BeginsLemma
<1>2. CASE CommitSweep
  BY <1>2, CommitSweepLemma DEF Threads
<1>3. CASE CommitCancel
  BY <1>3, CommitCancelLemma
<1>4. CASE CommitDelete
  BY <1>4, CommitDeleteLemma DEF Threads
<1>5. CASE OnTheLoop
  BY <1>5, OnTheLoopLemma DEF LoopRow
<1>6. CASE Elsewhere
  BY <1>6, ElsewhereLemma DEF LoopRow
<1> QED BY <1>1, <1>2, <1>3, <1>4, <1>5, <1>6 DEF TxNext

\* Whatever requests are handled while transactions of the sweep and the web
\* routes are open, rows stay well-formed and every attempt but the one under way
\* was paid for by a reclaim or given out over such a transaction.
THEOREM TxInvariant == TxSpec => []TxInv
<1>1. TxInv /\ UNCHANGED txVars => TxInv'
  BY DEF TxInv, TxTypeOK, TypeOK, JobsNamed, TakesBack, txVars
<1>2. TxInv /\ [TxNext]_txVars => TxInv'
  BY <1>1, TxStepLemma
<1> QED BY TxInvInit, <1>2, PTL DEF TxSpec

\* Overlapping transactions buy a run no attempt beyond MAX_RECLAIMS + 1 but those
\* that were given out over them.
THEOREM TxAttemptsBounded == TxSpec => []AttemptsWithinBudget
<1>1. TxInv => AttemptsWithinBudget
  BY DEF TxInv, RowBudget, AttemptsWithinBudget
<1> QED BY <1>1, TxInvariant, PTL

\* What has ended comes back only by a sweep or a deletion that had loaded the run
\* as running before it ended.
THEOREM TxOnlyReclaimsRevive == TxSpec => OnlyAReclaimRevives
<1>1. TxInv /\ [TxNext]_txVars =>
        [\A r \in Runs :
           /\ run[r].lifecycle \in {"finished", "cancelled", "timed_out"}
           /\ run'[r].lifecycle \in {"queued", "running"}
           => \E t \in Threads :
                /\ TakesBack(t) /\ ~Open(t)'
                /\ tx[t].run[r].lifecycle = "running"]_txVars
  <2>1. CASE TxInv /\ TxNext
    BY <2>1, TxStepLemma DEF Ended, Revives
  <2>2. CASE UNCHANGED txVars
    BY <2>2
  <2> QED BY <2>1, <2>2
<1> QED BY <1>1, TxInvariant, PTL DEF TxSpec, OnlyAReclaimRevives
=============================================================================

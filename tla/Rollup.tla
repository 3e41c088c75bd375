------------------------------- MODULE Rollup -------------------------------
(***************************************************************************)
(* The books of opp_ci: test runs, the verdicts that grade them against the  *)
(* expectations, and the roll-up that is stored with every matrix run.       *)
(*                                                                          *)
(* Each step is one database transaction.  Who executes a run, and how a     *)
(* worker is lost, is Dispatch's business: here a run is claimed, reclaimed, *)
(* reported on or retired, in the order Dispatch allows.                     *)
(***************************************************************************)
EXTENDS Integers, FiniteSets

CONSTANTS
  Matrices,     \* ids of the matrix runs that may be submitted
  Jobs,         \* the jobs a matrix expands to
  Singles,      \* ids of the runs that belong to no matrix run
  Tests,        \* the test coordinates
  TestOf,       \* the test a job is about
  JobOf,        \* the job of each run that belongs to no matrix run
  NoRun,        \* no run with this fingerprint is finished
  Outcomes,     \* the result codes an execution yields
  Expectable,   \* the result codes a user declares as expected
  MaxReclaims,  \* OPP_CI_MAX_RECLAIMS
  LastCommit,   \* bound: the commits that the branch under test moves among, from 0 on
  Uses          \* what users and the environment do, of the Activities

Activities == {"cancel run",     \* cancel one run rather than a matrix run
               "local matrix",   \* `opp_ci run-matrix` executes on the spot
               "literal refs",   \* a git ref cannot be resolved to its SHA
               "pinned refs",    \* jobs name commits rather than the branch
               "stale results"}  \* a worker reports on an attempt it had lost

ResultCodes == {"PASS", "FAIL", "ERROR", "SKIPPED"}

ASSUME ConstantsAssumption ==
  /\ IsFiniteSet(Jobs)
  /\ TestOf \in [Jobs -> Tests] /\ JobOf \in [Singles -> Jobs]
  /\ Outcomes \subseteq ResultCodes /\ Expectable \subseteq ResultCodes
  /\ NoRun \notin Singles \cup (Matrices \X Jobs)
  /\ Singles \cap (Matrices \X Jobs) = {}
  /\ MaxReclaims \in Nat /\ LastCommit \in Nat
  /\ Uses \subseteq Activities

VARIABLES
  run,       \* the test_runs table
  cell,      \* the test_verdicts table
  expected,  \* the expectation in force for each test
  rollup,    \* the stored columns of test_matrix_runs
  newest,    \* for each fingerprint the finished run with the last finished_at
  local,     \* the `opp_ci run-matrix` processes
  head,      \* the commit the branch under test points at
  moved      \* history: the runs that were queued or running when the branch moved

vars == <<run, cell, expected, rollup, newest, local, head, moved>>

-----------------------------------------------------------------------------
(* Rows.  The run a matrix run creates for a job is named after the two, and  *)
(* so is the cell; a verdict of a standalone run has the name of the run.     *)

Keys == (Matrices \X Jobs) \cup Singles

\* Fingerprints: the job with what its git ref resolves to.
Literal == -1
Commits == 0..LastCommit
Refs    == Commits \cup {Literal}
NoPrint == <<>>

Lifecycles == {"absent", "queued", "running", "finished", "cancelled", "timed_out"}
Terminal   == {"finished", "cancelled", "timed_out"}
NoResult   == "none"

\* `owned`: worker_id is set.  `pinned`: the job names a commit, not the branch.
\* `built`: the commit the last attempt checked out.
RunRow == [lifecycle : Lifecycles, result : ResultCodes \cup {NoResult},
           print : (Jobs \X Refs) \cup {NoPrint}, owned : BOOLEAN, reclaims : Nat,
           pinned : BOOLEAN, built : Commits]

\* The expectation of a test nobody has created yet is "unborn".
InForce  == Expectable \cup {"none", "retracted"}
Verdicts == {"EXPECTED", "UNEXPECTED", "UNKNOWN"}

\* `expected` is what expectation_id points at; `run` is test_run_id.
CellRow == [run : Keys, expected : InForce, verdict : Verdicts \cup {"absent", "pending"},
            hit : BOOLEAN]

RollupRow == [pass : Nat, fail : Nat, error : Nat, met : Nat, unmet : Nat, unknown : Nat,
              hits : Nat, total : Nat, summary : ResultCodes \cup {NoResult},
              verdict : Verdicts \cup {"none"}, completed : BOOLEAN]

RowsOK ==
  /\ run \in [Keys -> RunRow]
  /\ cell \in [Keys -> CellRow]
  /\ expected \in [Tests -> InForce \cup {"unborn"}]
  /\ rollup \in [Matrices -> RollupRow]
  /\ newest \in [Jobs \X Refs -> Keys \cup {NoRun}]
  /\ local \in [Matrices -> [up : BOOLEAN, todo : SUBSET Jobs]]
  /\ head \in Commits

TypeOK == RowsOK /\ moved \subseteq Keys

EmptyRollup == [pass |-> 0, fail |-> 0, error |-> 0, met |-> 0, unmet |-> 0, unknown |-> 0,
                hits |-> 0, total |-> 0, summary |-> NoResult, verdict |-> "none",
                completed |-> FALSE]

JobAt(k)  == IF k \in Singles THEN JobOf[k] ELSE k[2]
TestAt(k) == TestOf[JobAt(k)]

NoRow == [lifecycle |-> "absent", result |-> NoResult, print |-> NoPrint, owned |-> FALSE,
          reclaims |-> 0, pinned |-> FALSE, built |-> 0]

NoCell(k) == [run |-> k, expected |-> "none", verdict |-> "absent", hit |-> FALSE]

Init ==
  /\ run = [k \in Keys |-> NoRow]
  /\ cell = [k \in Keys |-> NoCell(k)]
  /\ expected = [t \in Tests |-> "unborn"]
  /\ rollup = [m \in Matrices |-> EmptyRollup]
  /\ newest = [p \in Jobs \X Refs |-> NoRun]
  /\ local = [m \in Matrices |-> [up |-> FALSE, todo |-> {}]]
  /\ head = 0 /\ moved = {}

-----------------------------------------------------------------------------
(* The roll-up: the columns of a matrix run computed from its cells.          *)

CellsOf(C, m) == {j \in Jobs : C[<<m, j>>].verdict # "absent"}

\* A skipped test counts as neither passed nor failed, here and in the summary.
Tally(R, C, m) ==
  LET cells == CellsOf(C, m)
      resulted(c) == Cardinality({j \in cells : R[C[<<m, j>>].run].result = c})
      judged(v)   == Cardinality({j \in cells : C[<<m, j>>].verdict = v})
      total  == Cardinality(cells)
  IN  [pass |-> resulted("PASS"), fail |-> resulted("FAIL"), error |-> resulted("ERROR"),
       met |-> judged("EXPECTED"), unmet |-> judged("UNEXPECTED"),
       unknown |-> judged("UNKNOWN"),
       hits |-> Cardinality({j \in cells : C[<<m, j>>].hit}), total |-> total,
       summary |-> IF resulted("ERROR") > 0 THEN "ERROR"
                   ELSE IF resulted("FAIL") > 0 THEN "FAIL"
                   ELSE IF resulted("PASS") > 0 THEN "PASS" ELSE NoResult,
       verdict |-> IF judged("UNEXPECTED") > 0 THEN "UNEXPECTED"
                   ELSE IF judged("UNKNOWN") > 0 THEN "UNKNOWN"
                   ELSE IF total > 0 /\ judged("EXPECTED") = total THEN "EXPECTED"
                   ELSE "none",
       completed |-> /\ total > 0
                     /\ \A j \in cells : R[C[<<m, j>>].run].lifecycle \in Terminal]

\* The matrix runs in M are rolled up again, after the step's other writes.
RollUp(M) ==
  rollup' = [m \in Matrices |-> IF m \in M THEN Tally(run', cell', m) ELSE rollup[m]]

-----------------------------------------------------------------------------
(* Verdicts. *)

Graded(result, e) ==
  IF result = NoResult THEN "pending"
  ELSE IF e \in {"none", "retracted"} THEN "UNKNOWN"
  ELSE IF result = e THEN "EXPECTED" ELSE "UNEXPECTED"

Unrecorded == {"absent", "pending"}

\* Mutant: every cell on the run is graded again.
SettledByAnyReport(K) == {k \in Keys : cell[k].run \in K}

\* The cells that the end of the runs K settles: those waiting for it, and for
\* a standalone run the verdict it is given now.
SettledBy(K) == {k \in Keys : cell[k].run \in K /\ cell[k].verdict \in Unrecorded}

\* Mutant: only the matrix runs whose cells were settled are rolled up again.
FinalizeOnlySettled(K) ==
  /\ cell' = [k \in Keys |->
       IF k \in SettledBy(K)
       THEN [cell[k] EXCEPT !.expected = expected[TestAt(k)],
                            !.verdict = Graded(run'[cell[k].run].result, expected[TestAt(k)])]
       ELSE cell[k]]
  /\ RollUp({m \in Matrices : \E j \in Jobs : <<m, j>> \in SettledBy(K)})

\* Mutant: graded against what was expected when the cell was made.
FinalizeAsSubmitted(K) ==
  /\ cell' = [k \in Keys |->
       IF k \in SettledBy(K)
       THEN [cell[k] EXCEPT !.expected = expected[TestAt(k)],
                            !.verdict = Graded(run'[cell[k].run].result, cell[k].expected)]
       ELSE cell[k]]
  /\ RollUp({m \in Matrices : \E j \in CellsOf(cell, m) : cell[<<m, j>>].run \in K})

\* Every matrix run with a cell on one of the runs is rolled up again, also when
\* the cell was settled before (by the cache, or by an earlier report).
Finalize(K) ==
  /\ cell' = [k \in Keys |->
       IF k \in SettledBy(K)
       THEN [cell[k] EXCEPT !.expected = expected[TestAt(k)],
                            !.verdict = Graded(run'[cell[k].run].result, expected[TestAt(k)])]
       ELSE cell[k]]
  /\ RollUp({m \in Matrices : \E j \in CellsOf(cell, m) : cell[<<m, j>>].run \in K})

-----------------------------------------------------------------------------
(* Submitting. *)

\* Mutant: no test row is written when there is no expectation to stamp.
StampedIfAny(J, d) ==
  [t \in Tests |-> IF expected[t] = "unborn" /\ d # "none" /\ t \in {TestOf[j] : j \in J}
                   THEN d ELSE expected[t]]

\* A test that is created is stamped with an expectation d, or with none.
Stamped(J, d) ==
  [t \in Tests |-> IF expected[t] = "unborn" /\ t \in {TestOf[j] : j \in J}
                   THEN d ELSE expected[t]]

\* What an attempt that starts now builds.
Checkout(row) == IF row.pinned THEN row.print[2] ELSE head

NewRow(p, pinned) ==
  [NoRow EXCEPT !.print = p, !.pinned = pinned, !.lifecycle = "queued"]

\* A run is executed on the spot.
Executed(row) == [row EXCEPT !.lifecycle = "running", !.built = Checkout(row)]

\* The jobs J of matrix run m become cells: on the newest finished run with the
\* same fingerprint, if there is one, or on a run of their own.  Without the
\* cache the run gets no fingerprint.
EnqueueJobs(m, J, cached, source, spot) ==
  LET ref  == source.ref
      hits == {j \in J : cached /\ newest[<<j, ref>>] # NoRun}
      made == {<<m, j>> : j \in J \ hits}
      used == {<<m, j>> : j \in hits}
  IN  /\ \E d \in Expectable \cup {"none"} : expected' = Stamped(J, d)
      /\ run' = [k \in Keys |->
           IF k \in made
           THEN LET queued == IF cached THEN NewRow(<<JobAt(k), ref>>, source.pinned)
                              ELSE NewRow(NoPrint, FALSE)
                IN  IF spot THEN Executed(queued) ELSE queued
           ELSE run[k]]
      /\ cell' = [k \in Keys |->
           IF k \in made THEN [cell[k] EXCEPT !.verdict = "pending"]
           ELSE IF k \in used
           THEN LET r == newest[<<JobAt(k), ref>>]
                    e == expected'[TestAt(k)]
                IN  [run |-> r, expected |-> e, verdict |-> Graded(run[r].result, e),
                     hit |-> TRUE]
           ELSE cell[k]]
      /\ RollUp({m})

\* Mutant: a resolution of an earlier day is reused.
ResolvesToEarlier == Commits

\* What a job's git ref resolves to: where the branch is, or nothing.
ResolvesTo == {head} \cup (IF "literal refs" \in Uses THEN {Literal} ELSE {})

\* Where a job gets its source from.  A commit resolves to itself.
Sources(refs) ==
  [ref : refs, pinned : {FALSE}]
  \cup (IF "pinned refs" \in Uses THEN [ref : Commits, pinned : {TRUE}] ELSE {})

Fresh(m) == CellsOf(cell, m) = {} /\ local[m].todo = {}

\* Web, REST and webhook: all the jobs in one transaction.
SubmitMatrix(m, J) ==
  /\ Fresh(m) /\ J # {}
  /\ \E cached \in BOOLEAN, source \in Sources(ResolvesTo) :
       EnqueueJobs(m, J, cached, source, FALSE)
  /\ UNCHANGED <<newest, local, head>>

\* A run that belongs to no matrix run: submitted, a re-run, or queued by the
\* webhook.  Only the last has a fingerprint, and finds nothing in the cache.
SubmitSingle(s) ==
  /\ run[s].lifecycle = "absent"
  /\ \E p \in {NoPrint} \cup {<<JobOf[s], ref>> : ref \in ResolvesTo} :
       /\ p # NoPrint => newest[p] = NoRun
       /\ run' = [run EXCEPT ![s] = NewRow(p, FALSE)]
  /\ \E d \in Expectable \cup {"none"} : expected' = Stamped({JobOf[s]}, d)
  /\ UNCHANGED <<cell, rollup, newest, local, head>>

-----------------------------------------------------------------------------
(* Workers and the reaper. *)

Claim(k) ==
  /\ run[k].lifecycle = "queued"
  /\ run' = [run EXCEPT ![k] = [Executed(run[k]) EXCEPT !.owned = TRUE]]
  /\ UNCHANGED <<cell, expected, rollup, newest, local, head>>

\* The outcome c of run k is written; it is now the newest with its fingerprint.
Finish(k, c) ==
  /\ run' = [run EXCEPT ![k].lifecycle = "finished", ![k].result = c]
  /\ newest' = IF run[k].print = NoPrint THEN newest ELSE [newest EXCEPT ![run[k].print] = k]
  /\ Finalize({k})
  /\ UNCHANGED <<expected, local, head>>

\* A report that is repeated brings the same outcome again; one on an attempt
\* that the same worker had lost may bring another.
Report(k, c) ==
  /\ run[k].owned
  /\ run[k].lifecycle = "finished" =>
       c = run[k].result \/ ("stale results" \in Uses /\ run[k].reclaims > 0)
  /\ Finish(k, c)

Retired(row) ==
  [row EXCEPT !.lifecycle = "timed_out", !.owned = FALSE, !.result = "ERROR"]

\* Mutant: retired, and its cells forgotten.
ReclaimUngraded(K) ==
  /\ K # {} /\ \A k \in K : run[k].lifecycle = "running" /\ run[k].owned
  /\ run' = [k \in Keys |->
       IF k \notin K THEN run[k]
       ELSE IF run[k].reclaims >= MaxReclaims THEN Retired(run[k])
       ELSE [run[k] EXCEPT !.reclaims = @ + 1, !.lifecycle = "queued", !.owned = FALSE]]
  /\ UNCHANGED <<cell, rollup, expected, newest, local, head>>

\* The workers of the runs K are lost: the sweep requeues or retires them all.
Reclaim(K) ==
  LET spent == {k \in K : run[k].reclaims >= MaxReclaims}
      Counted(k) == [run[k] EXCEPT !.reclaims = @ + 1]
  IN  /\ K # {} /\ \A k \in K : run[k].lifecycle = "running" /\ run[k].owned
      /\ run' = [k \in Keys |->
           IF k \in spent THEN Retired(Counted(k))
           ELSE IF k \in K THEN [Counted(k) EXCEPT !.lifecycle = "queued", !.owned = FALSE]
           ELSE run[k]]
      /\ Finalize(spent)
      /\ UNCHANGED <<expected, newest, local, head>>

\* Mutant: retired, and its cells forgotten.
ExpireUngraded(K) ==
  /\ K # {} /\ \A k \in K : run[k].lifecycle = "queued"
  /\ run' = [k \in Keys |-> IF k \in K THEN Retired(run[k]) ELSE run[k]]
  /\ UNCHANGED <<cell, rollup, expected, newest, local, head>>

\* Nobody can serve the runs K, which have been queued for too long.
Expire(K) ==
  /\ K # {} /\ \A k \in K : run[k].lifecycle = "queued"
  /\ run' = [k \in Keys |-> IF k \in K THEN Retired(run[k]) ELSE run[k]]
  /\ Finalize(K)
  /\ UNCHANGED <<expected, newest, local, head>>

-----------------------------------------------------------------------------
(* Cancelling, expectations, and the branch. *)

Cancelled(K) ==
  [k \in Keys |-> IF k \in K THEN [run[k] EXCEPT !.lifecycle = "cancelled"] ELSE run[k]]

\* One run is cancelled; no roll-up is refreshed.
CancelRun(k) ==
  /\ "cancel run" \in Uses /\ run[k].lifecycle = "queued"
  /\ run' = Cancelled({k})
  /\ UNCHANGED <<cell, expected, rollup, newest, local, head>>

\* Mutant: the roll-up waits for the next cell to finish.
CancelMatrixQuietly(m) ==
  /\ ~Fresh(m)
  /\ run' = Cancelled({k \in {m} \X Jobs : run[k].lifecycle = "queued"})
  /\ UNCHANGED <<cell, rollup, expected, newest, local, head>>

\* The queued runs the matrix run made are cancelled, and it is rolled up again.
CancelMatrix(m) ==
  LET queued == {k \in {m} \X Jobs : run[k].lifecycle = "queued"}
  IN  /\ ~Fresh(m)
      /\ run' = Cancelled(queued)
      /\ UNCHANGED cell /\ RollUp({m})
      /\ UNCHANGED <<expected, newest, local, head>>

\* An expectation is declared, or retracted, for a test that exists.
SetExpectation(t) ==
  /\ expected[t] # "unborn"
  /\ \E e \in Expectable \cup {"retracted"} : expected' = [expected EXCEPT ![t] = e]
  /\ UNCHANGED <<run, cell, rollup, newest, local, head>>

\* The branch moves: forwards, or with a forced push to any commit, also back.
Push ==
  /\ head' \in Commits \ {head}
  /\ moved' = moved \cup {k \in Keys : run[k].lifecycle \in {"queued", "running"}}
  /\ UNCHANGED <<run, cell, expected, rollup, newest, local>>

-----------------------------------------------------------------------------
(* The CLI executes on the spot: a run of its own, or the jobs of a matrix    *)
(* run one after the other, each of them a cell only when its turn comes.     *)

RunLocal(s) ==
  /\ run[s].lifecycle = "absent"
  /\ run' = [run EXCEPT ![s] = Executed(NewRow(NoPrint, FALSE))]
  /\ \E d \in Expectable \cup {"none"} : expected' = Stamped({JobOf[s]}, d)
  /\ UNCHANGED <<cell, rollup, newest, local, head>>

StartLocal(m, J) ==
  /\ "local matrix" \in Uses /\ Fresh(m) /\ J # {}
  /\ local' = [local EXCEPT ![m] = [up |-> TRUE, todo |-> J]]
  /\ UNCHANGED <<run, cell, expected, rollup, newest, head>>

Executing(m) == \E j \in Jobs : run[<<m, j>>].lifecycle = "running"

\* The CLI does not resolve refs.  A miss is running when the cell is committed.
NextLocal(m, j) ==
  /\ local[m].up /\ ~Executing(m) /\ j \in local[m].todo
  /\ \E cached \in BOOLEAN, source \in Sources({Literal}) :
       EnqueueJobs(m, {j}, cached, source, TRUE)
  /\ local' = [local EXCEPT ![m].todo = @ \ {j}]
  /\ UNCHANGED <<newest, head>>

FinishLocal(k, c) ==
  /\ run[k].lifecycle = "running" /\ ~run[k].owned
  /\ k \notin Singles => local[k[1]].up
  /\ Finish(k, c)

\* The process is interrupted or killed.
KillLocal(m) ==
  /\ local[m].up
  /\ local' = [local EXCEPT ![m].up = FALSE]
  /\ UNCHANGED <<run, cell, expected, rollup, newest, head>>

-----------------------------------------------------------------------------
MatrixStep(m) ==
  \/ \E J \in SUBSET Jobs : SubmitMatrix(m, J) \/ StartLocal(m, J)
  \/ \E j \in Jobs : NextLocal(m, j)
  \/ CancelMatrix(m) \/ KillLocal(m)

RunStep(k) ==
  \/ Claim(k) \/ CancelRun(k)
  \/ \E c \in Outcomes : Report(k, c) \/ FinishLocal(k, c)

\* What opp_ci does, and those who use it; the branch is moved by others.
BookStep ==
  \/ \E m \in Matrices : MatrixStep(m)
  \/ \E k \in Keys : RunStep(k)
  \/ \E K \in SUBSET Keys : Reclaim(K) \/ Expire(K)
  \/ \E s \in Singles : SubmitSingle(s) \/ RunLocal(s)
  \/ \E t \in Tests : SetExpectation(t)

Next == Push \/ (BookStep /\ UNCHANGED moved)

Spec == Init /\ [][Next]_vars

-----------------------------------------------------------------------------
(* Safety. *)

\* The stored counters, summary and verdict of every matrix run are those of its
\* cells and their runs, whoever changed them last and whichever other matrix
\* run's execution they rest on; completed_at lags behind only after a cancel.
RollupIsCurrent ==
  \A m \in Matrices :
    LET now == Tally(run, cell, m)
    IN  /\ [rollup[m] EXCEPT !.completed = now.completed] = now
        /\ rollup[m].completed => now.completed
        /\ now.completed /\ ~rollup[m].completed =>
             \E j \in CellsOf(cell, m) : run[cell[<<m, j>>].run].lifecycle = "cancelled"

\* A verdict is there exactly when its run has an outcome, and every run that
\* ended with one has its own verdict, standalone or not: retired, reclaimed and
\* expired runs and cache hits are graded like any other, and exactly once.
GradedExactlyWhenEnded ==
  \A k \in Keys :
    /\ cell[k].verdict \in Verdicts =>
         run[cell[k].run].lifecycle \in {"finished", "timed_out"}
    /\ run[k].lifecycle \in {"finished", "timed_out"} => cell[k].verdict \in Verdicts
    /\ cell[k].verdict = "pending" =>
         cell[k].run = k /\ run[k].lifecycle \in {"queued", "running", "cancelled"}

\* A verdict says what comparing the outcome that the run has with the
\* expectation that the verdict pins says.
VerdictsAreTrue ==
  \A k \in Keys :
    cell[k].verdict \in Verdicts =>
      cell[k].verdict = Graded(run[cell[k].run].result, cell[k].expected)

\* A recorded verdict is frozen: later reports, re-grades of the test, cache hits
\* on the same run and cancels leave the row as it is.
VerdictsAreFrozen ==
  [][\A k \in Keys : cell[k].verdict \in Verdicts => cell'[k] = cell[k]]_vars

\* What a cache hit attributes to the new matrix run is a finished run of the same
\* job, and it was built from the commit in its fingerprint: always if the run
\* named the commit, and if it named the branch, unless the branch moved, in
\* whatever direction, while the run was waiting or running.  A ref that could not
\* be resolved says nothing of a commit.
HitsAreOfTheirCommit ==
  [][\A k \in Keys :
       cell'[k].hit /\ ~cell[k].hit =>
         LET row == run[cell'[k].run]
         IN  /\ row.lifecycle = "finished" /\ row.print[1] = JobAt(k)
             /\ row.pinned \/ cell'[k].run \notin moved =>
                  row.built = row.print[2] \/ row.print[2] = Literal]_vars

-----------------------------------------------------------------------------
(* Matrix runs live as MatrixLife promises. *)

Answer(m, j) ==
  LET c == cell[<<m, j>>]
  IN  IF c.verdict = "absent" THEN "none"
      ELSE IF c.verdict = "pending" /\ run[c.run].lifecycle = "cancelled" THEN "withdrawn"
      ELSE c.verdict

Life == INSTANCE MatrixLife WITH
          answer <- [m \in Matrices |-> [j \in Jobs |-> Answer(m, j)]],
          verdict <- [m \in Matrices |-> rollup[m].verdict],
          completed <- [m \in Matrices |-> rollup[m].completed]

\* Of matrix runs that the coordinator executes: cells are fixed at submission,
\* answered once, and verdict and completion are at all times what they say.
MatrixRunsAsPromised == Life!MatrixSafety

\* Dispatch shows that a run which is queued ends (EveryRunEnds).  Nothing is
\* assumed of users, of the CLI, or of the reaper.
RunsEnd ==
  \A k \in Keys :
    /\ WF_vars(Claim(k) /\ UNCHANGED moved)
    /\ WF_vars(/\ run[k].lifecycle = "running" /\ \E c \in Outcomes : Report(k, c)
               /\ UNCHANGED moved)

FairSpec == Spec /\ RunsEnd

\* Every matrix run that is submitted to the coordinator completes, whatever is
\* reclaimed, retired or cancelled as a whole on the way.
EveryMatrixRunCompletes == Life!EveryMatrixRunCompletes

-----------------------------------------------------------------------------
(* What the documentation says and the code does not do. *)

\* completed_at is set when every cell has reached finished, cancelled or
\* timed_out (doc/data_model.md).
CompletedWhenDone ==
  \A m \in Matrices : rollup[m].completed = Tally(run, cell, m).completed

\* fingerprint.py: what a cache hit attributes to the new matrix run was built from
\* the code the matrix run was submitted for, the commit "git_ref" resolved to;
\* for a literal ref, where the branch is now.
HitsBuiltTheSame ==
  [][\A k \in Keys :
       cell'[k].hit /\ ~cell[k].hit =>
         LET row == run[cell'[k].run]
         IN  row.built = IF row.print[2] = Literal THEN head ELSE row.print[2]]_vars
=============================================================================

-------------------------- MODULE Executor_proofs --------------------------
(***************************************************************************)
(* Proofs about a host.  For every job, however its commands end: a result  *)
(* is what its stages say, and nothing is left behind in silence.  What makes*)
(* it inductive: before anything went wrong every stage recorded passed, and*)
(* the stage that makes a pass is recorded or still to come.                *)
(*                                                                          *)
(* For any number of processes and pushes: a round of the runner image that *)
(* no other process disturbs leaves the image current.  What is carried from*)
(* phase to phase is that the base a process built, the one it read the id  *)
(* of and the one it installs in are the same while it is not in `raced`.   *)
(***************************************************************************)
EXTENDS Executor, RunnerImages, TLAPS

Statuses == {"running", "passed", "failed", "skipped"}

\* The stage that makes a pass of a job.
Goal(job) == IF job.kind = "build" THEN "project.build" ELSE "test.run"

AllPassed(t)  == \A i \in DOMAIN t : t[i].status = "passed"
AllSkipped(t) == \A i \in DOMAIN t : t[i].status = "skipped"
HasFailed(t)  == \E i \in DOMAIN t : t[i].status = "failed"
HasPassed(t, stage) == \E i \in DOMAIN t : t[i] = [stage |-> stage, status |-> "passed"]
NoneFailed(t) ==
  \A i \in DOMAIN t : t[i].stage # "cleanup" => t[i].status \in {"passed", "skipped"}

\* Nothing ran after a stage that did not pass; or nothing but the cleanup.
Stopped(t) ==
  \A i, j \in DOMAIN t : i < j /\ t[i].status \in {"failed", "running"} => t[j].status = "skipped"
StoppedButCleanup(t) ==
  \A i, j \in DOMAIN t : i < j /\ t[i].status \in {"failed", "running"} /\ t[j].status \in Ran
                            => t[j].stage = "cleanup"

Listed(stage, stages) == \E i \in DOMAIN stages : stages[i] = stage

-----------------------------------------------------------------------------
(* The recorder. *)

LEMMA SkippedFacts ==
  ASSUME NEW stages \in Seq(Stages)
  PROVE  Skipped(stages) \in Seq(StageRows) /\ AllSkipped(Skipped(stages))
<1>1. DOMAIN stages = 1..Len(stages) /\ Len(stages) \in Nat /\ \A i \in DOMAIN stages : stages[i] \in Stages
  OBVIOUS
<1>2. Skipped(stages) \in [1..Len(stages) -> StageRows]
  BY <1>1 DEF Skipped, StageRows, Statuses
<1>3. \A n \in Nat : \A f \in [1..n -> StageRows] : f \in Seq(StageRows)
  OBVIOUS
<1>4. Skipped(stages) \in Seq(StageRows)
  BY <1>1, <1>2, <1>3
<1>5. AllSkipped(Skipped(stages))
  BY DEF Skipped, AllSkipped
<1> QED BY <1>4, <1>5

LEMMA NothingSkipped ==
  /\ <<>> \in Seq(StageRows) /\ AllSkipped(<<>>)
  /\ \A t \in Seq(StageRows) : t \o <<>> = t
  BY DEF AllSkipped

\* The rows of a tree that a stage was recorded in, with the stages that it skipped.
LEMMA Rows ==
  ASSUME NEW t \in Seq(StageRows), NEW row \in StageRows, NEW rest \in Seq(StageRows),
         NEW u, u = Append(t, row) \o rest
  PROVE  /\ u \in Seq(StageRows) /\ Len(u) = Len(t) + 1 + Len(rest)
         /\ DOMAIN u = 1..Len(u) /\ DOMAIN t = 1..Len(t)
         /\ \A i \in DOMAIN t : i \in DOMAIN u /\ u[i] = t[i]
         /\ Len(t) + 1 \in DOMAIN u /\ u[Len(t) + 1] = row
         /\ \A i \in DOMAIN u : \/ i \in DOMAIN t
                                \/ i = Len(t) + 1
                                \/ /\ i > Len(t) + 1 /\ i - (Len(t) + 1) \in DOMAIN rest
                                   /\ u[i] = rest[i - (Len(t) + 1)]
<1> DEFINE a == Append(t, row)
<1>1. /\ a \in Seq(StageRows) /\ Len(a) = Len(t) + 1 /\ a[Len(t) + 1] = row
      /\ \A i \in 1..Len(t) : a[i] = t[i]
  OBVIOUS
<1>2. /\ u \in Seq(StageRows) /\ Len(u) = Len(a) + Len(rest)
      /\ \A i \in 1..Len(u) : u[i] = IF i <= Len(a) THEN a[i] ELSE rest[i - Len(a)]
  <2> HIDE DEF a
  <2> USE u = a \o rest DEF a
  <2> QED BY <1>1
<1>3. Len(t) \in Nat /\ Len(rest) \in Nat /\ DOMAIN t = 1..Len(t) /\ DOMAIN rest = 1..Len(rest)
      /\ DOMAIN u = 1..Len(u)
  BY <1>2
<1> HIDE DEF a
<1> QED BY <1>1, <1>2, <1>3

TreeWith(t, s, st, rest) == Append(t, [stage |-> s, status |-> st]) \o rest

\* What a tree u is that was t, all passed, before a stage s with status st and the
\* stages it skipped were recorded.
Follows(u, t, s, st, rest) ==
  /\ u \in Seq(StageRows) /\ Stopped(u)
  /\ st = "failed" => HasFailed(u)
  /\ st = "passed" => NoneFailed(u) /\ HasPassed(u, s)
  /\ st = "passed" /\ rest = <<>> => AllPassed(u)
  /\ \A x : HasPassed(t, x) => HasPassed(u, x)

\* A stage that is recorded in a tree of stages that passed.
LEMMA StageEnds ==
  ASSUME NEW t \in Seq(StageRows), AllPassed(t), NEW s \in Stages, NEW st \in Statuses,
         NEW rest \in Seq(StageRows), AllSkipped(rest)
  PROVE  Follows(TreeWith(t, s, st, rest), t, s, st, rest)
<1> SUFFICES ASSUME NEW u, u = Append(t, [stage |-> s, status |-> st]) \o rest
             PROVE  Follows(u, t, s, st, rest)
  BY DEF TreeWith
<1> DEFINE row == [stage |-> s, status |-> st]
<1>1. row \in StageRows /\ row.status = st /\ row.stage = s
  BY DEF StageRows, Statuses
<1>2. /\ u \in Seq(StageRows)
      /\ DOMAIN u = 1..Len(u) /\ DOMAIN t = 1..Len(t) /\ Len(u) \in Nat /\ Len(t) \in Nat
      /\ \A i \in DOMAIN t : i \in DOMAIN u /\ u[i] = t[i]
      /\ Len(t) + 1 \in DOMAIN u /\ u[Len(t) + 1] = row
      /\ \A i \in DOMAIN u : \/ i \in DOMAIN t
                             \/ i = Len(t) + 1
                             \/ /\ i > Len(t) + 1 /\ i - (Len(t) + 1) \in DOMAIN rest
                                /\ u[i] = rest[i - (Len(t) + 1)]
  BY <1>1, Rows
<1> HIDE DEF row
<1>3. /\ \A i \in DOMAIN u : i < Len(t) + 1 => u[i].status = "passed"
      /\ \A i \in DOMAIN u : i > Len(t) + 1 => u[i].status = "skipped"
  BY <1>2 DEF AllPassed, AllSkipped
<1>4. Stopped(u)
  BY <1>2, <1>3 DEF Stopped
<1>5. st = "failed" => HasFailed(u)
  BY <1>1, <1>2 DEF HasFailed
<1>6. ASSUME st = "passed"
      PROVE  NoneFailed(u) /\ HasPassed(u, s)
  <2>1. HasPassed(u, s)
    BY <1>2, <1>6 DEF HasPassed, row
  <2>2. NoneFailed(u)
    BY <1>1, <1>2, <1>3, <1>6 DEF NoneFailed
  <2> QED BY <2>1, <2>2
<1>7. st = "passed" /\ rest = <<>> => AllPassed(u)
  BY <1>1, <1>2, <1>3 DEF AllPassed
<1>8. \A x : HasPassed(t, x) => HasPassed(u, x)
  BY <1>2 DEF HasPassed
<1> QED BY <1>2, <1>4, <1>5, <1>6, <1>7, <1>8 DEF Follows

WithCleanup(t, st) == Append(t, [stage |-> "cleanup", status |-> st])

CleanupFollows(u, t, st) ==
  /\ u \in Seq(StageRows) /\ StoppedButCleanup(u)
  /\ u[Len(u)] = [stage |-> "cleanup", status |-> st]
  /\ HasFailed(t) => HasFailed(u)
  /\ AllPassed(t) => NoneFailed(u)
  /\ \A x : HasPassed(t, x) => HasPassed(u, x)

\* The cleanup, whatever becomes of it.
LEMMA CleanupEnds ==
  ASSUME NEW t \in Seq(StageRows), Stopped(t), NEW st \in Statuses
  PROVE  CleanupFollows(WithCleanup(t, st), t, st)
<1> SUFFICES ASSUME NEW u, u = Append(t, [stage |-> "cleanup", status |-> st])
             PROVE  CleanupFollows(u, t, st)
  BY DEF WithCleanup
<1> DEFINE row == [stage |-> "cleanup", status |-> st]
<1>1. row \in StageRows /\ row.status = st /\ row.stage = "cleanup"
  <2>1. "cleanup" \in Stages
    BY DEF Stages
  <2>2. row \in StageRows
    BY <2>1 DEF StageRows, Statuses
  <2>3. row.status = st /\ row.stage = "cleanup"
    OBVIOUS
  <2> QED BY <2>2, <2>3
<1> HIDE DEF row
<1>2. /\ u \in Seq(StageRows) /\ Len(u) = Len(t) + 1 /\ Len(t) \in Nat
      /\ DOMAIN u = 1..Len(u) /\ DOMAIN t = 1..Len(t)
      /\ \A i \in DOMAIN t : i \in DOMAIN u /\ u[i] = t[i]
      /\ u[Len(t) + 1] = row
  <2> USE u = Append(t, row) DEF row
  <2> HIDE DEF row
  <2> QED BY <1>1
<1>3. StoppedButCleanup(u)
  BY <1>1, <1>2 DEF Stopped, StoppedButCleanup, Ran
<1>4. HasFailed(t) => HasFailed(u)
  BY <1>2 DEF HasFailed
<1>5. AllPassed(t) => NoneFailed(u)
  BY <1>1, <1>2 DEF AllPassed, NoneFailed
<1>6. \A x : HasPassed(t, x) => HasPassed(u, x)
  BY <1>2 DEF HasPassed
<1> QED BY <1>2, <1>3, <1>4, <1>5, <1>6 DEF row, CleanupFollows

-----------------------------------------------------------------------------
(* The invariant. *)

\* Where a job is before anything of it has gone wrong.
Before == {"received", "run", "stages", "checkout", "plan", "up", "bootstrap", "exec"}

\* What a result that is reported, or kept for the cleanup, says of the stages.
Says(code, t, goal) ==
  /\ code = "PASS" => NoneFailed(t) /\ HasPassed(t, goal)
  /\ code = "FAIL" => HasFailed(t)

\* The stage that makes a pass is done or still to come.
GoalAhead(t, stages, goal) ==
  stages # <<>> /\ (HasPassed(t, goal) \/ Listed(goal, stages))

CleanupPending ==
  /\ Stopped(tree) /\ verdict \in Codes
  /\ verdict = "PASS" => AllPassed(tree) /\ HasPassed(tree, Goal(task))
  /\ verdict = "FAIL" => HasFailed(tree)

HeldInPlace ==
  /\ "lock" \in held => at = "stages"
  /\ "resultdir" \in held => at \in {"up", "bootstrap", "exec", "cleanup", "exited"}
  /\ "container" \in held => at \in {"bootstrap", "exec", "cleanup", "done", "exited"}

CleanupTold ==
  at = "done" /\ "container" \in held =>
    tree[Len(tree)].stage = "cleanup" /\ tree[Len(tree)].status # "passed"

ExecInv ==
  /\ ExecTypeOK
  /\ at # "done" => reported = "none"
  /\ at \in Before => AllPassed(tree) /\ verdict = "none"
  /\ at \in {"stages", "up", "bootstrap", "exec"} => GoalAhead(tree, todo, Goal(task))
  /\ at = "cleanup" => CleanupPending
  /\ HeldInPlace /\ CleanupTold
  /\ StoppedButCleanup(tree) /\ Says(reported, tree, Goal(task))

LEMMA StoppedIsStopped ==
  \A t : Stopped(t) => StoppedButCleanup(t)
  BY DEF Stopped, StoppedButCleanup, Ran

LEMMA NoRows == AllPassed(<<>>) /\ StoppedButCleanup(<<>>) /\ <<>> \in Seq(StageRows) /\ <<>> \in Seq(Stages)
  BY DEF AllPassed, StoppedButCleanup

LEMMA ExecInitInv == ExecInit => ExecInv
<1> SUFFICES ASSUME ExecInit PROVE ExecInv
  OBVIOUS
<1>1. /\ task \in ExecJobs /\ at = "received" /\ todo = <<>> /\ tree = <<>> /\ held = {}
      /\ verdict = "none" /\ reported = "none"
  BY DEF ExecInit
<1>2. ExecTypeOK
  BY <1>1, NoRows DEF ExecTypeOK, Places
<1> QED BY <1>1, <1>2, NoRows DEF ExecInv, HeldInPlace, CleanupTold, Says

\* A job starts, after another or after a restart.
LEMMA FreshInv ==
  ASSUME task' \in ExecJobs, at' = "received", todo' = <<>>, tree' = <<>>, held' = {},
         verdict' = "none", reported' = "none"
  PROVE  ExecInv'
<1>1. ExecTypeOK'
  BY NoRows DEF ExecTypeOK, Places
<1> QED BY <1>1, NoRows DEF ExecInv, HeldInPlace, CleanupTold, Says

\* A stage that the recorder is told of, on the way: what is true of the new tree.
LEMMA RecordedStage ==
  ASSUME ExecInv, at \in Before, NEW s \in Stages, NEW st \in Statuses,
         NEW rest \in Seq(StageRows), AllSkipped(rest),
         tree' = Recorded(s, st) \o rest
  PROVE  Follows(tree', tree, s, st, rest) /\ StoppedButCleanup(tree')
<1>1. tree \in Seq(StageRows) /\ AllPassed(tree)
  BY DEF ExecInv, ExecTypeOK
<1>2. tree' = TreeWith(tree, s, st, rest)
  BY DEF Recorded, TreeWith
<1>3. Follows(TreeWith(tree, s, st, rest), tree, s, st, rest)
  BY <1>1, StageEnds
<1>4. Follows(tree', tree, s, st, rest)
  BY <1>2, <1>3
<1> QED BY <1>4, StoppedIsStopped DEF Follows

LEMMA RecordedAlone ==
  ASSUME ExecInv, at \in Before, NEW s \in Stages, NEW st \in Statuses,
         tree' = Recorded(s, st)
  PROVE  Follows(tree', tree, s, st, <<>>) /\ StoppedButCleanup(tree')
<1>1. Recorded(s, st) \in Seq(StageRows)
  BY DEF ExecInv, ExecTypeOK, Recorded, StageRows, Statuses
<1>2. tree' = Recorded(s, st) \o <<>>
  BY <1>1, NothingSkipped
<1> QED BY <1>2, NothingSkipped, RecordedStage

\* A result that is reported where the job holds no container.
LEMMA ReportInv ==
  ASSUME ExecInv, NEW code \in Codes, Report(code), task' = task,
         todo' \in Seq(Stages), tree' \in Seq(StageRows), StoppedButCleanup(tree'),
         Says(code, tree', Goal(task)),
         held' \subseteq Resources, held' \cap {"lock", "resultdir", "container"} = {}
  PROVE  ExecInv'
<1>1. at' = "done" /\ reported' = code /\ verdict' = code
  BY DEF Report
<1>2. ExecTypeOK'
  BY <1>1 DEF ExecInv, ExecTypeOK, Places
<1>3. HeldInPlace' /\ CleanupTold'
  BY DEF HeldInPlace, CleanupTold
<1>4. at' \notin Before \cup {"cleanup"}
  BY <1>1 DEF Before
<1>5. StoppedButCleanup(tree') /\ Says(reported', tree', Goal(task'))
  BY <1>1
<1> QED BY <1>1, <1>2, <1>3, <1>4, <1>5 DEF ExecInv, Before

\* The next place of a job of which nothing has gone wrong.
LEMMA AheadInv ==
  ASSUME ExecInv, at \in Before, at' \in Before, UNCHANGED <<task, verdict, reported>>,
         todo' \in Seq(Stages), tree' \in Seq(StageRows), AllPassed(tree'),
         at' \in {"stages", "up", "bootstrap", "exec"} => GoalAhead(tree', todo', Goal(task)),
         held' \subseteq Resources, HeldInPlace'
  PROVE  ExecInv'
<1>1. reported = "none" /\ verdict = "none"
  BY DEF ExecInv, Before
<1>2. ExecTypeOK'
  BY DEF ExecInv, ExecTypeOK, Places, Before
<1>3. StoppedButCleanup(tree')
  BY DEF AllPassed, StoppedButCleanup
<1> QED BY <1>1, <1>2, <1>3 DEF ExecInv, Before, CleanupTold, Says

\* An exception leaves the main loop, or the process is killed.
LEMMA ExitInv ==
  ASSUME ExecInv, at # "done", at' = "exited", UNCHANGED <<task, verdict, reported>>,
         todo' \in Seq(Stages), tree' \in Seq(StageRows), StoppedButCleanup(tree'),
         held' = held \ {"lock"}
  PROVE  ExecInv'
<1>1. reported = "none"
  BY DEF ExecInv
<1>2. ExecTypeOK'
  BY DEF ExecInv, ExecTypeOK, Places
<1> QED BY <1>1, <1>2 DEF ExecInv, Before, CleanupTold, HeldInPlace, Says

LEMMA NothingHeldYet ==
  ASSUME ExecInv, at \in {"received", "run", "checkout", "plan"}
  PROVE  held \cap {"lock", "resultdir", "container"} = {} /\ at \in Before
  BY DEF ExecInv, HeldInPlace, Before

LEMMA OutcomeFacts ==
  \A result \in Outcomes :
    /\ result \in {"ok", "nonzero", "raises"} /\ StatusOf(result) \in Statuses
    /\ StatusOf(result) = "passed" <=> result = "ok"
    /\ StatusOf(result) = "failed" <=> result = "nonzero"
    /\ StatusOf(result) = "running" <=> result = "raises"
  BY DEF Outcomes, StatusOf, Statuses

LEMMA InstallInv ==
  ASSUME ExecInv, NEW result \in Outcomes, Install(result)
  PROVE  ExecInv'
<1>1. at = "received" /\ UNCHANGED <<task, todo, held>>
  BY DEF Install
<1>2. /\ held \cap {"lock", "resultdir", "container"} = {} /\ at \in Before
      /\ held \subseteq Resources /\ todo \in Seq(Stages) /\ tree \in Seq(StageRows)
      /\ AllPassed(tree)
  BY <1>1, NothingHeldYet DEF ExecInv, ExecTypeOK
<1>3. HeldInPlace'
  BY <1>1, <1>2 DEF HeldInPlace
<1>4. CASE task.isolation = "podman"
  <2>1. at' = "run" /\ UNCHANGED <<tree, verdict, reported>>
    BY <1>4 DEF Install
  <2> QED BY <1>1, <1>2, <1>3, <2>1, AheadInv DEF Before
<1>5. CASE task.isolation # "podman"
  <2>1. tree' = Recorded("deps.install", StatusOf(result))
    BY <1>5 DEF Install
  <2>2. "deps.install" \in Stages
    BY DEF Stages
  <2>3. Follows(tree', tree, "deps.install", StatusOf(result), <<>>) /\ StoppedButCleanup(tree')
    BY <1>2, <2>1, <2>2, OutcomeFacts, RecordedAlone
  <2>4. tree' \in Seq(StageRows)
    BY <2>3 DEF Follows
  <2>5. CASE result = "ok"
    <3>1. at' = "run" /\ UNCHANGED <<verdict, reported>>
      BY <1>5, <2>5 DEF Install
    <3>2. AllPassed(tree')
      BY <2>3, <2>5, OutcomeFacts DEF Follows
    <3> QED BY <1>1, <1>2, <1>3, <2>4, <3>1, <3>2, AheadInv DEF Before
  <2>6. CASE result = "nonzero"
    <3>1. Report("ERROR")
      BY <1>5, <2>6 DEF Install
    <3> QED BY <1>1, <1>2, <2>3, <2>4, <3>1, ReportInv DEF Codes, Says
  <2>7. CASE result = "raises"
    <3>1. at' = "exited" /\ UNCHANGED <<verdict, reported>>
      BY <1>5, <2>7 DEF Install
    <3> QED BY <1>1, <1>2, <2>3, <2>4, <3>1, ExitInv
  <2> QED BY <2>5, <2>6, <2>7, OutcomeFacts
<1> QED BY <1>4, <1>5

\* A job that is refused where it holds nothing.
LEMMA RefuseInv ==
  ASSUME ExecInv, at \in {"received", "run", "checkout", "plan"}, Refuse("ERROR")
  PROVE  ExecInv'
<1>1. Report("ERROR") /\ UNCHANGED <<task, todo, tree, held>>
  BY DEF Refuse
<1>2. /\ todo \in Seq(Stages) /\ tree \in Seq(StageRows) /\ held \subseteq Resources
      /\ StoppedButCleanup(tree) /\ Says("ERROR", tree, Goal(task))
  BY DEF ExecInv, ExecTypeOK, Says
<1> QED BY <1>1, <1>2, NothingHeldYet, ReportInv DEF Codes

-----------------------------------------------------------------------------
(* The stages of a job. *)

LEMMA ListedIn ==
  ASSUME NEW a \in Seq(Stages), NEW b \in Seq(Stages)
  PROVE  /\ a \o b \in Seq(Stages)
         /\ \A x : Listed(x, a) \/ Listed(x, b) => Listed(x, a \o b)
         /\ a \o b = <<>> => a = <<>> /\ b = <<>>
<1>1. /\ a \o b \in Seq(Stages) /\ Len(a \o b) = Len(a) + Len(b)
      /\ Len(a) \in Nat /\ Len(b) \in Nat /\ DOMAIN a = 1..Len(a) /\ DOMAIN b = 1..Len(b)
      /\ DOMAIN (a \o b) = 1..Len(a \o b)
      /\ \A i \in 1..Len(a \o b) : (a \o b)[i] = IF i <= Len(a) THEN a[i] ELSE b[i - Len(a)]
  OBVIOUS
<1>2. ASSUME NEW x, Listed(x, a)
      PROVE  Listed(x, a \o b)
  BY <1>1, <1>2 DEF Listed
<1>3. ASSUME NEW x, Listed(x, b)
      PROVE  Listed(x, a \o b)
  <2>1. PICK i \in 1..Len(b) : b[i] = x
    BY <1>1, <1>3 DEF Listed
  <2>2. i + Len(a) \in 1..Len(a \o b) /\ ~(i + Len(a) <= Len(a)) /\ (i + Len(a)) - Len(a) = i
    BY <1>1, <2>1
  <2>3. (a \o b)[i + Len(a)] = x
    BY <1>1, <2>1, <2>2
  <2> QED BY <1>1, <2>2, <2>3 DEF Listed
<1>4. a \o b = <<>> => a = <<>> /\ b = <<>>
  BY <1>1
<1> QED BY <1>1, <1>2, <1>3, <1>4

LEMMA SomeStages ==
  /\ <<"checkout">> \in Seq(Stages) /\ <<"deps.install">> \in Seq(Stages)
  /\ <<"project.build">> \in Seq(Stages) /\ <<"test.run">> \in Seq(Stages)
  /\ <<"project.build", "test.run">> \in Seq(Stages) /\ <<>> \in Seq(Stages)
  /\ Listed("project.build", <<"project.build">>) /\ Listed("test.run", <<"test.run">>)
  /\ Listed("project.build", <<"project.build", "test.run">>)
  /\ Listed("test.run", <<"project.build", "test.run">>)
  /\ <<"project.build">> # <<>> /\ <<"project.build", "test.run">> # <<>>
  BY DEF Stages, Listed

LEMMA HostStagesAhead ==
  HostStages \in Seq(Stages) /\ \A t : GoalAhead(t, HostStages, Goal(task))
<1>1. BaselineStage \in Seq(Stages)
  BY SomeStages DEF BaselineStage
<1> DEFINE rest == <<"project.build", "test.run">>
<1>2. rest \in Seq(Stages) /\ rest # <<>> /\ Listed(Goal(task), rest)
  BY SomeStages DEF Goal
<1>3. HostStages = BaselineStage \o rest
  BY DEF HostStages
<1> HIDE DEF rest
<1>4. HostStages \in Seq(Stages) /\ HostStages # <<>> /\ Listed(Goal(task), HostStages)
  BY <1>1, <1>2, <1>3, ListedIn
<1> QED BY <1>4 DEF GoalAhead

LEMMA ContainerStagesAhead ==
  ContainerStages \in Seq(Stages) /\ \A t : GoalAhead(t, ContainerStages, Goal(task))
<1> DEFINE a == IF task.toolchain = "nix" \/ task.source = "catalog" THEN <<"deps.install">> ELSE <<>>
           b == IF task.source = "catalog" THEN BaselineStage ELSE <<>>
           c == <<"project.build">>
           d == IF task.toolchain = "nix" \/ task.kind # "build" THEN <<"test.run">> ELSE <<>>
<1>1. a \in Seq(Stages) /\ b \in Seq(Stages) /\ c \in Seq(Stages) /\ d \in Seq(Stages)
  BY SomeStages DEF BaselineStage
<1>2. c # <<>> /\ Listed("project.build", c)
  BY SomeStages
<1>3. task.kind # "build" => Listed("test.run", d)
  BY SomeStages
<1>4. ContainerStages = ((a \o b) \o c) \o d
  BY DEF ContainerStages
<1> HIDE DEF a, b, c, d
<1>5. a \o b \in Seq(Stages)
  BY <1>1, ListedIn
<1>6. /\ (a \o b) \o c \in Seq(Stages) /\ (a \o b) \o c # <<>>
      /\ Listed("project.build", (a \o b) \o c)
  BY <1>1, <1>2, <1>5, ListedIn
<1>7. /\ ContainerStages \in Seq(Stages) /\ ContainerStages # <<>>
      /\ Listed("project.build", ContainerStages)
      /\ task.kind # "build" => Listed("test.run", ContainerStages)
  BY <1>1, <1>3, <1>4, <1>6, ListedIn
<1> QED BY <1>7 DEF GoalAhead, Goal

\* The next stage passed.
LEMMA NextStage ==
  ASSUME NEW t, NEW stages \in Seq(Stages), NEW goal, GoalAhead(t, stages, goal),
         NEW u, \A x : HasPassed(t, x) => HasPassed(u, x)
  PROVE  /\ Head(stages) \in Stages /\ Tail(stages) \in Seq(Stages)
         /\ Len(stages) \in Nat /\ Len(stages) >= 1
         /\ HasPassed(u, Head(stages)) =>
              /\ Len(stages) # 1 => GoalAhead(u, Tail(stages), goal)
              /\ Len(stages) = 1 => HasPassed(u, goal)
<1>1. stages # <<>>
  BY DEF GoalAhead
<1>2. /\ Head(stages) \in Stages /\ Tail(stages) \in Seq(Stages) /\ Len(stages) \in Nat
      /\ Len(stages) >= 1 /\ Len(Tail(stages)) = Len(stages) - 1 /\ Head(stages) = stages[1]
      /\ DOMAIN stages = 1..Len(stages) /\ DOMAIN Tail(stages) = 1..Len(Tail(stages))
      /\ \A i \in 1..Len(Tail(stages)) : Tail(stages)[i] = stages[i + 1]
  <2>1. Len(stages) \in Nat /\ Len(stages) >= 1 /\ DOMAIN stages = 1..Len(stages)
        /\ Head(stages) = stages[1] /\ stages[1] \in Stages
    BY <1>1
  <2>2. Tail(stages) \in Seq(Stages) /\ Len(Tail(stages)) = Len(stages) - 1
    BY <1>1
  <2>3. \A i \in 1..Len(Tail(stages)) : Tail(stages)[i] = stages[i + 1]
    BY <1>1, <2>2
  <2> QED BY <2>1, <2>2, <2>3
<1>3. ASSUME HasPassed(u, Head(stages))
      PROVE  HasPassed(u, goal) \/ Listed(goal, Tail(stages))
  <2>1. CASE HasPassed(t, goal)
    BY <2>1
  <2>2. CASE Listed(goal, stages)
    <3>1. PICK i \in 1..Len(stages) : stages[i] = goal
      BY <1>2, <2>2 DEF Listed
    <3>2. CASE i = 1
      BY <1>2, <1>3, <3>1, <3>2
    <3>3. CASE i # 1
      <4>1. i - 1 \in 1..Len(Tail(stages)) /\ (i - 1) + 1 = i
        BY <1>2, <3>1, <3>3
      <4>2. Tail(stages)[i - 1] = goal
        BY <1>2, <3>1, <4>1
      <4> QED BY <1>2, <4>1, <4>2 DEF Listed
    <3> QED BY <3>2, <3>3
  <2> QED BY <2>1, <2>2 DEF GoalAhead
<1>4. /\ Len(stages) = 1 => ~Listed(goal, Tail(stages))
      /\ Len(stages) # 1 => Tail(stages) # <<>>
  <2> DEFINE rest == Tail(stages)
  <2>1. Len(rest) = Len(stages) - 1 /\ DOMAIN rest = 1..Len(rest) /\ Len(stages) \in Nat
    BY <1>2
  <2> HIDE DEF rest
  <2>2. /\ Len(stages) = 1 => ~Listed(goal, rest)
        /\ Len(stages) # 1 => rest # <<>>
    BY <2>1 DEF Listed
  <2> QED BY <2>2 DEF rest
<1> QED BY <1>2, <1>3, <1>4 DEF GoalAhead

-----------------------------------------------------------------------------
(* The host path. *)

LEMMA StartOnHostInv ==
  ASSUME ExecInv, StartOnHost
  PROVE  ExecInv'
<1>1. at = "run"
  BY DEF StartOnHost
<1>2. CASE task.kind = "unknown"
  BY <1>1, <1>2, RefuseInv DEF StartOnHost
<1>3. CASE task.kind # "unknown"
  <2>1. /\ at' = "stages" /\ todo' = HostStages /\ held' = held \cup {"lock"}
        /\ UNCHANGED <<task, tree, verdict, reported>>
    BY <1>3 DEF StartOnHost
  <2>2. /\ tree \in Seq(StageRows) /\ AllPassed(tree) /\ held \subseteq Resources
        /\ held \cap {"lock", "resultdir", "container"} = {} /\ at \in Before
    BY <1>1, NothingHeldYet DEF ExecInv, ExecTypeOK
  <2>3. held' \subseteq Resources /\ HeldInPlace'
    BY <2>1, <2>2 DEF HeldInPlace, Resources
  <2>4. todo' \in Seq(Stages) /\ GoalAhead(tree', todo', Goal(task)) /\ at' \in Before
    BY <2>1, HostStagesAhead DEF Before
  <2>5. tree' \in Seq(StageRows) /\ AllPassed(tree') /\ UNCHANGED <<task, verdict, reported>>
    BY <2>1, <2>2
  <2> QED BY <2>2, <2>3, <2>4, <2>5, AheadInv
<1> QED BY <1>2, <1>3

LEMMA HostStageInv ==
  ASSUME ExecInv, NEW result \in Outcomes, HostStage(result)
  PROVE  ExecInv'
<1> DEFINE stage  == Head(todo)
           status == IF stage = "checkout" /\ result # "ok" THEN "failed" ELSE StatusOf(result)
           whole  == stage = "project.build" /\ result = "ok" /\ task.kind = "build"
           over   == result # "ok" \/ whole \/ Len(todo) = 1
           rest   == IF over /\ status # "running" THEN Skipped(Tail(todo)) ELSE <<>>
           code   == CASE result = "ok" -> "PASS"
                       [] result = "nonzero" /\ stage # "checkout" -> "FAIL"
                       [] OTHER -> "ERROR"
<1>1. /\ at = "stages" /\ task' = task
      /\ tree' = Recorded(stage, status) \o rest
      /\ todo' = IF over THEN <<>> ELSE Tail(todo)
      /\ over => held' = held \ {"lock"} /\ Report(code)
      /\ ~over => UNCHANGED <<at, held, verdict, reported>>
  BY DEF HostStage
<1>2. /\ at \in Before /\ todo \in Seq(Stages) /\ tree \in Seq(StageRows)
      /\ GoalAhead(tree, todo, Goal(task)) /\ held \subseteq Resources
      /\ "resultdir" \notin held /\ "container" \notin held
  BY <1>1 DEF ExecInv, ExecTypeOK, Before, HeldInPlace
<1>3. /\ stage \in Stages /\ Tail(todo) \in Seq(Stages) /\ Len(todo) \in Nat
  BY <1>2, NextStage
<1>4. status \in Statuses
  BY OutcomeFacts DEF Statuses
<1>5. rest \in Seq(StageRows) /\ AllSkipped(rest)
  BY <1>3, SkippedFacts, NothingSkipped
<1>6. Follows(tree', tree, stage, status, rest) /\ StoppedButCleanup(tree')
  <2> HIDE DEF stage, status, rest
  <2> QED BY <1>1, <1>2, <1>3, <1>4, <1>5, RecordedStage
<1>7. /\ tree' \in Seq(StageRows) /\ \A x : HasPassed(tree, x) => HasPassed(tree', x)
      /\ status = "failed" => HasFailed(tree')
      /\ status = "passed" => NoneFailed(tree') /\ HasPassed(tree', stage)
      /\ status = "passed" /\ rest = <<>> => AllPassed(tree')
  <2> HIDE DEF stage, status, rest
  <2> QED BY <1>6 DEF Follows
<1>8. HasPassed(tree', stage) =>
        /\ Len(todo) # 1 => GoalAhead(tree', Tail(todo), Goal(task))
        /\ Len(todo) = 1 => HasPassed(tree', Goal(task))
  BY <1>2, <1>7, NextStage
<1>9. CASE over
  <2>1. Says(code, tree', Goal(task)) /\ code \in Codes
    <3>1. CASE result = "ok"
      <4>1. status = "passed" /\ code = "PASS" /\ (whole \/ Len(todo) = 1)
        BY <1>9, <3>1, OutcomeFacts
      <4>2. whole => stage = Goal(task)
        BY DEF Goal
      <4>3. NoneFailed(tree') /\ HasPassed(tree', Goal(task))
        <5> HIDE DEF stage, status, rest, whole
        <5> QED BY <1>7, <1>8, <4>1, <4>2
      <4> QED BY <4>1, <4>3 DEF Says, Codes
    <3>2. CASE result # "ok" /\ result = "nonzero" /\ stage # "checkout"
      <4>1. status = "failed" /\ code = "FAIL"
        BY <3>2, OutcomeFacts
      <4> QED BY <1>7, <4>1 DEF Says, Codes
    <3>3. CASE result # "ok" /\ ~(result = "nonzero" /\ stage # "checkout")
      <4>1. code = "ERROR"
        BY <3>3
      <4> QED BY <4>1 DEF Says, Codes
    <3> QED BY <3>1, <3>2, <3>3
  <2>2. Report(code) /\ held' = held \ {"lock"} /\ todo' = <<>>
    BY <1>1, <1>9
  <2>3. /\ held' \subseteq Resources /\ held' \cap {"lock", "resultdir", "container"} = {}
        /\ todo' \in Seq(Stages)
    BY <1>2, <2>2, NoRows
  <2> HIDE DEF code
  <2> QED BY <1>1, <1>6, <1>7, <2>1, <2>2, <2>3, ReportInv
<1>10. CASE ~over
  <2>1. result = "ok" /\ status = "passed" /\ rest = <<>> /\ Len(todo) # 1
    BY <1>10, OutcomeFacts
  <2>2. /\ UNCHANGED <<at, held, verdict, reported, task>> /\ todo' = Tail(todo)
    BY <1>1, <1>10
  <2>3. AllPassed(tree') /\ GoalAhead(tree', todo', Goal(task))
    <3> HIDE DEF stage, status, rest
    <3> QED BY <1>7, <1>8, <2>1, <2>2
  <2>4. HeldInPlace' /\ held' \subseteq Resources
    BY <1>2, <2>2 DEF ExecInv, HeldInPlace
  <2>5. todo' \in Seq(Stages) /\ at' \in Before /\ UNCHANGED <<task, verdict, reported>>
    BY <1>2, <1>3, <2>2
  <2> QED BY <1>2, <1>7, <2>3, <2>4, <2>5, AheadInv
<1> QED BY <1>9, <1>10

-----------------------------------------------------------------------------
(* The container path. *)

LEMMA PrepareImageInv ==
  ASSUME ExecInv, NEW result \in Outcomes, PrepareImage(result)
  PROVE  ExecInv'
<1>1. at = "run"
  BY DEF PrepareImage
<1>2. CASE ~HasImageTag
  BY <1>1, <1>2, RefuseInv DEF PrepareImage
<1>3. CASE HasImageTag
  <2> DEFINE status == IF result = "ok" THEN "passed" ELSE "failed"
  <2>1. /\ tree' = Recorded("container.prepare", status) /\ UNCHANGED <<task, todo, held>>
        /\ result = "ok" => at' = "checkout" /\ UNCHANGED <<verdict, reported>>
        /\ result # "ok" => Report("ERROR")
    BY <1>3 DEF PrepareImage, EnsureImage
  <2>2. /\ held \cap {"lock", "resultdir", "container"} = {} /\ at \in Before
        /\ held \subseteq Resources /\ todo \in Seq(Stages)
    BY <1>1, NothingHeldYet DEF ExecInv, ExecTypeOK
  <2>3. "container.prepare" \in Stages /\ status \in Statuses
    BY DEF Stages, Statuses
  <2>4. Follows(tree', tree, "container.prepare", status, <<>>) /\ StoppedButCleanup(tree')
    BY <2>1, <2>2, <2>3, RecordedAlone
  <2>5. CASE result = "ok"
    <3>1. tree' \in Seq(StageRows) /\ AllPassed(tree')
      BY <2>4, <2>5 DEF Follows
    <3>2. HeldInPlace' /\ at' = "checkout"
      BY <2>1, <2>2, <2>5 DEF HeldInPlace
    <3> QED BY <2>1, <2>2, <2>5, <3>1, <3>2, AheadInv DEF Before
  <2>6. CASE result # "ok"
    <3>1. Report("ERROR") /\ Says("ERROR", tree', Goal(task)) /\ tree' \in Seq(StageRows)
      BY <2>1, <2>4, <2>6 DEF Says, Follows
    <3> QED BY <2>1, <2>2, <2>4, <3>1, ReportInv DEF Codes
  <2> QED BY <2>5, <2>6
<1> QED BY <1>2, <1>3

LEMMA CheckOutInv ==
  ASSUME ExecInv, NEW result \in Outcomes, CheckOut(result)
  PROVE  ExecInv'
<1> DEFINE status == IF result = "ok" THEN "passed" ELSE "failed"
<1>1. /\ at = "checkout" /\ UNCHANGED <<task, todo>>
      /\ tree' = IF task.source = "ref" THEN Recorded("checkout", status) ELSE tree
      /\ \/ /\ result = "ok" \/ task.source = "catalog"
            /\ at' = "plan" /\ held' = held \cup SourceOnHost /\ UNCHANGED <<verdict, reported>>
         \/ result # "ok" /\ Report("ERROR") /\ UNCHANGED held
  BY DEF CheckOut
<1>2. /\ held \cap {"lock", "resultdir", "container"} = {} /\ at \in Before
      /\ held \subseteq Resources /\ todo \in Seq(Stages) /\ tree \in Seq(StageRows)
      /\ AllPassed(tree) /\ StoppedButCleanup(tree)
  BY <1>1, NothingHeldYet DEF ExecInv, ExecTypeOK
<1>3. "checkout" \in Stages /\ status \in Statuses
  BY DEF Stages, Statuses
<1>4. /\ tree' \in Seq(StageRows) /\ StoppedButCleanup(tree')
      /\ result = "ok" \/ task.source = "catalog" => AllPassed(tree')
  <2>1. CASE task.source = "ref"
    <3>1. Follows(tree', tree, "checkout", status, <<>>) /\ StoppedButCleanup(tree')
      BY <1>1, <1>2, <1>3, <2>1, RecordedAlone
    <3>2. task.source # "catalog"
      BY <2>1
    <3> QED BY <3>1, <3>2 DEF Follows
  <2>2. CASE task.source # "ref"
    BY <1>1, <1>2, <2>2
  <2> QED BY <2>1, <2>2
<1>5. CASE /\ result = "ok" \/ task.source = "catalog"
           /\ at' = "plan" /\ held' = held \cup SourceOnHost /\ UNCHANGED <<verdict, reported>>
  <2>1. SourceOnHost \subseteq {"scratch", "worktree"}
    <3>1. task.source \in {"catalog", "file", "ref"}
      BY DEF ExecInv, ExecTypeOK, ExecJobs
    <3> QED BY <3>1 DEF SourceOnHost
  <2>2. held' \subseteq Resources /\ HeldInPlace'
    BY <1>2, <1>5, <2>1 DEF HeldInPlace, Resources
  <2> QED BY <1>1, <1>2, <1>4, <1>5, <2>2, AheadInv DEF Before
<1>6. CASE Report("ERROR") /\ UNCHANGED held
  <2>1. Says("ERROR", tree', Goal(task))
    BY DEF Says
  <2> QED BY <1>1, <1>2, <1>4, <1>6, <2>1, ReportInv DEF Codes
<1> QED BY <1>1, <1>5, <1>6

LEMMA PlanStagesInv ==
  ASSUME ExecInv, NEW result \in Outcomes, PlanStages(result)
  PROVE  ExecInv'
<1>1. at = "plan"
  BY DEF PlanStages
<1>2. /\ held \cap {"lock", "resultdir", "container"} = {} /\ at \in Before
      /\ held \subseteq Resources /\ todo \in Seq(Stages) /\ tree \in Seq(StageRows)
      /\ AllPassed(tree)
  BY <1>1, NothingHeldYet DEF ExecInv, ExecTypeOK
<1>3. CASE task.kind = "unknown"
  BY <1>1, <1>3, RefuseInv DEF PlanStages
<1> DEFINE onHost == task.baseline /\ task.source # "catalog"
<1>4. "checkout" \in Stages /\ "passed" \in Statuses /\ "failed" \in Statuses
  BY DEF Stages, Statuses
<1>5. CASE task.kind # "unknown" /\ onHost /\ result # "ok"
  <2>1. /\ tree' = Recorded("checkout", "failed") \o Skipped(ContainerStages)
        /\ Report("ERROR") /\ UNCHANGED <<task, todo, held>>
    BY <1>5 DEF PlanStages
  <2>2. Skipped(ContainerStages) \in Seq(StageRows) /\ AllSkipped(Skipped(ContainerStages))
    BY ContainerStagesAhead, SkippedFacts
  <2>3. Follows(tree', tree, "checkout", "failed", Skipped(ContainerStages))
        /\ StoppedButCleanup(tree')
    BY <1>2, <1>4, <2>1, <2>2, RecordedStage
  <2>4. tree' \in Seq(StageRows) /\ Says("ERROR", tree', Goal(task))
    BY <2>3 DEF Says, Follows
  <2> QED BY <1>2, <2>1, <2>3, <2>4, ReportInv DEF Codes
<1>6. CASE task.kind # "unknown" /\ ~(onHost /\ result # "ok")
  <2>1. /\ tree' = IF onHost THEN Recorded("checkout", "passed") ELSE tree
        /\ todo' = ContainerStages /\ held' = held \cup {"resultdir"} /\ at' = "up"
        /\ UNCHANGED <<task, verdict, reported>>
    BY <1>6 DEF PlanStages
  <2>2. tree' \in Seq(StageRows) /\ AllPassed(tree')
    <3>1. CASE onHost
      <4>1. Follows(tree', tree, "checkout", "passed", <<>>)
        BY <1>2, <1>4, <2>1, <3>1, RecordedAlone
      <4> QED BY <4>1 DEF Follows
    <3>2. CASE ~onHost
      BY <1>2, <2>1, <3>2
    <3> QED BY <3>1, <3>2
  <2>3. todo' \in Seq(Stages) /\ GoalAhead(tree', todo', Goal(task))
    BY <2>1, ContainerStagesAhead
  <2>4. held' \subseteq Resources /\ HeldInPlace'
    BY <1>2, <2>1 DEF HeldInPlace, Resources
  <2> QED BY <1>2, <2>1, <2>2, <2>3, <2>4, AheadInv DEF Before
<1> QED BY <1>3, <1>5, <1>6

\* The cleanup is what is left to do.
LEMMA CleanupInv ==
  ASSUME ExecInv, at \in Before, at' = "cleanup", UNCHANGED <<task, reported>>,
         todo' \in Seq(Stages), tree' \in Seq(StageRows), CleanupPending',
         held' \subseteq Resources, "lock" \notin held'
  PROVE  ExecInv'
<1>1. reported = "none"
  BY DEF ExecInv, Before
<1>2. ExecTypeOK'
  BY DEF ExecInv, ExecTypeOK, Places, CleanupPending
<1>3. StoppedButCleanup(tree')
  BY StoppedIsStopped DEF CleanupPending
<1>4. HeldInPlace' /\ CleanupTold'
  BY DEF HeldInPlace, CleanupTold
<1> QED BY <1>1, <1>2, <1>3, <1>4 DEF ExecInv, Before, Says

LEMMA StartContainerInv ==
  ASSUME ExecInv, NEW result \in Outcomes, StartContainer(result)
  PROVE  ExecInv'
<1>1. at = "up" /\ UNCHANGED <<task, todo, tree, reported>>
  BY DEF StartContainer
<1>2. /\ at \in Before /\ todo \in Seq(Stages) /\ tree \in Seq(StageRows) /\ AllPassed(tree)
      /\ GoalAhead(tree, todo, Goal(task)) /\ held \subseteq Resources /\ "lock" \notin held
  BY <1>1 DEF ExecInv, ExecTypeOK, Before, HeldInPlace
<1>3. CASE result = "ok"
  <2>1. held' = held \cup {"container"} /\ at' = "bootstrap" /\ UNCHANGED verdict
    BY <1>3 DEF StartContainer
  <2>2. held' \subseteq Resources /\ HeldInPlace'
    BY <1>2, <2>1 DEF HeldInPlace, Resources
  <2> QED BY <1>1, <1>2, <2>1, <2>2, AheadInv DEF Before
<1>4. CASE result # "ok"
  <2>1. held' \in {held, held \cup {"container"}} /\ at' = "cleanup" /\ verdict' = "ERROR"
    BY <1>4 DEF StartContainer
  <2>2. held' \subseteq Resources /\ "lock" \notin held'
    BY <1>2, <2>1 DEF Resources
  <2>3. CleanupPending'
    BY <1>1, <1>2, <2>1 DEF CleanupPending, AllPassed, Stopped, Codes
  <2> QED BY <1>1, <1>2, <2>1, <2>2, <2>3, CleanupInv
<1> QED BY <1>3, <1>4

LEMMA BootstrapInv ==
  ASSUME ExecInv, NEW result \in Outcomes, Bootstrap(result)
  PROVE  ExecInv'
<1> DEFINE rest == IF result = "nonzero" THEN Skipped(todo) ELSE <<>>
<1>1. /\ at = "bootstrap" /\ tree' = Recorded("runner.bootstrap", StatusOf(result)) \o rest
      /\ UNCHANGED <<task, todo, held, reported>>
      /\ result = "ok" => at' = "exec" /\ UNCHANGED verdict
      /\ result = "nonzero" => at' = "cleanup" /\ verdict' = "FAIL"
      /\ result = "raises" => at' = "cleanup" /\ verdict' = "ERROR"
  BY DEF Bootstrap
<1>2. /\ at \in Before /\ todo \in Seq(Stages) /\ tree \in Seq(StageRows)
      /\ GoalAhead(tree, todo, Goal(task)) /\ held \subseteq Resources /\ "lock" \notin held
  BY <1>1 DEF ExecInv, ExecTypeOK, Before, HeldInPlace
<1>3. rest \in Seq(StageRows) /\ AllSkipped(rest) /\ "runner.bootstrap" \in Stages
  BY <1>2, SkippedFacts, NothingSkipped DEF Stages
<1>4. Follows(tree', tree, "runner.bootstrap", StatusOf(result), rest)
  <2> HIDE DEF rest
  <2> QED BY <1>1, <1>2, <1>3, OutcomeFacts, RecordedStage
<1>5. CASE result = "ok"
  <2>1. rest = <<>> /\ StatusOf(result) = "passed"
    BY <1>5, OutcomeFacts
  <2>2. tree' \in Seq(StageRows) /\ AllPassed(tree') /\ GoalAhead(tree', todo, Goal(task))
    BY <1>2, <1>4, <2>1 DEF Follows, GoalAhead
  <2>3. HeldInPlace'
    BY <1>1, <1>5 DEF ExecInv, HeldInPlace
  <2> QED BY <1>1, <1>2, <1>5, <2>2, <2>3, AheadInv DEF Before
<1>6. CASE result # "ok"
  <2>1. StatusOf(result) = "failed" <=> result = "nonzero"
    BY OutcomeFacts
  <2>2. /\ at' = "cleanup" /\ verdict' \in {"FAIL", "ERROR"}
        /\ verdict' = "FAIL" => result = "nonzero"
    BY <1>1, <1>6, OutcomeFacts
  <2>3. tree' \in Seq(StageRows) /\ CleanupPending'
    BY <1>4, <2>1, <2>2 DEF Follows, CleanupPending, Codes
  <2> QED BY <1>1, <1>2, <2>2, <2>3, CleanupInv
<1> QED BY <1>5, <1>6

LEMMA ContainerStageInv ==
  ASSUME ExecInv, NEW result \in Outcomes, ContainerStage(result)
  PROVE  ExecInv'
<1> DEFINE stage == Head(todo)
           rest  == IF result = "nonzero" THEN Skipped(Tail(todo)) ELSE <<>>
           more  == result = "ok" /\ Len(todo) > 1
<1>1. /\ at = "exec" /\ tree' = Recorded(stage, StatusOf(result)) \o rest
      /\ todo' = IF result = "ok" THEN Tail(todo) ELSE <<>>
      /\ UNCHANGED <<task, held, reported>>
      /\ more => UNCHANGED <<at, verdict>>
      /\ ~more /\ result = "ok" => at' = "cleanup" /\ verdict' = "PASS"
      /\ result = "nonzero" => at' = "cleanup" /\ verdict' = "FAIL"
      /\ result = "raises" => at' = "cleanup" /\ verdict' = "ERROR"
  BY DEF ContainerStage
<1>2. /\ at \in Before /\ todo \in Seq(Stages) /\ tree \in Seq(StageRows)
      /\ GoalAhead(tree, todo, Goal(task)) /\ held \subseteq Resources /\ "lock" \notin held
  BY <1>1 DEF ExecInv, ExecTypeOK, Before, HeldInPlace
<1>3. /\ stage \in Stages /\ Tail(todo) \in Seq(Stages) /\ Len(todo) \in Nat /\ Len(todo) >= 1
  BY <1>2, NextStage
<1>4. rest \in Seq(StageRows) /\ AllSkipped(rest)
  BY <1>3, SkippedFacts, NothingSkipped
<1>5. Follows(tree', tree, stage, StatusOf(result), rest)
  <2> HIDE DEF stage, rest
  <2> QED BY <1>1, <1>2, <1>3, <1>4, OutcomeFacts, RecordedStage
<1>6. tree' \in Seq(StageRows) /\ \A x : HasPassed(tree, x) => HasPassed(tree', x)
  <2> HIDE DEF stage, rest
  <2> QED BY <1>5 DEF Follows
<1>7. HasPassed(tree', stage) =>
        /\ Len(todo) # 1 => GoalAhead(tree', Tail(todo), Goal(task))
        /\ Len(todo) = 1 => HasPassed(tree', Goal(task))
  BY <1>2, <1>6, NextStage
<1>8. CASE result = "ok"
  <2>1. rest = <<>> /\ StatusOf(result) = "passed"
    BY <1>8, OutcomeFacts
  <2>2. AllPassed(tree') /\ HasPassed(tree', stage) /\ Stopped(tree')
    <3> HIDE DEF stage, rest
    <3> QED BY <1>5, <2>1 DEF Follows
  <2>3. CASE more
    <3>1. GoalAhead(tree', todo', Goal(task)) /\ todo' \in Seq(Stages)
      BY <1>1, <1>3, <1>7, <1>8, <2>2, <2>3
    <3>2. HeldInPlace'
      BY <1>1, <2>3 DEF ExecInv, HeldInPlace
    <3>3. UNCHANGED <<at, task, verdict, reported, held>>
      BY <1>1, <2>3
    <3> QED BY <1>2, <1>6, <2>2, <3>1, <3>2, <3>3, AheadInv
  <2>4. CASE ~more
    <3>1. at' = "cleanup" /\ verdict' = "PASS" /\ todo' \in Seq(Stages)
      BY <1>1, <1>3, <1>8, <2>4
    <3>2. HasPassed(tree', Goal(task))
      BY <1>3, <1>7, <1>8, <2>2, <2>4
    <3>3. CleanupPending'
      BY <1>1, <2>2, <3>1, <3>2 DEF CleanupPending, Codes
    <3> QED BY <1>1, <1>2, <1>6, <3>1, <3>3, CleanupInv
  <2> QED BY <2>3, <2>4
<1>9. CASE result # "ok"
  <2>1. StatusOf(result) = "failed" <=> result = "nonzero"
    BY OutcomeFacts
  <2>2. /\ at' = "cleanup" /\ verdict' \in {"FAIL", "ERROR"} /\ todo' = <<>>
        /\ verdict' = "FAIL" => result = "nonzero"
    BY <1>1, <1>9, OutcomeFacts
  <2>3. CleanupPending'
    <3> HIDE DEF stage, rest
    <3> QED BY <1>5, <2>1, <2>2 DEF Follows, CleanupPending, Codes
  <2> QED BY <1>1, <1>2, <1>6, <2>2, <2>3, CleanupInv, NoRows
<1> QED BY <1>8, <1>9

LEMMA CleanUpInv ==
  ASSUME ExecInv, NEW result \in Outcomes, CleanUp(result)
  PROVE  ExecInv'
<1> DEFINE code == IF result = "raises" THEN "ERROR" ELSE verdict
<1>1. /\ at = "cleanup" /\ tree' = Recorded("cleanup", StatusOf(result))
      /\ held' = held \ Removed(result) /\ UNCHANGED <<task, todo>>
      /\ at' = "done" /\ reported' = code /\ verdict' = code
  BY DEF CleanUp, Report
<1>2. /\ tree \in Seq(StageRows) /\ todo \in Seq(Stages) /\ CleanupPending
      /\ held \subseteq Resources /\ "lock" \notin held
  BY <1>1 DEF ExecInv, ExecTypeOK, HeldInPlace
<1>3. /\ tree' \in Seq(StageRows) /\ StoppedButCleanup(tree')
      /\ tree'[Len(tree')] = [stage |-> "cleanup", status |-> StatusOf(result)]
      /\ HasFailed(tree) => HasFailed(tree')
      /\ AllPassed(tree) => NoneFailed(tree')
      /\ \A x : HasPassed(tree, x) => HasPassed(tree', x)
  <2>1. tree' = WithCleanup(tree, StatusOf(result))
    BY <1>1 DEF Recorded, WithCleanup
  <2>2. Stopped(tree) /\ StatusOf(result) \in Statuses
    BY <1>2, OutcomeFacts DEF CleanupPending
  <2>3. CleanupFollows(tree', tree, StatusOf(result))
    BY <1>2, <2>1, <2>2, CleanupEnds
  <2> QED BY <2>3 DEF CleanupFollows
<1>4. code \in Codes /\ Says(code, tree', Goal(task))
  BY <1>2, <1>3 DEF CleanupPending, Says, Codes
<1>5. ExecTypeOK'
  BY <1>1, <1>2, <1>3, <1>4 DEF ExecInv, ExecTypeOK, Places
<1>6. "resultdir" \notin held' /\ "lock" \notin held' /\ ("container" \in held' => result # "ok")
  BY <1>1, <1>2, OutcomeFacts DEF Removed, Resources
<1>7. HeldInPlace' /\ CleanupTold'
  <2>1. StatusOf(result) = "passed" <=> result = "ok"
    BY OutcomeFacts
  <2> QED BY <1>1, <1>3, <1>6, <2>1 DEF HeldInPlace, CleanupTold
<1> QED BY <1>1, <1>3, <1>4, <1>5, <1>7 DEF ExecInv, Before

-----------------------------------------------------------------------------
LEMMA ExecStep ==
  ASSUME ExecInv, [ExecNext]_execVars
  PROVE  ExecInv'
<1>1. ASSUME NEW result \in Outcomes, Step(result)
      PROVE  ExecInv'
  BY <1>1, InstallInv, HostStageInv, PrepareImageInv, CheckOutInv, PlanStagesInv,
     StartContainerInv, BootstrapInv, ContainerStageInv, CleanUpInv DEF Step
<1>2. CASE NextJob \/ Restarts
  BY <1>2, FreshInv DEF NextJob, Restarts
<1>3. CASE Killed
  <2>1. at # "done" /\ at' = "exited" /\ held' = held \ {"lock"}
        /\ UNCHANGED <<task, todo, tree, verdict, reported>>
    BY <1>3 DEF Killed
  <2>2. tree \in Seq(StageRows) /\ todo \in Seq(Stages) /\ StoppedButCleanup(tree)
    BY DEF ExecInv, ExecTypeOK
  <2> QED BY <2>1, <2>2, ExitInv
<1>4. CASE NeighbourStarts
  <2>1. held' = held \ {"container"} /\ UNCHANGED <<task, at, todo, tree, verdict, reported>>
    BY <1>4 DEF NeighbourStarts
  <2>2. HeldInPlace' /\ CleanupTold' /\ held' \subseteq Resources
    BY <2>1 DEF ExecInv, ExecTypeOK, HeldInPlace, CleanupTold
  <2>3. CleanupPending => CleanupPending'
    BY <2>1 DEF CleanupPending
  <2> QED BY <2>1, <2>2, <2>3 DEF ExecInv, ExecTypeOK
<1>5. CASE UNCHANGED execVars
  <2>1. UNCHANGED <<task, at, todo, tree, held, verdict, reported>>
    BY <1>5 DEF execVars
  <2>2. (CleanupPending => CleanupPending') /\ (HeldInPlace => HeldInPlace')
        /\ (CleanupTold => CleanupTold')
    BY <2>1 DEF CleanupPending, HeldInPlace, CleanupTold
  <2> QED BY <2>1, <2>2 DEF ExecInv, ExecTypeOK
<1> QED BY <1>1, <1>2, <1>3, <1>4, <1>5, StartOnHostInv DEF ExecNext

\* The executor's states: types, and what a result, a stage and what is held on
\* the host have to do with each other at every place of a job.
THEOREM ExecInvariant == ExecSpec => []ExecInv
  BY ExecInitInv, ExecStep, PTL DEF ExecSpec

\* A result that is reported is what its stages say, for every job and however
\* its commands end, and whoever is killed meanwhile.
THEOREM ResultFollowsStages == ExecSpec => []ResultIsWhatTheStagesSay
<1>1. ExecInv => ResultIsWhatTheStagesSay
  <2> SUFFICES ASSUME ExecInv PROVE ResultIsWhatTheStagesSay
    OBVIOUS
  <2>1. StoppedButCleanup(tree) /\ Says(reported, tree, Goal(task))
    BY DEF ExecInv
  <2>2. reported = "FAIL" => HasFailed(tree)
    BY <2>1 DEF Says
  <2>3. reported = "PASS" => NoneFailed(tree) /\ HasPassed(tree, Goal(task))
    BY <2>1 DEF Says
  <2> QED BY <2>1, <2>2, <2>3 DEF ResultIsWhatTheStagesSay, StoppedButCleanup, HasFailed,
                                 NoneFailed, HasPassed, Goal
<1> QED BY <1>1, ExecInvariant, PTL

\* No way through the stages loses a container, a lock or a result directory
\* without a cleanup that is recorded as failed.
THEOREM LeftoversAreTold == ExecSpec => []NothingIsLeftSilently
<1>1. ExecInv => NothingIsLeftSilently
  BY DEF ExecInv, HeldInPlace, CleanupTold, NothingIsLeftSilently
<1> QED BY <1>1, ExecInvariant, PTL

(* Runner images. *)

\* What is built from a resolved line has the commit that the line names.
AsNamed(image) == image.line \in {Branch, image.commit}

LayersAsNamed == \A l \in Lines : l # Branch => layer[l] \in {Missing, l}

Built == {"tag", "read", "compare", "bake", "commit"}

\* Until another process retags the base, what a process reads the id of and then
\* installs in is what it built.
OwnBuild ==
  \A b \in Bakers :
    /\ baker[b].at \in Built => AsNamed(baker[b].image)
    /\ b \notin raced =>
         /\ baker[b].at \in {"read", "compare", "bake"} => base = baker[b].image
         /\ baker[b].at \in {"compare", "bake", "commit"} => baker[b].base = baker[b].image
         /\ baker[b].at = "commit" => baker[b].from = baker[b].image

ImageInv == ImageTypeOK /\ LayersAsNamed /\ OwnBuild

-----------------------------------------------------------------------------
LEMMA ImageFacts ==
  /\ MaxHead \in Nat /\ Branch = -1 /\ Missing = -1 /\ Lines = -1..MaxHead
  /\ NoImage \in Images /\ Idle.at = "idle"
  /\ Idle.image \in Images /\ Idle.base \in Images /\ Idle.from \in Images
  BY BakerAssumption DEF Branch, Missing, Lines, NoImage, Images, Idle

Phases == {"idle", "build", "tag", "read", "compare", "bake", "commit"}

\* One process goes on, and the base stays.
LEMMA OneBaker ==
  ASSUME ImageInv, NEW b \in Bakers, UNCHANGED <<base, raced>>, LayersAsNamed',
         head' \in 0..MaxHead, layer' \in [Lines -> Missing..MaxHead],
         runner' \in [from : Images, label : Images],
         NEW new \in [at : Phases, image : Images, base : Images, from : Images],
         baker' = [baker EXCEPT ![b] = new],
         new.at \in Built => AsNamed(new.image),
         b \notin raced =>
           /\ new.at \in {"read", "compare", "bake"} => base = new.image
           /\ new.at \in {"compare", "bake", "commit"} => new.base = new.image
           /\ new.at = "commit" => new.from = new.image
  PROVE  ImageInv'
<1>1. /\ baker'[b] = new /\ \A x \in Bakers \ {b} : baker'[x] = baker[x]
      /\ baker' \in [Bakers -> [at : Phases, image : Images, base : Images, from : Images]]
  BY DEF ImageInv, ImageTypeOK, Phases
<1>2. ImageTypeOK'
  BY <1>1 DEF ImageInv, ImageTypeOK, Phases
<1>3. OwnBuild'
  BY <1>1 DEF ImageInv, OwnBuild, AsNamed
<1> QED BY <1>2, <1>3 DEF ImageInv

LEMMA ImageInvInit == ImageInit => ImageInv
<1> SUFFICES ASSUME ImageInit PROVE ImageInv
  OBVIOUS
<1>1. /\ head = 0 /\ layer = [l \in Lines |-> Missing] /\ base = NoImage /\ raced = {}
      /\ runner = [from |-> NoImage, label |-> NoImage] /\ baker = [b \in Bakers |-> Idle]
  BY DEF ImageInit
<1>2. Idle \in [at : Phases, image : Images, base : Images, from : Images]
  BY ImageFacts DEF Idle, Phases
<1>3. ImageTypeOK
  BY <1>1, <1>2, ImageFacts DEF ImageTypeOK, Phases
<1>4. LayersAsNamed /\ OwnBuild
  BY <1>1, ImageFacts DEF LayersAsNamed, OwnBuild, Built
<1> QED BY <1>3, <1>4 DEF ImageInv

LEMMA ImageInvStep == ImageInv /\ [ImageNext]_imageVars => ImageInv'
<1> SUFFICES ASSUME ImageInv, [ImageNext]_imageVars PROVE ImageInv'
  OBVIOUS
<1>t. /\ head \in 0..MaxHead /\ base \in Images /\ layer \in [Lines -> Missing..MaxHead]
      /\ runner \in [from : Images, label : Images] /\ raced \subseteq Bakers
      /\ baker \in [Bakers -> [at : Phases, image : Images, base : Images, from : Images]]
  BY DEF ImageInv, ImageTypeOK, Phases
<1>l. UNCHANGED layer => LayersAsNamed'
  BY DEF ImageInv, LayersAsNamed
<1>1. CASE Push
  <2>1. head' \in 0..MaxHead /\ UNCHANGED <<layer, base, runner, baker, raced>>
    BY <1>1, <1>t, ImageFacts DEF Push
  <2> QED BY <1>l, <2>1 DEF ImageInv, ImageTypeOK, OwnBuild, AsNamed
<1>2. ASSUME NEW b \in Bakers, NEW line \in Lines, Resolve(b, line) PROVE ImageInv'
  <2> DEFINE image == [baker[b].image EXCEPT !.line = line]
             new == [baker[b] EXCEPT !.at = "build", !.image = image]
  <2>1. /\ baker' = [baker EXCEPT ![b] = new] /\ UNCHANGED <<head, layer, base, runner, raced>>
    BY <1>2, <1>t DEF Resolve
  <2>2. image \in Images
    BY <1>t DEF Images
  <2> HIDE DEF image
  <2>3. new \in [at : Phases, image : Images, base : Images, from : Images] /\ new.at = "build"
    BY <1>t, <2>2 DEF Phases
  <2> HIDE DEF new
  <2> QED BY <1>t, <1>l, <2>1, <2>3, OneBaker DEF Built
<1>3. ASSUME NEW b \in Bakers, BuildImage(b) PROVE ImageInv'
  <2> DEFINE line  == baker[b].image.line
             got   == IF layer[line] = Missing THEN Installed(line) ELSE layer[line]
             image == [baker[b].image EXCEPT !.commit = layer'[line]]
             new   == [baker[b] EXCEPT !.at = "tag", !.image = image]
  <2>2. line \in Lines
    BY <1>t DEF Images
  <2>a. layer' = [layer EXCEPT ![line] = got]
    BY <1>3, <1>t, <2>2, SMTT(60) DEF BuildImage
  <2>b. baker' = [baker EXCEPT ![b].at = "tag", ![b].image.commit = layer'[line]]
        /\ UNCHANGED <<head, base, runner, raced>>
    BY <1>3, ZenonT(60) DEF BuildImage
  <2>c. baker' = [baker EXCEPT ![b] = new]
    BY <1>t, <2>b
  <2>1. /\ layer' = [layer EXCEPT ![line] = got] /\ baker' = [baker EXCEPT ![b] = new]
        /\ UNCHANGED <<head, base, runner, raced>>
    BY <2>a, <2>b, <2>c
  <2>3. got \in Missing..MaxHead /\ (line # Branch => got = line)
    BY <1>t, <2>2, ImageFacts, SMTT(40) DEF Installed, ImageInv, LayersAsNamed
  <2> HIDE DEF got
  <2>4. layer' \in [Lines -> Missing..MaxHead] /\ layer'[line] = got
    BY <1>t, <2>1, <2>2, <2>3
  <2>5. LayersAsNamed'
    BY <1>t, <2>1, <2>2, <2>3 DEF ImageInv, LayersAsNamed
  <2>6. image \in Images /\ AsNamed(image)
    BY <1>t, <2>2, <2>3, <2>4 DEF Images, AsNamed
  <2> HIDE DEF image
  <2>7. /\ new \in [at : Phases, image : Images, base : Images, from : Images]
        /\ new.at = "tag" /\ new.image = image
    BY <1>t, <2>6 DEF Phases
  <2> HIDE DEF new
  <2> QED BY <1>t, <2>1, <2>4, <2>5, <2>6, <2>7, OneBaker
<1>4. ASSUME NEW b \in Bakers, TagBase(b) PROVE ImageInv'
  <2>1. /\ baker[b].at = "tag" /\ base' = baker[b].image
        /\ raced' = (raced \ {b}) \cup {p \in Bakers \ {b} : baker[p].at \in {"read", "compare", "bake"}}
        /\ baker' = [baker EXCEPT ![b] = [baker[b] EXCEPT !.at = "read"]]
        /\ UNCHANGED <<head, layer, runner>>
    BY <1>4, <1>t DEF TagBase
  <2>2. /\ baker'[b].at = "read" /\ baker'[b].image = baker[b].image
        /\ \A x \in Bakers \ {b} : baker'[x] = baker[x]
    BY <1>t, <2>1
  <2>3. ImageTypeOK'
    BY <1>t, <2>1 DEF ImageTypeOK, Phases
  <2>4. AsNamed(baker[b].image)
    BY <2>1 DEF ImageInv, OwnBuild, Built
  <2>5. ASSUME NEW x \in Bakers \ {b}, x \notin raced'
        PROVE  x \notin raced /\ baker[x].at \notin {"read", "compare", "bake"}
    BY <2>1, <2>5
  <2>6. OwnBuild'
    BY <2>1, <2>2, <2>4, <2>5 DEF ImageInv, OwnBuild, AsNamed
  <2> QED BY <1>l, <2>1, <2>3, <2>6 DEF ImageInv
<1>5. ASSUME NEW b \in Bakers, ReadId(b) PROVE ImageInv'
  <2> DEFINE new == [baker[b] EXCEPT !.at = "compare", !.base = base]
  <2>1. /\ baker[b].at = "read" /\ baker' = [baker EXCEPT ![b] = new]
        /\ UNCHANGED <<head, layer, base, runner, raced>>
    BY <1>5, <1>t DEF ReadId
  <2>2. /\ new \in [at : Phases, image : Images, base : Images, from : Images]
        /\ new.at = "compare" /\ new.image = baker[b].image /\ new.base = base
    BY <1>t DEF Phases
  <2> HIDE DEF new
  <2>3. AsNamed(baker[b].image) /\ (b \notin raced => base = baker[b].image)
    BY <2>1 DEF ImageInv, OwnBuild, Built
  <2> QED BY <1>t, <1>l, <2>1, <2>2, <2>3, OneBaker
<1>i. ASSUME NEW b \in Bakers, baker' = [baker EXCEPT ![b] = Idle],
             UNCHANGED <<head, layer, base, raced>>, runner' \in [from : Images, label : Images]
      PROVE  ImageInv'
  <2>1. Idle \in [at : Phases, image : Images, base : Images, from : Images]
    BY ImageFacts DEF Idle, Phases
  <2> QED BY <1>t, <1>l, <1>i, <2>1, ImageFacts, OneBaker DEF Built
<1>6. ASSUME NEW b \in Bakers, Compare(b) PROVE ImageInv'
  <2>1. baker[b].at = "compare" /\ UNCHANGED <<head, layer, base, runner, raced>>
    BY <1>6 DEF Compare
  <2>2. CASE baker' = [baker EXCEPT ![b] = Idle]
    BY <1>t, <1>i, <2>1, <2>2
  <2> DEFINE new == [baker[b] EXCEPT !.at = "bake"]
  <2>3. CASE baker' = [baker EXCEPT ![b] = new]
    <3>1. /\ new \in [at : Phases, image : Images, base : Images, from : Images]
          /\ new.at = "bake" /\ new.image = baker[b].image /\ new.base = baker[b].base
      BY <1>t DEF Phases
    <3> HIDE DEF new
    <3>2. /\ AsNamed(baker[b].image)
          /\ b \notin raced => base = baker[b].image /\ baker[b].base = baker[b].image
      BY <2>1 DEF ImageInv, OwnBuild, Built
    <3> QED BY <1>t, <1>l, <2>1, <2>3, <3>1, <3>2, OneBaker
  <2>4. baker' = [baker EXCEPT ![b] = IF runner.label = @.base THEN Idle ELSE [@ EXCEPT !.at = "bake"]]
    BY <1>6 DEF Compare
  <2>5. baker' = [baker EXCEPT ![b] = Idle] \/ baker' = [baker EXCEPT ![b] = new]
    BY <1>t, <2>4
  <2> QED BY <2>2, <2>3, <2>5
<1>7. ASSUME NEW b \in Bakers, Bake(b) PROVE ImageInv'
  <2> DEFINE new == [baker[b] EXCEPT !.at = "commit", !.from = base]
  <2>1. /\ baker[b].at = "bake" /\ baker' = [baker EXCEPT ![b] = new]
        /\ UNCHANGED <<head, layer, base, runner, raced>>
    BY <1>7, <1>t DEF Bake
  <2>2. /\ new \in [at : Phases, image : Images, base : Images, from : Images]
        /\ new.at = "commit" /\ new.image = baker[b].image /\ new.base = baker[b].base
        /\ new.from = base
    BY <1>t DEF Phases
  <2> HIDE DEF new
  <2>3. /\ AsNamed(baker[b].image)
        /\ b \notin raced => base = baker[b].image /\ baker[b].base = baker[b].image
    BY <2>1 DEF ImageInv, OwnBuild, Built
  <2> QED BY <1>t, <1>l, <2>1, <2>2, <2>3, OneBaker
<1>8. ASSUME NEW b \in Bakers, Commit(b) PROVE ImageInv'
  <2>1. /\ runner' = [from |-> baker[b].from, label |-> baker[b].base]
        /\ baker' = [baker EXCEPT ![b] = Idle] /\ UNCHANGED <<head, layer, base, raced>>
    BY <1>8 DEF Commit
  <2>2. runner' \in [from : Images, label : Images]
    BY <1>t, <2>1
  <2> QED BY <1>i, <2>1, <2>2
<1>9. ASSUME NEW b \in Bakers, Refused(b) PROVE ImageInv'
  BY <1>9, <1>i, <1>t DEF Refused
<1>10. CASE UNCHANGED imageVars
  BY <1>10, <1>l DEF imageVars, ImageInv, ImageTypeOK, OwnBuild, AsNamed
<1> QED BY <1>1, <1>2, <1>3, <1>4, <1>5, <1>6, <1>7, <1>8, <1>9, <1>10 DEF ImageNext

-----------------------------------------------------------------------------
LEMMA ImageInvariant == ImageSpec => []ImageInv
  BY ImageInvInit, ImageInvStep, PTL DEF ImageSpec

\* _build_nix_runner_image, for any number of processes and pushes: a round that
\* no other process's build crosses between its own build and its bake leaves the
\* image it built, of the head it resolved, and labels it so.
THEOREM UndisturbedRoundsAreCurrent == ImageSpec => UndisturbedIsCurrent
<1>1. ImageInv /\ [ImageNext]_imageVars =>
        [\A b \in Bakers \ raced :
           Commit(b) \/ (Skips(b) /\ runner.from = runner.label) =>
             /\ runner'.from = baker[b].image /\ runner'.label = baker[b].image
             /\ baker[b].image.line \in {Branch, baker[b].image.commit}]_imageVars
  <2> SUFFICES ASSUME ImageInv, NEW b \in Bakers \ raced,
                      Commit(b) \/ (Skips(b) /\ runner.from = runner.label)
               PROVE  /\ runner'.from = baker[b].image /\ runner'.label = baker[b].image
                      /\ AsNamed(baker[b].image)
    BY DEF AsNamed
  <2>1. CASE Commit(b)
    <3>1. /\ AsNamed(baker[b].image)
          /\ baker[b].from = baker[b].image /\ baker[b].base = baker[b].image
      BY <2>1 DEF Commit, ImageInv, OwnBuild, Built
    <3> QED BY <2>1, <3>1 DEF Commit
  <2>2. CASE Skips(b) /\ runner.from = runner.label
    <3>1. baker[b].at = "compare" /\ runner' = runner /\ AsNamed(baker[b].image)
          /\ baker[b].base = baker[b].image
      BY <2>2 DEF Skips, Compare, ImageInv, OwnBuild, Built
    <3>2. runner.label = baker[b].base
      <4>1. baker[b] \in [at : Phases, image : Images, base : Images, from : Images]
            /\ baker \in [Bakers -> [at : Phases, image : Images, base : Images, from : Images]]
        BY DEF ImageInv, ImageTypeOK, Phases
      <4>2. baker'[b].at = "idle"
            /\ baker'[b] = IF runner.label = baker[b].base THEN Idle ELSE [baker[b] EXCEPT !.at = "bake"]
        BY <2>2, <4>1 DEF Skips, Compare
      <4>3. [baker[b] EXCEPT !.at = "bake"].at = "bake"
        BY <4>1
      <4> QED BY <4>2, <4>3
    <3> QED BY <2>2, <3>1, <3>2
  <2> QED BY <2>1, <2>2
<1> QED BY <1>1, ImageInvariant, PTL DEF ImageSpec, UndisturbedIsCurrent
=============================================================================

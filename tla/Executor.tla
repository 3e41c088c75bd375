------------------------------ MODULE Executor ------------------------------
(***************************************************************************)
(* One worker executing one job after another: the installation, the stages *)
(* of the host path and of the container path, what each command's end does *)
(* to the stages that follow, what the job holds on the host meanwhile, and *)
(* the result that is reported.                                             *)
(*                                                                          *)
(* A command ends with exit code 0 ("ok") or another ("nonzero"), or cannot *)
(* be started or waited for ("raises").  What it prints and the argv it is  *)
(* given are left out; which command runs, and after which, is not.         *)
(***************************************************************************)
EXTENDS Integers, Sequences

CONSTANTS ExecutorFaults

ExecutorFaultKinds == {"raises",    \* a command raises instead of exiting
                       "killed",    \* the worker process is killed
                       "neighbour"} \* another worker starts on the same host

ASSUME ExecutorAssumption == ExecutorFaults \subseteq ExecutorFaultKinds

\* A job as far as the executor tells jobs apart.  `source` is the opp_env
\* catalog, an .opp file, or an .opp file at a git ref; a job that is not
\* pinned has no image tag; a baseline is what the kind's charts compare with.
ExecJobs == [isolation : {"none", "podman"}, toolchain : {"nix", "none"},
             kind : {"build", "test", "unknown"}, source : {"catalog", "file", "ref"},
             baseline : BOOLEAN, pinned : BOOLEAN]

VARIABLES
  task,     \* the job being executed
  at,       \* where its execution is
  todo,     \* the stages that are still to run
  tree,     \* the stages recorded, each with its status
  held,     \* what the job holds on the host
  verdict,  \* the result found so far
  reported  \* the result that was reported

execVars == <<task, at, todo, tree, held, verdict, reported>>

Resources == {"lock", "container", "worktree", "scratch", "resultdir"}
Codes     == {"PASS", "FAIL", "ERROR"}
Places    == {"received", "run", "stages", "checkout", "plan", "up", "bootstrap",
              "exec", "cleanup", "done", "exited"}
Stages    == {"deps.install", "checkout", "project.build", "test.run",
              "container.prepare", "runner.bootstrap", "cleanup"}
StageRows == [stage : Stages, status : {"running", "passed", "failed", "skipped"}]

ExecTypeOK ==
  /\ task \in ExecJobs /\ at \in Places /\ held \subseteq Resources
  /\ verdict \in Codes \cup {"none"} /\ reported \in Codes \cup {"none"}
  /\ tree \in Seq(StageRows) /\ todo \in Seq(Stages)

Outcomes == {"ok", "nonzero"} \cup (ExecutorFaults \cap {"raises"})

ExecInit ==
  /\ task \in ExecJobs /\ at = "received"
  /\ todo = <<>> /\ tree = <<>> /\ held = {} /\ verdict = "none" /\ reported = "none"

-----------------------------------------------------------------------------
(* The recorder: begin, command, end. *)

\* A command that raises leaves its stage open, unless its caller ends it.
StatusOf(result) == CASE result = "ok"      -> "passed"
                      [] result = "nonzero" -> "failed"
                      [] result = "raises"  -> "running"

Recorded(stage, status) == Append(tree, [stage |-> stage, status |-> status])

Skipped(stages) ==
  [i \in DOMAIN stages |-> [stage |-> stages[i], status |-> "skipped"]]

-----------------------------------------------------------------------------
(* The worker: _execute, and the installation on the host. *)

Report(code) == at' = "done" /\ reported' = code /\ verdict' = code

\* install_project is a no-op in a container.  A failed installation is a
\* RuntimeError and is reported; any other exception leaves the main loop.
Install(result) ==
  /\ at = "received"
  /\ UNCHANGED <<task, todo, held>>
  /\ IF task.isolation = "podman"
     THEN result = "ok" /\ at' = "run" /\ UNCHANGED <<tree, verdict, reported>>
     ELSE /\ tree' = Recorded("deps.install", StatusOf(result))
          /\ CASE result = "ok"      -> at' = "run" /\ UNCHANGED <<verdict, reported>>
               [] result = "nonzero" -> Report("ERROR")
               [] result = "raises"  -> at' = "exited" /\ UNCHANGED <<verdict, reported>>

\* An exception of run_test is caught and reported.
Refuse(code) == Report(code) /\ UNCHANGED <<task, todo, tree, held>>

-----------------------------------------------------------------------------
(* The host path: _run_test_via_opp_env. *)

\* The charts or scalars that the job's test compares with, where its project
\* declares a repository of them, are checked out next to the source.
BaselineStage == IF task.baseline THEN <<"checkout">> ELSE <<>>

HostStages == BaselineStage \o <<"project.build", "test.run">>

StartOnHost ==
  /\ at = "run" /\ task.isolation = "none"
  /\ IF task.kind = "unknown" THEN Refuse("ERROR")
     ELSE /\ at' = "stages" /\ todo' = HostStages /\ held' = held \cup {"lock"}
          /\ UNCHANGED <<task, tree, verdict, reported>>

\* Mutant: a failed stage does not stop the ones after it.
HostStageGoesOn(result) ==
  /\ at = "stages"
  /\ tree' = Recorded(Head(todo), IF result = "ok" THEN "passed" ELSE "failed")
  /\ IF Len(todo) = 1
     THEN Report(IF result = "ok" THEN "PASS" ELSE "FAIL") /\ held' = held \ {"lock"}
     ELSE UNCHANGED <<at, held, verdict, reported>>
  /\ todo' = Tail(todo)
  /\ UNCHANGED task

\* The next stage of the host path.  A baseline that cannot be checked out is an
\* error, a build or a test that exits with a code is a failure; a build that
\* is the whole job leaves no test to run.
HostStage(result) ==
  LET stage  == Head(todo)
      status == IF stage = "checkout" /\ result # "ok" THEN "failed" ELSE StatusOf(result)
      whole  == stage = "project.build" /\ result = "ok" /\ task.kind = "build"
      over   == result # "ok" \/ whole \/ Len(todo) = 1
  IN
  /\ at = "stages"
  /\ tree' = Recorded(stage, status) \o
             (IF over /\ status # "running" THEN Skipped(Tail(todo)) ELSE <<>>)
  /\ todo' = IF over THEN <<>> ELSE Tail(todo)
  /\ IF over
     THEN /\ held' = held \ {"lock"}
          /\ Report(CASE result = "ok" -> "PASS"
                      [] result = "nonzero" /\ stage # "checkout" -> "FAIL"
                      [] OTHER -> "ERROR")
     ELSE UNCHANGED <<at, held, verdict, reported>>
  /\ UNCHANGED task

-----------------------------------------------------------------------------
(* The container path: _run_test_in_podman and _run_podman_staged. *)

\* A catalog project is installed in the container; nix runs every stage in
\* opp_env, whatever the kind.
ContainerStages ==
  (IF task.toolchain = "nix" \/ task.source = "catalog" THEN <<"deps.install">> ELSE <<>>)
  \o (IF task.source = "catalog" THEN BaselineStage ELSE <<>>)
  \o <<"project.build">>
  \o (IF task.toolchain = "nix" \/ task.kind # "build" THEN <<"test.run">> ELSE <<>>)

\* An image is named by the platform, the compiler and the versions; the name
\* of an axis that is not pinned is a ValueError.
HasImageTag == task.pinned

\* The image is rendered and built, whether it is there or not.
EnsureImage(result) ==
  /\ tree' = Recorded("container.prepare", IF result = "ok" THEN "passed" ELSE "failed")
  /\ IF result = "ok" THEN at' = "checkout" /\ UNCHANGED <<verdict, reported>>
                      ELSE Report("ERROR")
  /\ UNCHANGED <<task, todo, held>>

PrepareImage(result) ==
  /\ at = "run" /\ task.isolation = "podman"
  /\ IF HasImageTag THEN EnsureImage(result) ELSE Refuse("ERROR")

\* What the source leaves on the host: a scratch directory for the catalog, a
\* worktree for a git ref; the project's own directory or its clone stays.
SourceOnHost == CASE task.source = "catalog" -> {"scratch"}
                  [] task.source = "ref"     -> {"worktree"}
                  [] task.source = "file"    -> {}

CheckOut(result) ==
  /\ at = "checkout"
  /\ UNCHANGED <<task, todo>>
  /\ tree' = IF task.source = "ref"
             THEN Recorded("checkout", IF result = "ok" THEN "passed" ELSE "failed") ELSE tree
  /\ \/ /\ result = "ok" \/ task.source = "catalog"
        /\ at' = "plan"
        /\ held' = held \cup SourceOnHost
        /\ UNCHANGED <<verdict, reported>>
     \/ /\ result # "ok" /\ task.source # "catalog"
        /\ Report("ERROR") /\ UNCHANGED held

\* The commands of the stages, then the baseline of a mounted project, which is
\* checked out on the host.
PlanStages(result) ==
  /\ at = "plan"
  /\ IF task.kind = "unknown" THEN Refuse("ERROR")
     ELSE IF task.baseline /\ task.source # "catalog" /\ result # "ok"
     THEN /\ tree' = Recorded("checkout", "failed") \o Skipped(ContainerStages)
          /\ Report("ERROR") /\ UNCHANGED <<task, todo, held>>
     ELSE /\ tree' = IF task.baseline /\ task.source # "catalog"
                     THEN Recorded("checkout", "passed") ELSE tree
          /\ todo' = ContainerStages /\ held' = held \cup {"resultdir"} /\ at' = "up"
          /\ UNCHANGED <<task, verdict, reported>>

\* podman run -d; what it started before it failed may be there.
StartContainer(result) ==
  /\ at = "up"
  /\ IF result = "ok"
     THEN held' = held \cup {"container"} /\ at' = "bootstrap" /\ UNCHANGED verdict
     ELSE /\ held' \in {held, held \cup {"container"}}
          /\ at' = "cleanup" /\ verdict' = "ERROR"
  /\ UNCHANGED <<task, todo, tree, reported>>

\* A command in a container that is gone does not succeed.
ExecEnds(result) == "container" \in held \/ result # "ok"

Bootstrap(result) ==
  /\ at = "bootstrap" /\ ExecEnds(result)
  /\ tree' = Recorded("runner.bootstrap", StatusOf(result)) \o
             (IF result = "nonzero" THEN Skipped(todo) ELSE <<>>)
  /\ CASE result = "ok"      -> at' = "exec" /\ UNCHANGED verdict
       [] result = "nonzero" -> at' = "cleanup" /\ verdict' = "FAIL"
       [] result = "raises"  -> at' = "cleanup" /\ verdict' = "ERROR"
  /\ UNCHANGED <<task, todo, held, reported>>

\* Mutants: the stages after a failed one run; an exception skips the cleanup.
ContainerStageGoesOn(result) ==
  /\ at = "exec" /\ ExecEnds(result)
  /\ tree' = Recorded(Head(todo), StatusOf(result))
  /\ todo' = Tail(todo)
  /\ IF Len(todo) = 1
     THEN at' = "cleanup" /\ verdict' = IF result = "ok" THEN "PASS" ELSE "FAIL"
     ELSE UNCHANGED <<at, verdict>>
  /\ UNCHANGED <<task, held, reported>>
ContainerStageNoFinally(result) ==
  /\ at = "exec" /\ ExecEnds(result) /\ result # "ok"
  /\ tree' = Recorded(Head(todo), StatusOf(result)) \o Skipped(Tail(todo))
  /\ todo' = <<>>
  /\ Report("ERROR")
  /\ UNCHANGED <<task, held>>

ContainerStage(result) ==
  /\ at = "exec" /\ ExecEnds(result)
  /\ tree' = Recorded(Head(todo), StatusOf(result)) \o
             (IF result = "nonzero" THEN Skipped(Tail(todo)) ELSE <<>>)
  /\ todo' = IF result = "ok" THEN Tail(todo) ELSE <<>>
  /\ IF result = "ok" /\ Len(todo) > 1 THEN UNCHANGED <<at, verdict>>
     ELSE /\ at' = "cleanup"
          /\ verdict' = CASE result = "ok"      -> "PASS"
                          [] result = "nonzero" -> "FAIL"
                          [] result = "raises"  -> "ERROR"
  /\ UNCHANGED <<task, held, reported>>

\* The container first; if its removal raises, only the result directory goes.
Removed(result) == CASE result = "ok"      -> Resources
                     [] result = "nonzero" -> {"worktree", "scratch", "resultdir"}
                     [] result = "raises"  -> {"resultdir"}

\* The finally of the staged run.
CleanUp(result) ==
  /\ at = "cleanup"
  /\ tree' = Recorded("cleanup", StatusOf(result))
  /\ held' = held \ Removed(result)
  /\ Report(IF result = "raises" THEN "ERROR" ELSE verdict)
  /\ UNCHANGED <<task, todo>>

-----------------------------------------------------------------------------
(* Around a job. *)

NextJob ==
  /\ at = "done"
  /\ task' \in ExecJobs /\ at' = "received"
  /\ todo' = <<>> /\ tree' = <<>> /\ held' = {} /\ verdict' = "none" /\ reported' = "none"

\* The kernel releases the lock of a killed process; nothing is reported.
Killed ==
  /\ "killed" \in ExecutorFaults /\ at \notin {"done", "exited"}
  /\ at' = "exited" /\ held' = held \ {"lock"}
  /\ UNCHANGED <<task, todo, tree, verdict, reported>>

\* The service manager starts the worker again, and it removes every runner
\* container it finds.  Directories that a job left are not followed further.
Restarts ==
  /\ at = "exited"
  /\ task' \in ExecJobs /\ at' = "received" /\ held' = {}
  /\ todo' = <<>> /\ tree' = <<>> /\ verdict' = "none" /\ reported' = "none"

\* Another worker of this user starts, and does the same.
NeighbourStarts ==
  /\ "neighbour" \in ExecutorFaults /\ "container" \in held
  /\ held' = held \ {"container"}
  /\ UNCHANGED <<task, at, todo, tree, verdict, reported>>

Step(result) ==
  \/ Install(result) \/ HostStage(result)
  \/ PrepareImage(result) \/ CheckOut(result) \/ PlanStages(result)
  \/ StartContainer(result) \/ Bootstrap(result) \/ ContainerStage(result) \/ CleanUp(result)

ExecNext ==
  \/ \E result \in Outcomes : Step(result)
  \/ StartOnHost \/ NextJob \/ Killed \/ Restarts \/ NeighbourStarts

ExecSpec == ExecInit /\ [][ExecNext]_execVars

-----------------------------------------------------------------------------
Ran == {"passed", "failed", "running"}

\* A reported result is what its stages say.  A pass has no stage that failed,
\* and only a job that is a build leaves the test out; a failure has a stage
\* that exited with a code; nothing runs after a stage that did not pass, but
\* the cleanup.
ResultIsWhatTheStagesSay ==
  /\ reported = "PASS" =>
       /\ \A i \in DOMAIN tree : tree[i].stage # "cleanup" => tree[i].status \in {"passed", "skipped"}
       /\ \E i \in DOMAIN tree :
            tree[i] = [stage |-> IF task.kind = "build" THEN "project.build" ELSE "test.run",
                       status |-> "passed"]
  /\ reported = "FAIL" => \E i \in DOMAIN tree : tree[i].status = "failed"
  /\ \A i, j \in DOMAIN tree :
       i < j /\ tree[i].status \in {"failed", "running"} /\ tree[j].status \in Ran
         => tree[j].stage = "cleanup"

\* A container or a lock that outlives its job is one whose removal is recorded
\* as failed: no way through the stages loses it silently.
NothingIsLeftSilently ==
  at = "done" =>
    /\ "lock" \notin held /\ "resultdir" \notin held
    /\ "container" \in held => tree[Len(tree)].stage = "cleanup" /\ tree[Len(tree)].status # "passed"

-----------------------------------------------------------------------------
\* doc/concepts.md: ERROR distinguishes infrastructure failure (build, env,
\* worker crash) from genuine test failure.
FailuresAreOfTests ==
  reported = "FAIL" =>
    \E i \in DOMAIN tree : tree[i].status = "failed" /\
      (tree[i].stage = "test.run" \/ (task.kind = "build" /\ tree[i].stage = "project.build"))

\* The docstring of _run_test_in_podman: the worktree is removed after.
WorktreesAreRemoved == at = "done" => "worktree" \notin held
=============================================================================

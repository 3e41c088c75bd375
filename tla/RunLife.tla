------------------------------- MODULE RunLife -------------------------------
(***************************************************************************)
(* What opp_ci promises of its test runs, seen by the user who submits them: *)
(* a run waits in the queue, is attempted a bounded number of times, ends,  *)
(* and stays ended.  TestRunLifecycle names the phases; who executes a run, *)
(* and how the coordinator finds out, is left to Dispatch.                  *)
(***************************************************************************)
EXTENDS Naturals

CONSTANTS Runs,
          Budget    \* how often a run may be handed out: OPP_CI_MAX_RECLAIMS + 1

VARIABLES phase,     \* TestRun.lifecycle, "absent" before the run is submitted
          attempts   \* how often the run has been handed to a worker

lifeVars == <<phase, attempts>>

Ended(r) == phase[r] \in {"finished", "cancelled", "timed_out"}

LifeInit == phase = [r \in Runs |-> "absent"] /\ attempts = [r \in Runs |-> 0]

Moves(r, from, to) ==
  phase[r] \in from /\ phase'[r] = to /\ attempts'[r] = attempts[r]

Enqueue(r) == Moves(r, {"absent"}, "queued")

\* Handed to a worker: from the queue, or directly from an attempt that is lost.
Attempt(r) ==
  /\ phase[r] \in {"queued", "running"} /\ attempts[r] < Budget
  /\ phase'[r] = "running" /\ attempts'[r] = attempts[r] + 1

\* The attempt is lost, and there is one more to make.
GoBack(r) == attempts[r] < Budget /\ Moves(r, {"running"}, "queued")

Finish(r) == Moves(r, {"running"}, "finished")

\* Only a run that nobody executes can be cancelled.
Cancel(r) == Moves(r, {"queued"}, "cancelled")

\* Retired: the attempts are used up, or nobody can serve the run.
Retire(r) == Moves(r, {"queued", "running"}, "timed_out")

Live(r) == Enqueue(r) \/ Attempt(r) \/ GoBack(r) \/ Finish(r) \/ Cancel(r) \/ Retire(r)

Rest(r) == phase'[r] = phase[r] /\ attempts'[r] = attempts[r]

\* One transaction of the coordinator may move several runs.
LifeNext == \A r \in Runs : Live(r) \/ Rest(r)

LifeSafety == LifeInit /\ [][LifeNext]_lifeVars

\* A submitted run ends.
EveryRunEnds == \A r \in Runs : phase[r] = "queued" ~> Ended(r)

LifeSpec == LifeSafety /\ EveryRunEnds
=============================================================================

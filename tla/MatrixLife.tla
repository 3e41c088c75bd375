----------------------------- MODULE MatrixLife -----------------------------
(***************************************************************************)
(* What opp_ci promises of a matrix run (doc/concepts.md, Verdict): the      *)
(* cells are fixed when it is submitted, each of them is answered once and   *)
(* for good, and the stored verdict and completion are at every moment what  *)
(* the answers say.  Caching, expectations and who runs what are left to     *)
(* Rollup.                                                                  *)
(***************************************************************************)
CONSTANTS Matrices, Jobs

VARIABLES
  answer,    \* answer[m][j]: "none" before the matrix run has the cell
  verdict,   \* TestMatrixRun.verdict, "none" while it says nothing
  completed  \* TestMatrixRun.completed_at is set

matrixVars == <<answer, verdict, completed>>

Grades  == {"EXPECTED", "UNEXPECTED", "UNKNOWN"}
Settled == Grades \cup {"withdrawn"}

CellsIn(a) == {j \in Jobs : a[j] # "none"}

\* The worst answer counts, and all is well only when every cell says so.
RolledUp(a) ==
  IF \E j \in Jobs : a[j] = "UNEXPECTED" THEN "UNEXPECTED"
  ELSE IF \E j \in Jobs : a[j] = "UNKNOWN" THEN "UNKNOWN"
  ELSE IF CellsIn(a) # {} /\ \A j \in CellsIn(a) : a[j] = "EXPECTED" THEN "EXPECTED"
  ELSE "none"

AllSettled(a) == CellsIn(a) # {} /\ \A j \in CellsIn(a) : a[j] \in Settled

MatrixInit ==
  /\ answer = [m \in Matrices |-> [j \in Jobs |-> "none"]]
  /\ verdict = [m \in Matrices |-> "none"]
  /\ completed = [m \in Matrices |-> FALSE]

\* All cells appear at once; the cache answers some of them there and then.
Submit(m) ==
  /\ CellsIn(answer[m]) = {}
  /\ answer'[m] \in [Jobs -> {"none", "pending"} \cup Grades]

\* One transaction may answer or withdraw several cells.
Progress(m) ==
  /\ answer'[m] \in [Jobs -> {"none", "pending"} \cup Settled]
  /\ \A j \in Jobs : answer[m][j] # "pending" => answer'[m][j] = answer[m][j]
  /\ \A j \in Jobs : answer[m][j] = "pending" => answer'[m][j] # "none"

MatrixNext ==
  \A m \in Matrices :
    /\ Submit(m) \/ Progress(m)
    /\ verdict'[m] = RolledUp(answer'[m])
    /\ completed'[m] = AllSettled(answer'[m])

MatrixSafety == MatrixInit /\ [][MatrixNext]_matrixVars

\* A matrix run that was submitted completes.
EveryMatrixRunCompletes ==
  \A m \in Matrices : CellsIn(answer[m]) # {} ~> completed[m]
=============================================================================
